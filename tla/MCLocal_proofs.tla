---------------------------- MODULE MCLocal_proofs ----------------------------
(***************************************************************************)
(* Proofs about the two runners of processes of the GUI, for any number of *)
(* cpus, terminals, jobs and batches.                                      *)
(***************************************************************************)
EXTENDS MCLocal, SequenceTheorems, FiniteSetTheorems, TLAPS

USE LocalServerAssumption

-----------------------------------------------------------------------------
(* The table of jobs.                                                       *)

\* The indices of a list, and those of its elements with some property, are finite sets.
LEMMA Indices ==
  ASSUME NEW S, NEW q \in Seq(S), NEW I \in SUBSET DOMAIN q
  PROVE  /\ Len(q) \in Nat /\ DOMAIN q = 1 .. Len(q) /\ I \subseteq Nat
         /\ IsFiniteSet(I) /\ Cardinality(I) \in Nat
<1>1. Len(q) \in Nat /\ DOMAIN q = 1 .. Len(q)
  BY LenProperties
<1>2. IsFiniteSet(1 .. Len(q))
  BY <1>1, FS_Interval
<1>3. QED BY <1>1, <1>2, FS_Subset, FS_CardinalityType

\* When as many elements have it as there are, all have it.
LEMMA AllIndices ==
  ASSUME NEW S, NEW q \in Seq(S), NEW I \in SUBSET DOMAIN q, Cardinality(I) = Len(q)
  PROVE  I = DOMAIN q
<1>1. Len(q) \in Nat /\ DOMAIN q = 1 .. Len(q) /\ IsFiniteSet(DOMAIN q)
  BY Indices
<1>2. Cardinality(DOMAIN q) = Len(q)
  <2>1. Len(q) \in Int /\ 1 \in Int /\ DOMAIN q = 1 .. Len(q)
    BY <1>1
  <2>2. Cardinality(1 .. Len(q)) = IF 1 > Len(q) THEN 0 ELSE Len(q) - 1 + 1
    BY ONLY <2>1, FS_Interval
  <2>3. QED BY <1>1, <2>2
<1>3. QED BY <1>1, <1>2, FS_Subset

\* Pairs of a constant and an index are as many as the indices.
LEMMA Pairs ==
  ASSUME NEW I, IsFiniteSet(I), NEW P, NEW f, P \subseteq {<<f[i], i>> : i \in I}
  PROVE  IsFiniteSet(P) /\ Cardinality(P) <= Cardinality(I)
<1> DEFINE J == {<<f[i], i>> : i \in I}
<1> DEFINE g == [i \in I |-> <<f[i], i>>]
<1>1. g \in Surjection(I, J)
  BY DEF Surjection
<1>2. IsFiniteSet(J) /\ Cardinality(J) <= Cardinality(I)
  BY <1>1, FS_Surjection
<1>3. IsFiniteSet(P) /\ Cardinality(P) <= Cardinality(J)
  BY <1>2, FS_Subset
<1>4. Cardinality(P) \in Nat /\ Cardinality(J) \in Nat /\ Cardinality(I) \in Nat
  BY <1>2, <1>3, FS_CardinalityType
<1>5. QED BY <1>2, <1>3, <1>4

-----------------------------------------------------------------------------
(* simple_run.                                                              *)

\* When a status is stored, one job changes sides.
LEMMA StatusMoves ==
  ASSUME jobs \in Seq(0 .. 2), NEW i \in DOMAIN jobs, NEW s \in 0 .. 2,
         jobs' = [jobs EXCEPT ![i] = s]
  PROVE  /\ jobs' \in Seq(0 .. 2) /\ DOMAIN jobs' = DOMAIN jobs
         /\ \A r \in 0 .. 2 : Status(r)' = IF r = s THEN Status(r) \cup {i} ELSE Status(r) \ {i}
<1>1. Len(jobs) \in Nat /\ DOMAIN jobs = 1 .. Len(jobs)
  BY LenProperties
<1>2. jobs' \in Seq(0 .. 2)
  BY <1>1, ExceptSeq
<1>3. \A k \in DOMAIN jobs : jobs'[k] = IF k = i THEN s ELSE jobs[k]
  OBVIOUS
<1>4. QED BY <1>2, <1>3 DEF Status

LEMMA RunnerInit == Init => RunnerInv
<1> SUFFICES ASSUME Init PROVE RunnerInv
  OBVIOUS
<1>1. jobs = << >> /\ jobs \in Seq(0 .. 2)
  BY EmptySeq DEF Init
<1>2. \A s : Status(s) = {}
  BY <1>1 DEF Status
<1>3. Cardinality(Status(1)) = 0 /\ Cardinality(Status(2)) = 0
  BY <1>2, FS_EmptySet
<1>4. Counted
  BY <1>3 DEF Init, Counted
<1>5. QED BY <1>1, <1>2, <1>4 DEF Init, RunnerInv, OfThisBatch, Listed

\* The table holds statuses, and they count finitely many.
LEMMA StatusSets ==
  ASSUME jobs \in Seq(0 .. 2), NEW s
  PROVE  Status(s) \subseteq DOMAIN jobs /\ IsFiniteSet(Status(s)) /\ Cardinality(Status(s)) \in Nat
<1>1. Status(s) \subseteq DOMAIN jobs
  BY DEF Status
<1>2. QED BY <1>1, Indices

\* A new batch starts with no process alive and no lock file.
LEMMA RunnerSimpleRun ==
  ASSUME RunnerInv, SimpleRun PROVE RunnerInv'
<1>1. PICK k \in 1 .. MaxJobs : jobs' = [i \in 1 .. k |-> 0]
  BY DEF SimpleRun
<1>2. jobs' \in Seq(0 .. 2) /\ \A s \in {1, 2} : Status(s)' = {}
  BY <1>1 DEF Status
<1>3. /\ pc = "idle" /\ pc' = "start" /\ locks' = {}
      /\ UNCHANGED <<jobs_running, jobs_run, procs, ls, ended, gaveUp>>
  BY DEF SimpleRun
<1>4. ASSUME ~gaveUp PROVE Counted' /\ OfThisBatch' /\ Listed'
  <2>1. jobs = << >> /\ Counted /\ OfThisBatch /\ Listed
    BY <1>3, <1>4 DEF RunnerInv
  <2>2. Status(1) = {} /\ Status(2) = {}
    BY <2>1 DEF Status
  <2>3. Counted'
    BY <1>2, <1>3, <2>1, <2>2 DEF Counted
  <2>4. procs' = {} /\ ls' = {}
    BY <1>3, <2>1, <2>2 DEF OfThisBatch, Listed
  <2>5. QED BY <1>2, <1>3, <2>3, <2>4 DEF OfThisBatch, Listed
<1>5. QED BY <1>2, <1>3, <1>4 DEF RunnerInv

\* A process is started for a job that waits, when a cpu is free.
LEMMA RunnerProcessJobs ==
  ASSUME RunnerInv, ProcessJobs PROVE RunnerInv'
<1>1. /\ pc \in {"start", "launch"} /\ pc' \in {"start", "launch", "list", "check"}
      /\ UNCHANGED <<jobs_run, locks, ls, batch, ended, gaveUp>>
  BY DEF ProcessJobs
<1>2. CASE Runnable = {}
  <2>1. UNCHANGED <<jobs, jobs_running, procs>>
    BY <1>2 DEF ProcessJobs
  <2>2. QED BY <1>1, <2>1 DEF RunnerInv, Counted, OfThisBatch, Listed, Status
<1>3. CASE Runnable # {}
  <2>1. PICK i \in DOMAIN jobs : /\ jobs[i] = 0 /\ HasCpu
                                 /\ jobs' = [jobs EXCEPT ![i] = 1]
                                 /\ procs' = procs \cup {<<batch, i>>}
    BY <1>3 DEF ProcessJobs, Runnable
  <2>2. jobs_running' = jobs_running + 1
    BY <1>3 DEF ProcessJobs
  <2>3. /\ jobs' \in Seq(0 .. 2)
        /\ Status(1)' = Status(1) \cup {i} /\ Status(2)' = Status(2)
        /\ i \notin Status(1) /\ IsFiniteSet(Status(1)) /\ Cardinality(Status(1)) \in Nat
    <3>1. jobs \in Seq(0 .. 2) /\ i \notin Status(1) /\ i \notin Status(2)
      BY <2>1 DEF RunnerInv, Status
    <3>2. /\ jobs' \in Seq(0 .. 2)
          /\ Status(1)' = Status(1) \cup {i} /\ Status(2)' = Status(2) \ {i}
      <4>1. 1 \in 0 .. 2 /\ 2 \in 0 .. 2 /\ 1 # 2
        OBVIOUS
      <4>2. /\ jobs' \in Seq(0 .. 2) /\ DOMAIN jobs' = DOMAIN jobs
            /\ \A r \in 0 .. 2 : Status(r)' = IF r = 1 THEN Status(r) \cup {i} ELSE Status(r) \ {i}
        BY ONLY <2>1, <3>1, <4>1, StatusMoves
      <4>3. QED BY ONLY <4>1, <4>2
    <3>3. QED BY <3>1, <3>2, StatusSets
  <2>4. ASSUME ~gaveUp PROVE Counted' /\ OfThisBatch' /\ Listed'
    <3>1. Counted /\ OfThisBatch /\ Listed
      BY <2>4 DEF RunnerInv
    <3>2. Cardinality(Status(1) \cup {i}) = Cardinality(Status(1)) + 1
      BY <2>3, FS_AddElement
    <3>3. Counted'
      <4>1. Cardinality(Status(1)') = jobs_running + 1 /\ Cardinality(Status(2)') = jobs_run
        BY <2>3, <3>1, <3>2 DEF Counted
      <4>2. jobs_running' <= Cpus
        BY <2>1, <2>2, <2>3, <3>1 DEF Counted, HasCpu
      <4>3. QED BY <1>1, <2>2, <4>1, <4>2 DEF Counted
    <3>4. OfThisBatch'
      BY <1>1, <2>1, <2>3, <3>1 DEF OfThisBatch
    <3>5. QED BY <1>1, <3>1, <3>3, <3>4 DEF Listed
  <2>5. QED BY <1>1, <2>3, <2>4 DEF RunnerInv
<1>4. QED BY <1>2, <1>3

\* A lock file that is found belongs to a job of this batch that runs no more.
LEMMA RunnerJobFinished ==
  ASSUME RunnerInv, JobFinished PROVE RunnerInv'
<1>1. PICK i \in ls :
        /\ ls' = ls \ {i} /\ locks' = locks \ {i}
        /\ IF i \in DOMAIN jobs /\ jobs[i] = 1
           THEN /\ jobs' = [jobs EXCEPT ![i] = 2]
                /\ jobs_run' = jobs_run + 1 /\ jobs_running' = jobs_running - 1
                /\ UNCHANGED pc
           ELSE pc' = "raised" /\ UNCHANGED <<jobs, jobs_run, jobs_running>>
  BY DEF JobFinished, JobOf, Uncounted
<1>2. pc = "handle" /\ UNCHANGED <<procs, batch, ended, gaveUp>>
  BY DEF JobFinished
<1>3. CASE gaveUp
  <2>1. jobs' \in Seq(0 .. 2)
    BY <1>1, StatusMoves DEF RunnerInv
  <2>2. QED BY <1>2, <1>3, <2>1 DEF RunnerInv
<1>4. CASE ~gaveUp
  <2>1. Counted /\ OfThisBatch /\ Listed /\ jobs \in Seq(0 .. 2)
    BY <1>4 DEF RunnerInv
  <2>2. i \in Status(1) /\ <<batch, i>> \in ended \ procs
    BY <2>1 DEF OfThisBatch, Listed
  <2>3. i \in DOMAIN jobs /\ jobs[i] = 1 /\ i \notin Status(2)
    BY <2>2 DEF Status
  <2>4. /\ jobs' \in Seq(0 .. 2)
        /\ Status(1)' = Status(1) \ {i} /\ Status(2)' = Status(2) \cup {i}
    BY <1>1, <2>1, <2>3, StatusMoves
  <2>5. /\ IsFiniteSet(Status(1)) /\ IsFiniteSet(Status(2))
        /\ Cardinality(Status(1)) \in Nat /\ Cardinality(Status(2)) \in Nat
    BY <2>1, StatusSets
  <2>6. /\ Cardinality(Status(1) \ {i}) = Cardinality(Status(1)) - 1
        /\ Cardinality(Status(2) \cup {i}) = Cardinality(Status(2)) + 1
    BY <2>2, <2>3, <2>5, FS_AddElement, FS_RemoveElement
  <2>7. Counted'
    <3>1. /\ Cardinality(Status(1)') = jobs_running - 1
          /\ Cardinality(Status(2)') = jobs_run + 1
      BY <2>1, <2>4, <2>6 DEF Counted
    <3>2. jobs_running' = jobs_running - 1 /\ jobs_run' = jobs_run + 1
      BY <1>1, <2>3
    <3>3. jobs_running' <= Cpus
      BY <2>1, <2>5, <3>2 DEF Counted
    <3>4. QED BY <3>1, <3>2, <3>3 DEF Counted
  <2>8. OfThisBatch'
    BY <1>1, <1>2, <2>1, <2>2, <2>4 DEF OfThisBatch
  <2>9. Listed' /\ pc' = "handle"
    BY <1>1, <1>2, <2>1, <2>3 DEF Listed
  <2>10. QED BY <1>2, <2>4, <2>7, <2>8, <2>9 DEF RunnerInv
<1>5. QED BY <1>3, <1>4

\* When as many jobs have finished as there are, no process is alive; when the batch
\* is given up, nothing is said of what follows.
LEMMA RunnerReturn ==
  ASSUME RunnerInv, AllRun \/ GiveUp PROVE RunnerInv'
<1>1. /\ locks' = {} /\ pc' = "idle" /\ jobs' = << >> /\ jobs_running' = 0 /\ jobs_run' = 0
      /\ UNCHANGED <<procs, ls, batch, ended>> /\ pc = "check"
  BY DEF AllRun, GiveUp, Return
<1>2. jobs' \in Seq(0 .. 2) /\ gaveUp' \in BOOLEAN /\ \A s : Status(s)' = {}
  <2>1. jobs' \in Seq(0 .. 2) /\ DOMAIN jobs' = {}
    BY <1>1, EmptySeq
  <2>2. gaveUp' \in BOOLEAN
    BY DEF AllRun, GiveUp, RunnerInv
  <2>3. QED BY <2>1, <2>2 DEF Status
<1>3. ASSUME ~gaveUp' PROVE Counted' /\ OfThisBatch' /\ Listed'
  <2>1. ~gaveUp /\ jobs_run = Len(jobs)
    BY <1>3 DEF AllRun, GiveUp
  <2>2. Counted /\ OfThisBatch /\ Listed /\ jobs \in Seq(0 .. 2)
    BY <2>1 DEF RunnerInv
  <2>3. Status(2) = DOMAIN jobs
    <3>1. Status(2) \subseteq DOMAIN jobs /\ Cardinality(Status(2)) = Len(jobs)
      BY <2>1, <2>2 DEF Status, Counted
    <3>2. QED BY <2>2, <3>1, AllIndices
  <2>4. Status(1) = {}
    BY <2>3 DEF Status
  <2>5. procs' = {} /\ ls' = {}
    BY <1>1, <2>2, <2>4 DEF OfThisBatch, Listed
  <2>6. Counted'
    <3>1. Cardinality(Status(1)') = 0 /\ Cardinality(Status(2)') = 0
      BY <1>2, FS_EmptySet
    <3>2. QED BY <1>1, <3>1 DEF Counted
  <2>7. QED BY <1>1, <1>2, <2>5, <2>6 DEF OfThisBatch, Listed
<1>4. QED BY <1>1, <1>2, <1>3 DEF RunnerInv

\* Every step of simple_run and of its processes keeps the invariant.
LEMMA RunnerNextInv ==
  ASSUME RunnerInv, Next PROVE RunnerInv'
<1>1. CASE SimpleRun \/ ProcessJobs \/ JobFinished \/ AllRun \/ GiveUp
  BY <1>1, RunnerSimpleRun, RunnerProcessJobs, RunnerJobFinished, RunnerReturn
<1>2. CASE ListDir
  BY <1>2 DEF ListDir, RunnerInv, Counted, OfThisBatch, Listed, Status
<1>3. CASE AllHandled
  BY <1>3 DEF AllHandled, RunnerInv, Counted, OfThisBatch, Listed, Status
<1>4. CASE NextRound
  BY <1>4 DEF NextRound, RunnerInv, Counted, OfThisBatch, Listed, Status
<1>5. ASSUME NEW p \in procs, ProcessEnds(p) PROVE RunnerInv'
  <2>1. /\ procs' = procs \ {p} /\ ended' = ended \cup {p} /\ locks' = locks \cup {p[2]}
        /\ UNCHANGED <<jobs, jobs_running, jobs_run, pc, ls, batch, gaveUp>>
    BY <1>5 DEF ProcessEnds
  <2>2. ASSUME ~gaveUp PROVE p[2] \in Status(1) /\ p = <<batch, p[2]>>
    BY <2>2 DEF RunnerInv, OfThisBatch
  <2>3. \A s : Status(s)' = Status(s)
    BY <2>1 DEF Status
  <2>4. ASSUME ~gaveUp PROVE OfThisBatch'
    BY <2>1, <2>2, <2>3, <2>4 DEF RunnerInv, OfThisBatch
  <2>5. QED BY <2>1, <2>3, <2>4 DEF RunnerInv, Counted, Listed
<1>6. ASSUME NEW p \in procs, ProcessKilled(p) PROVE RunnerInv'
  BY <1>6 DEF ProcessKilled, RunnerInv, Counted, OfThisBatch, Listed, Status
<1>7. CASE Done
  BY <1>7 DEF Done, vars, RunnerInv, Counted, OfThisBatch, Listed, Status
<1>8. QED BY <1>1, <1>2, <1>3, <1>4, <1>5, <1>6, <1>7 DEF Next, Server

\* The properties of simple_run follow.
LEMMA RunnerSafe ==
  ASSUME RunnerInv PROVE CpuBound /\ FinishedHasEnded /\ RaisesOnlyLate
<1>1. ASSUME ~gaveUp PROVE Cardinality(procs) <= Cpus
  <2>1. Counted /\ procs \subseteq {batch} \X Status(1) /\ jobs \in Seq(0 .. 2)
    BY <1>1 DEF RunnerInv, OfThisBatch
  <2> DEFINE f == [i \in Status(1) |-> batch]
  <2>2. procs \subseteq {<<f[i], i>> : i \in Status(1)}
    BY <2>1
  <2>3. IsFiniteSet(Status(1)) /\ Cardinality(Status(1)) \in Nat
    BY <2>1, StatusSets
  <2> HIDE DEF f
  <2>4. IsFiniteSet(procs) /\ Cardinality(procs) <= Cardinality(Status(1))
    BY <2>2, <2>3, Pairs
  <2>5. QED BY <2>1, <2>3, <2>4, FS_CardinalityType DEF Counted
<1>2. QED BY <1>1 DEF RunnerInv, OfThisBatch, CpuBound, FinishedHasEnded, RaisesOnlyLate
-----------------------------------------------------------------------------
(* The main window's server.                                                *)

Job == [status : 0 .. 2, id : Nat]

\* The two modules count with the same operator.
LEMMA SameCardinality == \A S : Window!Cardinality(S) = Cardinality(S)
BY DEF Window!Cardinality, Cardinality, Window!IsFiniteSet, IsFiniteSet

\* The table holds statuses, and they count finitely many.
LEMMA WithSets ==
  ASSUME jobs \in Seq(Job), NEW s
  PROVE  /\ Window!With(s) \subseteq DOMAIN jobs /\ IsFiniteSet(Window!With(s))
         /\ Cardinality(Window!With(s)) \in Nat
<1>1. Window!With(s) \subseteq DOMAIN jobs
  BY DEF Window!With
<1>2. QED BY <1>1, Indices

\* When a status is stored, one job changes sides and none its number.
LEMMA WithMoves ==
  ASSUME jobs \in Seq(Job), NEW i \in DOMAIN jobs, NEW s \in 0 .. 2,
         jobs' = [jobs EXCEPT ![i].status = s]
  PROVE  /\ jobs' \in Seq(Job) /\ DOMAIN jobs' = DOMAIN jobs
         /\ \A k \in DOMAIN jobs : jobs'[k].id = jobs[k].id
         /\ \A k \in DOMAIN jobs : k # i => jobs'[k] = jobs[k]
         /\ jobs'[i].status = s
         /\ \A r \in 0 .. 2 : Window!With(r)' = IF r = s THEN Window!With(r) \cup {i} ELSE Window!With(r) \ {i}
<1>1. Len(jobs) \in Nat /\ DOMAIN jobs = 1 .. Len(jobs) /\ jobs[i] \in Job
  BY LenProperties, ElementOfSeq
<1>2. PICK e : e = [jobs[i] EXCEPT !.status = s]
  OBVIOUS
<1>3. e \in Job /\ e.status = s /\ e.id = jobs[i].id
  BY ONLY <1>1, <1>2, s \in 0 .. 2 DEF Job
<1>4. jobs' = [jobs EXCEPT ![i] = e]
  BY <1>2
<1>5. jobs' \in Seq(Job)
  BY ONLY <1>1, <1>3, <1>4, jobs \in Seq(Job), ExceptSeq
<1>6. DOMAIN jobs' = DOMAIN jobs /\ \A k \in DOMAIN jobs : jobs'[k] = IF k = i THEN e ELSE jobs[k]
  BY ONLY <1>4
<1>7. \A r \in 0 .. 2 : Window!With(r)' = IF r = s THEN Window!With(r) \cup {i} ELSE Window!With(r) \ {i}
  BY ONLY <1>3, <1>6, i \in DOMAIN jobs DEF Window!With
<1>8. QED BY ONLY <1>3, <1>5, <1>6, <1>7, i \in DOMAIN jobs

LEMMA WindowInit == Window!Init => Window!WindowInv
<1> SUFFICES ASSUME Window!Init PROVE Window!WindowInv
  OBVIOUS
<1>1. jobs = << >> /\ jobs \in Seq(Job) /\ DOMAIN jobs = {}
  BY EmptySeq DEF Window!Init
<1>2. Window!With(1) = {} /\ Window!With(2) = {}
  BY <1>1 DEF Window!With
<1>3. Window!Counted
  <2>1. Cardinality(Window!With(1)) = 0 /\ Cardinality(Window!With(2)) = 0
    BY <1>2, FS_EmptySet
  <2>2. QED BY <2>1, SameCardinality DEF Window!Counted, Window!Init
<1>4. Window!InTable
  BY <1>1, <1>2 DEF Window!InTable, Window!Init
<1>5. QED BY <1>1, <1>3, <1>4 DEF Window!WindowInv, Window!Init, Job

\* New jobs wait, with numbers of their own.
LEMMA NewJobs ==
  ASSUME added \in Nat, NEW k \in 1 .. MaxJobs
  PROVE  /\ Window!New(k) \in Seq(Job) /\ Len(Window!New(k)) = k
         /\ DOMAIN Window!New(k) = 1 .. k
         /\ \A i \in 1 .. k : Window!New(k)[i].status = 0
<1>1. k \in Nat /\ \A i \in 1 .. k : [status |-> 0, id |-> added + i] \in Job
  BY DEF Job
<1>2. Window!New(k) = [i \in 1 .. k |-> [status |-> 0, id |-> added + i]]
  BY DEF Window!New
<1>3. Window!New(k) \in Seq(Job)
  <2>1. Window!New(k) \in [1 .. k -> Job]
    BY <1>1, <1>2
  <2>2. QED BY ONLY <1>1, <2>1, SeqDef
<1>4. DOMAIN Window!New(k) = 1 .. k /\ \A i \in 1 .. k : Window!New(k)[i].status = 0
  BY <1>2
<1>5. Len(Window!New(k)) = k
  <2>1. Len(Window!New(k)) \in Nat /\ DOMAIN Window!New(k) = 1 .. Len(Window!New(k))
    BY <1>3, LenProperties
  <2>2. QED BY ONLY <1>1, <1>4, <2>1
<1>6. QED BY <1>3, <1>4, <1>5

\* Clearing the table is a mix-up, or there was no process at work to be forgotten.
LEMMA WindowSimulate ==
  ASSUME Window!WindowInv, Window!Simulate PROVE Window!WindowInv'
<1>1. /\ finished_jobs' = {} /\ timer' = TRUE /\ added' = added + 1
      /\ jobs' = Window!New(1) /\ jobs_running' = 0 /\ jobs_run' = 0
      /\ mixed' = (mixed \/ procs \ told # {} \/ signals # {})
      /\ UNCHANGED <<procs, signals, told, raised, lost>>
  BY DEF Window!Simulate, Window!Start
<1>2. PICK k \in Nat : k = 1
  OBVIOUS
<1>3. added \in Nat /\ jobs' = [i \in 1 .. k |-> [status |-> 0, id |-> added + i]]
  BY <1>1, <1>2 DEF Window!WindowInv, Window!New
<1>4. \A i \in 1 .. k : [status |-> 0, id |-> added + i] \in Job
  BY <1>3 DEF Job
<1>5. jobs' \in Seq(Job)
  <2>1. jobs' \in [1 .. k -> Job]
    BY <1>3, <1>4
  <2>2. QED BY ONLY <2>1, k \in Nat, SeqDef
<1>6. Window!With(1)' = {} /\ Window!With(2)' = {}
  BY <1>3 DEF Window!With
<1>7. ASSUME ~mixed' PROVE ~raised' /\ Window!Counted' /\ Window!InTable'
  <2>1. ~mixed /\ procs \ told = {} /\ signals = {}
    BY <1>1, <1>7
  <2>2. Cardinality(Window!With(1)') = 0 /\ Cardinality(Window!With(2)') = 0
    BY <1>6, FS_EmptySet
  <2>3. Window!Counted'
    BY <1>1, <2>2, SameCardinality DEF Window!Counted
  <2>4. Window!InTable'
    BY <1>1, <1>6, <2>1 DEF Window!InTable
  <2>5. QED BY <1>1, <2>1, <2>3, <2>4 DEF Window!WindowInv
<1>8. added' \in Nat /\ mixed' \in BOOLEAN
  BY <1>1, <1>3 DEF Window!WindowInv
<1>9. QED BY <1>1, <1>5, <1>7, <1>8 DEF Window!WindowInv, Job

\* Jobs added at the end leave those of the table their indices.
LEMMA WindowSubmit ==
  ASSUME Window!WindowInv, NEW k \in 1 .. MaxJobs, Window!Submit(k)
  PROVE  Window!WindowInv'
<1>1. /\ finished_jobs' = {} /\ timer' = TRUE /\ added' = added + k
      /\ jobs' = jobs \o Window!New(k)
      /\ UNCHANGED <<jobs_running, jobs_run, procs, signals, told, mixed, raised, lost>>
  BY DEF Window!Submit, Window!Start, Window!history
<1>2. jobs \in Seq(Job) /\ added \in Nat /\ mixed \in BOOLEAN
  BY DEF Window!WindowInv, Job
<1>3. /\ Window!New(k) \in Seq(Job) /\ Len(Window!New(k)) = k
      /\ \A i \in 1 .. k : Window!New(k)[i].status = 0
  BY <1>2, NewJobs
<1>4. jobs' \in Seq(Job) /\ Len(jobs') = Len(jobs) + k
      /\ \A i \in 1 .. Len(jobs') :
           jobs'[i] = IF i <= Len(jobs) THEN jobs[i] ELSE Window!New(k)[i - Len(jobs)]
  BY <1>1, <1>2, <1>3, ConcatProperties
<1>5. Len(jobs) \in Nat /\ k \in Nat /\ DOMAIN jobs = 1 .. Len(jobs) /\ DOMAIN jobs' = 1 .. Len(jobs')
  BY <1>2, <1>4, LenProperties
<1>6. /\ \A i \in DOMAIN jobs : i \in DOMAIN jobs' /\ jobs'[i] = jobs[i]
      /\ \A i \in DOMAIN jobs' \ DOMAIN jobs : jobs'[i].status = 0
  <2>1. ASSUME NEW i \in DOMAIN jobs' \ DOMAIN jobs PROVE jobs'[i].status = 0
    <3>1. i - Len(jobs) \in 1 .. k /\ ~(i <= Len(jobs))
      BY <1>4, <1>5
    <3>2. QED BY <1>3, <1>4, <1>5, <3>1
  <2>2. QED BY <1>4, <1>5, <2>1
<1>7. Window!With(1)' = Window!With(1) /\ Window!With(2)' = Window!With(2)
  BY <1>6 DEF Window!With
<1>8. ASSUME ~mixed PROVE Window!Counted' /\ Window!InTable'
  <2>1. Window!Counted /\ Window!InTable
    BY <1>8 DEF Window!WindowInv
  <2>2. Window!Counted'
    BY <1>1, <1>7, <2>1 DEF Window!Counted
  <2>3. \A i \in Window!With(1) \cup Window!With(2) : jobs'[i] = jobs[i]
    BY <1>6 DEF Window!With
  <2>4. Window!InTable'
    BY <1>1, <1>7, <2>1, <2>3 DEF Window!InTable
  <2>5. QED BY <2>2, <2>4
<1>9. added' \in Nat
  BY <1>1, <1>2, <1>5
<1>10. QED BY <1>1, <1>2, <1>4, <1>8, <1>9 DEF Window!WindowInv, Job

\* A process is started when a cpu is free.
LEMMA WindowTick ==
  ASSUME Window!WindowInv, Window!Tick PROVE Window!WindowInv'
<1>1. PICK i \in DOMAIN jobs : /\ jobs[i].status = 0
                               /\ jobs' = [jobs EXCEPT ![i].status = 1]
                               /\ procs' = procs \cup {<<jobs[i].id, i>>}
  BY DEF Window!Tick, Window!Waiting
<1>2. /\ timer /\ jobs_running < Cpus /\ jobs_running' = jobs_running + 1
      /\ UNCHANGED <<jobs_run, finished_jobs, timer, signals, added, told, mixed, raised, lost>>
  BY DEF Window!Tick, Window!history
<1>3. jobs \in Seq(Job) /\ added \in Nat /\ mixed \in BOOLEAN
  BY DEF Window!WindowInv, Job
<1>4. 1 \in 0 .. 2 /\ 2 \in 0 .. 2 /\ 1 # 2
  OBVIOUS
<1>5. /\ jobs' \in Seq(Job) /\ DOMAIN jobs' = DOMAIN jobs
      /\ \A k \in DOMAIN jobs : jobs'[k].id = jobs[k].id
      /\ \A k \in DOMAIN jobs : k # i => jobs'[k] = jobs[k]
      /\ jobs'[i].status = 1
      /\ \A r \in 0 .. 2 : Window!With(r)' = IF r = 1 THEN Window!With(r) \cup {i} ELSE Window!With(r) \ {i}
  BY ONLY <1>1, <1>3, <1>4, WithMoves
<1>6. i \notin Window!With(1) /\ i \notin Window!With(2)
  BY <1>1 DEF Window!With
<1>7. Window!With(1)' = Window!With(1) \cup {i} /\ Window!With(2)' = Window!With(2)
  <2>1. \A k \in DOMAIN jobs : jobs'[k].status = IF k = i THEN 1 ELSE jobs[k].status
    BY ONLY <1>5
  <2>2. QED BY ONLY <1>1, <1>5, <2>1 DEF Window!With
<1>8. ASSUME ~mixed PROVE Window!Counted' /\ Window!InTable'
  <2>1. Window!Counted /\ Window!InTable
    BY <1>8 DEF Window!WindowInv
  <2>2. IsFiniteSet(Window!With(1)) /\ Cardinality(Window!With(1)) \in Nat
    BY <1>3, WithSets
  <2>3. Cardinality(Window!With(1)') = Cardinality(Window!With(1)) + 1
    BY <1>6, <1>7, <2>2, FS_AddElement
  <2>4. Window!Counted'
    BY <1>2, <1>7, <2>1, <2>2, <2>3, SameCardinality DEF Window!Counted
  <2>5. \A p \in (procs' \ told') \cup signals' :
          p[2] \in Window!With(1)' /\ p = <<jobs'[p[2]].id, p[2]>>
    <3>1. ASSUME NEW p \in (procs \ told) \cup signals
          PROVE p[2] \in Window!With(1)' /\ p = <<jobs'[p[2]].id, p[2]>>
      <4>1. p[2] \in Window!With(1) /\ p = <<jobs[p[2]].id, p[2]>>
        BY <2>1 DEF Window!InTable
      <4>2. p[2] \in DOMAIN jobs
        BY <4>1 DEF Window!With
      <4>3. QED BY <1>5, <1>7, <4>1, <4>2
    <3>2. <<jobs[i].id, i>>[2] = i
      OBVIOUS
    <3>3. QED BY <1>1, <1>2, <1>5, <1>7, <3>1, <3>2
  <2>6. \A k \in Window!With(2)' : <<jobs'[k].id, k>> \in told'
    <3>1. \A k \in Window!With(2) : k \in DOMAIN jobs /\ <<jobs[k].id, k>> \in told
      BY <2>1 DEF Window!InTable, Window!With
    <3>2. QED BY <1>2, <1>5, <1>7, <3>1
  <2>7. \A k \in DOMAIN jobs' : k \in finished_jobs' => jobs'[k].status = 2
    <3>1. \A k \in DOMAIN jobs : k \in finished_jobs => jobs[k].status = 2
      BY <2>1 DEF Window!InTable
    <3>2. QED BY <1>1, <1>2, <1>5, <3>1
  <2>8. Window!InTable'
    BY <1>2, <2>1, <2>5, <2>6, <2>7 DEF Window!InTable
  <2>9. QED BY <2>4, <2>8
<1>9. QED BY <1>2, <1>3, <1>5, <1>8 DEF Window!WindowInv, Job
\* While nothing is mixed up, a signal that is heard is of a running job, which becomes
\* finished; when it is the last one, nobody else works or waits to be heard.
LEMMA WindowHear ==
  ASSUME Window!WindowInv, NEW p, Window!Hear(p) PROVE Window!WindowInv'
<1> DEFINE i == p[2]
<1>1. /\ p \in signals /\ signals' = signals \ {p}
      /\ UNCHANGED <<procs, added, told, mixed, lost>>
  BY DEF Window!Hear
<1>2. jobs \in Seq(Job) /\ added \in Nat /\ mixed \in BOOLEAN
  BY DEF Window!WindowInv, Job
<1>3. 0 \in 0 .. 2 /\ 1 \in 0 .. 2 /\ 2 \in 0 .. 2 /\ 1 # 2
  OBVIOUS
<1>4. CASE Window!Stop
  <2>1. timer' = FALSE /\ jobs' = << >> /\ jobs_running' = 0 /\ jobs_run' = 0
    BY <1>4 DEF Window!Stop
  <2>2. jobs' \in Seq(Job) /\ DOMAIN jobs' = {}
    BY <2>1, EmptySeq
  <2>3. ASSUME ~mixed PROVE ~raised' /\ Window!Counted' /\ Window!InTable'
    <3>1. Window!Counted /\ Window!InTable /\ ~raised
      BY <2>3 DEF Window!WindowInv
    <3>2. i \in Window!With(1) /\ i \in DOMAIN jobs /\ jobs[i].status = 1 /\ i \notin finished_jobs
      BY <1>1, <1>3, <3>1 DEF Window!InTable, Window!With
    <3>3. jobs_run + 1 = Len(jobs) /\ raised' = raised
      <4>1. jobs # << >>
        BY <3>2
      <4>2. CASE jobs_run + 1 = Len(jobs)
        BY <3>2, <4>1, <4>2 DEF Window!Hear
      <4>3. CASE jobs_run + 1 # Len(jobs)
        <5>1. jobs' = [jobs EXCEPT ![i].status = 2]
          BY <3>2, <4>1, <4>3 DEF Window!Hear, Window!Finished
        <5>2. QED BY <2>2, <3>2, <5>1
      <4>4. QED BY <4>2, <4>3
    <3>4. Window!With(2) \cup {i} = DOMAIN jobs
      <4>1. /\ IsFiniteSet(Window!With(2)) /\ Cardinality(Window!With(2)) = jobs_run
            /\ Cardinality(Window!With(2)) \in Nat
        BY <1>2, <3>1, WithSets, SameCardinality DEF Window!Counted
      <4>2. i \notin Window!With(2)
        BY <3>2 DEF Window!With
      <4>3. Cardinality(Window!With(2) \cup {i}) = jobs_run + 1
        BY <4>1, <4>2, FS_AddElement
      <4>4. Window!With(2) \cup {i} \subseteq DOMAIN jobs
        BY <3>2 DEF Window!With
      <4>5. QED BY <1>2, <3>3, <4>3, <4>4, AllIndices
    <3>5. Window!With(1) = {i}
      <4>1. ASSUME NEW k \in Window!With(1), k # i PROVE FALSE
        <5>1. k \in DOMAIN jobs /\ jobs[k].status = 1
          BY <4>1 DEF Window!With
        <5>2. k \in Window!With(2)
          BY <3>4, <4>1, <5>1
        <5>3. QED BY <5>1, <5>2 DEF Window!With
      <4>2. QED BY <3>2, <4>1
    <3>6. \A q \in (procs \ told) \cup signals : q = <<jobs[i].id, i>>
      BY <3>1, <3>5 DEF Window!InTable
    <3>7. procs' \ told' = {} /\ signals' = {}
      BY <1>1, <3>1, <3>6 DEF Window!InTable
    <3>8. Window!With(1)' = {} /\ Window!With(2)' = {}
      BY <2>2 DEF Window!With
    <3>9. Window!Counted'
      <4>1. Cardinality(Window!With(1)') = 0 /\ Cardinality(Window!With(2)') = 0
        BY <3>8, FS_EmptySet
      <4>2. QED BY <2>1, <4>1, SameCardinality DEF Window!Counted
    <3>10. Window!InTable'
      BY <2>2, <3>7, <3>8 DEF Window!InTable
    <3>11. QED BY <3>1, <3>3, <3>9, <3>10
  <2>4. QED BY <1>1, <1>2, <2>1, <2>2, <2>3 DEF Window!WindowInv, Job
<1>5. CASE /\ i \in DOMAIN jobs /\ jobs[i].status = 1 /\ jobs_run + 1 # Len(jobs)
           /\ i \notin finished_jobs /\ Window!Finished(i) /\ UNCHANGED raised
  <2>1. /\ finished_jobs' = finished_jobs \cup {i} /\ jobs' = [jobs EXCEPT ![i].status = 2]
        /\ jobs_run' = jobs_run + 1 /\ jobs_running' = jobs_running - 1
        /\ UNCHANGED timer
    BY <1>5 DEF Window!Finished
  <2>2. i \in DOMAIN jobs /\ jobs[i].status = 1
    BY <1>5
  <2>3. /\ jobs' \in Seq(Job) /\ DOMAIN jobs' = DOMAIN jobs
        /\ \A k \in DOMAIN jobs : jobs'[k].id = jobs[k].id
        /\ \A k \in DOMAIN jobs : k # i => jobs'[k] = jobs[k]
        /\ jobs'[i].status = 2
    BY ONLY <1>2, <1>3, <2>1, <2>2, WithMoves
  <2>4. i \in Window!With(1) /\ i \notin Window!With(2)
    BY <2>2 DEF Window!With
  <2>5. /\ Window!With(1)' = Window!With(1) \ {i} /\ Window!With(2)' = Window!With(2) \cup {i}
    <3>1. \A k \in DOMAIN jobs : jobs'[k].status = IF k = i THEN 2 ELSE jobs[k].status
      BY ONLY <2>2, <2>3
    <3>2. QED BY ONLY <1>3, <2>2, <2>3, <3>1 DEF Window!With
  <2>6. ASSUME ~mixed PROVE Window!Counted' /\ Window!InTable'
    <3>1. Window!Counted /\ Window!InTable
      BY <2>6 DEF Window!WindowInv
    <3>2. /\ IsFiniteSet(Window!With(1)) /\ Cardinality(Window!With(1)) \in Nat
          /\ IsFiniteSet(Window!With(2)) /\ Cardinality(Window!With(2)) \in Nat
      BY <1>2, WithSets
    <3>3. /\ Cardinality(Window!With(1)') = Cardinality(Window!With(1)) - 1
          /\ Cardinality(Window!With(2)') = Cardinality(Window!With(2)) + 1
      <4>1. Cardinality(Window!With(1) \ {i}) = Cardinality(Window!With(1)) - 1
        BY ONLY <2>4, <3>2, FS_RemoveElement
      <4>2. Cardinality(Window!With(2) \cup {i}) = Cardinality(Window!With(2)) + 1
        BY ONLY <2>4, <3>2, FS_AddElement
      <4>3. QED BY ONLY <2>5, <4>1, <4>2
    <3>4. Window!Counted'
      <4>1. jobs_running = Cardinality(Window!With(1)) /\ jobs_running <= Cpus
            /\ jobs_run = Cardinality(Window!With(2))
        BY <3>1, SameCardinality DEF Window!Counted
      <4>2. jobs_running' = Cardinality(Window!With(1)') /\ jobs_running' <= Cpus
            /\ jobs_run' = Cardinality(Window!With(2)')
        BY <2>1, <3>2, <3>3, <4>1
      <4>3. QED BY <4>2, SameCardinality DEF Window!Counted
    <3>5. p = <<jobs[i].id, i>> /\ p \in told
      BY <1>1, <3>1 DEF Window!InTable
    <3>6. \A q \in (procs' \ told') \cup signals' :
            q[2] \in Window!With(1)' /\ q = <<jobs'[q[2]].id, q[2]>>
      <4>1. ASSUME NEW q \in (procs \ told) \cup signals, q # p
            PROVE q[2] \in Window!With(1)' /\ q = <<jobs'[q[2]].id, q[2]>>
        <5>1. q[2] \in Window!With(1) /\ q = <<jobs[q[2]].id, q[2]>>
          BY <3>1, <4>1 DEF Window!InTable
        <5>2. q[2] # i
          BY <3>5, <4>1, <5>1
        <5>3. q[2] \in DOMAIN jobs
          BY <5>1 DEF Window!With
        <5>4. QED BY <2>3, <2>5, <5>1, <5>2, <5>3
      <4>2. QED BY <1>1, <3>5, <4>1
    <3>7. \A k \in Window!With(2)' : <<jobs'[k].id, k>> \in told'
      <4>1. \A k \in Window!With(2) : k \in DOMAIN jobs /\ <<jobs[k].id, k>> \in told
        BY <3>1 DEF Window!InTable, Window!With
      <4>2. QED BY <1>1, <2>2, <2>3, <2>5, <3>5, <4>1
    <3>8. \A k \in DOMAIN jobs' : k \in finished_jobs' => jobs'[k].status = 2
      <4>1. \A k \in DOMAIN jobs : k \in finished_jobs => jobs[k].status = 2
        BY <3>1 DEF Window!InTable
      <4>2. QED BY <2>1, <2>3, <4>1
    <3>9. signals' \subseteq told'
      BY <1>1, <3>1 DEF Window!InTable
    <3>10. Window!InTable'
      BY <3>6, <3>7, <3>8, <3>9 DEF Window!InTable
    <3>11. QED BY <3>4, <3>10
  <2>7. timer \/ jobs = << >> => timer' \/ jobs' = << >>
    BY <2>1, <2>2
  <2>8. QED BY <1>1, <1>2, <1>5, <2>2, <2>1, <2>3, <2>6 DEF Window!WindowInv, Job
<1>6. CASE UNCHANGED <<jobs, jobs_running, jobs_run, finished_jobs, timer>>
  <2>1. ASSUME ~mixed PROVE UNCHANGED raised /\ Window!InTable' /\ Window!Counted'
    <3>1. Window!InTable /\ Window!Counted
      BY <2>1 DEF Window!WindowInv
    <3>2. i \in DOMAIN jobs /\ jobs[i].status = 1
      BY <1>1, <3>1 DEF Window!InTable, Window!With
    <3>3. UNCHANGED raised
      BY <3>2, <2>1, <1>3 DEF Window!Hear, Window!WindowInv, Window!InTable
    <3>4. Window!With(1)' = Window!With(1) /\ Window!With(2)' = Window!With(2)
      BY <1>6 DEF Window!With
    <3>5. Window!InTable'
      BY <1>1, <1>6, <3>1, <3>4 DEF Window!InTable
    <3>6. QED BY <1>6, <3>1, <3>3, <3>4, <3>5 DEF Window!Counted
  <2>2. QED BY <1>1, <1>2, <1>6, <2>1 DEF Window!WindowInv, Job
<1>7. QED BY <1>4, <1>5, <1>6 DEF Window!Hear, Window!Finished, Window!table

\* A process says that it has finished, once, before it ends.
LEMMA WindowProcess ==
  ASSUME Window!WindowInv, NEW p, Window!Report(p) \/ Window!Exit(p) PROVE Window!WindowInv'
<1>1. /\ UNCHANGED <<jobs, jobs_running, jobs_run, finished_jobs, timer, added, mixed, raised>>
      /\ \/ UNCHANGED procs /\ p \in procs \ told /\ told' = told \cup {p} /\ signals' = signals \cup {p}
         \/ procs' = procs \ {p} /\ UNCHANGED <<signals, told>>
  BY DEF Window!Report, Window!Exit, Window!table
<1>2. Window!With(1)' = Window!With(1) /\ Window!With(2)' = Window!With(2)
  BY <1>1 DEF Window!With
<1>3. Window!InTable => Window!InTable'
  BY <1>1, <1>2 DEF Window!InTable
<1>4. QED BY <1>1, <1>2, <1>3 DEF Window!WindowInv, Window!Counted

\* Every step of the main window's server and of its processes keeps the invariant.
LEMMA WindowNextInv ==
  ASSUME Window!WindowInv, Window!Next PROVE Window!WindowInv'
<1>1. CASE Window!Killall
  <2>1. UNCHANGED <<jobs, jobs_running, jobs_run, finished_jobs, timer, procs, signals, added,
                    told, mixed, raised>>
    BY <1>1 DEF Window!Killall, Window!table, Window!history
  <2>2. QED BY <2>1 DEF Window!WindowInv, Window!Counted, Window!InTable, Window!With
<1>2. QED BY <1>1, WindowSimulate, WindowSubmit, WindowTick, WindowHear, WindowProcess
          DEF Window!Next

\* The properties of the main window's server follow.
LEMMA WindowSafe ==
  ASSUME Window!WindowInv
  PROVE  Window!CpuBound /\ Window!FinishedHasEnded /\ Window!RaisesOnlyLate
<1>1. jobs \in Seq(Job) /\ (~mixed => /\ ~raised /\ (timer \/ jobs = << >>)
                                      /\ Window!Counted /\ Window!InTable)
  BY DEF Window!WindowInv, Job
<1>2. ASSUME ~mixed PROVE Cardinality(procs \ told) <= Cpus
  <2> DEFINE f == [k \in Window!With(1) |-> jobs[k].id]
  <2>1. procs \ told \subseteq {<<f[k], k>> : k \in Window!With(1)}
    <3>1. \A q \in procs \ told : q[2] \in Window!With(1) /\ q = <<jobs[q[2]].id, q[2]>>
      BY <1>1, <1>2 DEF Window!InTable
    <3>2. QED BY <3>1
  <2>2. IsFiniteSet(Window!With(1)) /\ Cardinality(Window!With(1)) \in Nat
    BY <1>1, WithSets
  <2> HIDE DEF f
  <2>3. /\ IsFiniteSet(procs \ told)
        /\ Cardinality(procs \ told) <= Cardinality(Window!With(1))
    BY <2>1, <2>2, Pairs
  <2>4. Cardinality(Window!With(1)) <= Cpus
    BY <1>1, <1>2, SameCardinality DEF Window!Counted
  <2>5. QED BY <2>2, <2>3, <2>4, FS_CardinalityType
<1>3. ASSUME ~mixed, ~timer PROVE procs \subseteq told
  <2>1. jobs = << >> /\ Window!InTable
    BY <1>1, <1>3
  <2>2. Window!With(1) = {}
    BY <2>1 DEF Window!With
  <2>3. QED BY <2>1, <2>2 DEF Window!InTable
<1>4. Window!FinishedHasEnded
  <2>1. ASSUME ~mixed, NEW k \in DOMAIN jobs, jobs[k].status = 2
        PROVE <<jobs[k].id, k>> \in told
    BY <1>1, <2>1 DEF Window!InTable, Window!With
  <2>2. QED BY <1>3, <2>1 DEF Window!FinishedHasEnded
<1>5. Window!CpuBound
  BY <1>2, SameCardinality DEF Window!CpuBound
<1>6. QED BY <1>1, <1>4, <1>5 DEF Window!RaisesOnlyLate

-----------------------------------------------------------------------------
(* Both.                                                                    *)

RunnersInv == InRunner(RunnerInv) /\ InWindow(Window!WindowInv)

\* Each of the two keeps its invariant over the shared table.
THEOREM RunnersInvHolds == MCSpec => []RunnersInv
<1>1. MCInit => RunnersInv
  BY RunnerInit, WindowInit DEF MCInit, RunnersInv, InRunner, InWindow
<1>2. RunnersInv /\ [MCNext]_mcvars => RunnersInv'
  <2> SUFFICES ASSUME RunnersInv, [MCNext]_mcvars PROVE RunnersInv'
    OBVIOUS
  <2>1. CASE RunnerNext
    BY <2>1, RunnerNextInv DEF RunnerNext, RunnersInv, InRunner, InWindow
  <2>2. CASE WindowNext
    BY <2>2, WindowNextInv DEF WindowNext, RunnersInv, InRunner, InWindow
  <2>3. CASE UNCHANGED mcvars
    <3>1. UNCHANGED <<part, jobs, jobs_running, jobs_run, locks, procs, pc, ls, batch, ended, gaveUp,
                      finished_jobs, timer, signals, added, told, mixed, raised>>
      BY <2>3 DEF mcvars, vars, windowvars
    <3>2. RunnerInv => RunnerInv'
      BY <3>1 DEF RunnerInv, Counted, OfThisBatch, Listed, Status
    <3>3. Window!WindowInv => Window!WindowInv'
      BY <3>1 DEF Window!WindowInv, Window!Counted, Window!InTable, Window!With
    <3>4. QED BY <3>1, <3>2, <3>3 DEF RunnersInv, InRunner, InWindow
  <2>4. QED BY <2>1, <2>2, <2>3 DEF MCNext, WindowDone
<1>3. QED BY <1>1, <1>2, PTL DEF MCSpec

\* No more processes work than cpus are allowed: with simple_run until a batch is given
\* up, with the main window's server until its table is cleared under its processes.
THEOREM AtMostCpusHolds == MCSpec => []AtMostCpus
<1>1. RunnersInv => AtMostCpus
  BY RunnerSafe, WindowSafe DEF RunnersInv, AtMostCpus, InRunner, InWindow
<1>2. QED BY <1>1, RunnersInvHolds, PTL

\* A job is called finished only when its own process has ended or has said so.
THEOREM CalledFinishedHasEndedHolds == MCSpec => []CalledFinishedHasEnded
<1>1. RunnersInv => CalledFinishedHasEnded
  BY RunnerSafe, WindowSafe DEF RunnersInv, CalledFinishedHasEnded, InRunner, InWindow
<1>2. QED BY <1>1, RunnersInvHolds, PTL

\* base_job_finished meets a job that is not running only after a batch was given up or
\* the table cleared.
THEOREM RaisesOnlyWhenLateHolds == MCSpec => []RaisesOnlyWhenLate
<1>1. RunnersInv => RaisesOnlyWhenLate
  BY RunnerSafe, WindowSafe DEF RunnersInv, RaisesOnlyWhenLate, InRunner, InWindow
<1>2. QED BY <1>1, RunnersInvHolds, PTL
=============================================================================
