-------------------------- MODULE MCTransfer_proofs --------------------------
(***************************************************************************)
(* Proofs about what travels over the cluster's connections, for any       *)
(* number of nodes, jobs, threads and crashes.                             *)
(***************************************************************************)
EXTENDS MCTransfer, SequenceTheorems, FiniteSetTheorems, WellFoundedInduction, TLAPS

-----------------------------------------------------------------------------
(* The threads of a node.                                                   *)

USE DEF Runner!NoDir

LEMMA RunnerInitInv == Runner!NodeCommandAssumption /\ Runner!Init => Runner!CommandInv
<1> SUFFICES ASSUME Runner!NodeCommandAssumption, Runner!Init PROVE Runner!CommandInv
  OBVIOUS
<1>1. inbox = << >> /\ inbox \in Seq(Runner!DirNames) /\ DOMAIN inbox = {}
  BY EmptySeq DEF Runner!Init
<1>2. Runner!Typed
  BY <1>1 DEF Runner!Init, Runner!Typed, Runner!DirNames
<1>3. Runner!SentOnce
  BY <1>1 DEF Runner!Init, Runner!SentOnce, Runner!NotStarted
<1>4. Runner!CopiesItsOwn
  BY DEF Runner!Init, Runner!CopiesItsOwn
<1>5. Runner!ReportsItsOwn
  BY DEF Runner!Init, Runner!ReportsItsOwn
<1>6. QED BY <1>2, <1>3, <1>4, <1>5 DEF Runner!CommandInv

\* A message more: a command is sent once.
LEMMA RunnerSend ==
  ASSUME Runner!NodeCommandAssumption, Runner!CommandInv,
         Runner!SendOther \/ \E j \in Dirs : Runner!SendCommand(j)
  PROVE  Runner!CommandInv'
<1>1. PICK d \in Runner!DirNames :
        /\ inbox' = Append(inbox, d)
        /\ \/ d \notin Dirs /\ unsent' = unsent
           \/ d \in unsent /\ unsent' = unsent \ {d}
  <2>1. "none" \notin Dirs
    BY DEF Runner!NodeCommandAssumption
  <2>2. QED BY <2>1 DEF Runner!SendOther, Runner!SendCommand, Runner!DirNames
<1>2. UNCHANGED <<data, main, thread, copy, cwd, ranIn, reported>>
  BY DEF Runner!SendOther, Runner!SendCommand
<1>3. Runner!Typed /\ Runner!SentOnce
  BY DEF Runner!CommandInv
<1>4. inbox \in Seq(Runner!DirNames)
  BY <1>3 DEF Runner!Typed
<1>5. /\ Len(inbox) \in Nat /\ DOMAIN inbox = 1 .. Len(inbox)
      /\ inbox' \in Seq(Runner!DirNames)
      /\ DOMAIN inbox' = 1 .. Len(inbox) + 1
      /\ \A k \in DOMAIN inbox : inbox'[k] = inbox[k]
      /\ inbox'[Len(inbox) + 1] = d
  <2>1. Len(inbox) \in Nat /\ DOMAIN inbox = 1 .. Len(inbox)
    BY <1>4, LenProperties
  <2>2. /\ inbox' \in Seq(Runner!DirNames) /\ Len(inbox') = Len(inbox) + 1
        /\ \A k \in 1 .. Len(inbox) : inbox'[k] = inbox[k]
        /\ inbox'[Len(inbox) + 1] = d
    BY <1>1, <1>4, AppendProperties
  <2>3. QED BY <2>1, <2>2, LenProperties
<1>6. Runner!Typed'
  BY <1>1, <1>2, <1>3, <1>5 DEF Runner!Typed, Runner!DirNames
<1>7. \A k \in DOMAIN inbox' : k \in DOMAIN inbox \/ k = Len(inbox) + 1
  BY <1>5
<1>8. Len(inbox) + 1 \notin DOMAIN inbox
  BY <1>5
<1>9. Runner!SentOnce'
  <2>1. \A j : Runner!NotStarted(j)' = Runner!NotStarted(j)
    BY <1>2 DEF Runner!NotStarted
  <2>2. \A j \in unsent' : Runner!NotStarted(j)' /\ \A k \in DOMAIN inbox' : inbox'[k] # j
    BY <1>1, <1>3, <1>5, <1>7, <2>1 DEF Runner!SentOnce, Runner!Typed
  <2>3. ASSUME NEW e \in Dirs, NEW k \in DOMAIN inbox', inbox'[k] = e
        PROVE  Runner!NotStarted(e)' /\ \A l \in DOMAIN inbox' : inbox'[l] = e => l = k
    <3>1. d \in Dirs => d \in unsent /\ Runner!NotStarted(d) /\ \A l \in DOMAIN inbox : inbox[l] # d
      BY <1>1, <1>3 DEF Runner!SentOnce
    <3>2. CASE k \in DOMAIN inbox
      BY <1>3, <1>5, <1>7, <2>1, <2>3, <3>1, <3>2 DEF Runner!SentOnce
    <3>3. CASE k = Len(inbox) + 1
      BY <1>5, <1>7, <1>8, <2>1, <2>3, <3>1, <3>3
    <3>4. QED BY <1>7, <3>2, <3>3
  <2>4. UNCHANGED <<main, data, thread>>
    BY <1>2
  <2>5. QED BY <1>3, <2>2, <2>3, <2>4 DEF Runner!SentOnce, Runner!NotStarted
<1>10. QED BY <1>2, <1>6, <1>9 DEF Runner!CommandInv, Runner!CopiesItsOwn, Runner!ReportsItsOwn

\* node() takes its messages one after the other, and sleeps.
LEMMA RunnerNode ==
  ASSUME Runner!NodeCommandAssumption, Runner!CommandInv, Runner!Node
  PROVE  Runner!CommandInv'
<1>1. Runner!Typed /\ Runner!SentOnce /\ "none" \notin Dirs
  BY DEF Runner!CommandInv, Runner!NodeCommandAssumption
<1>2. CASE Runner!Clear \/ Runner!OtherMessage \/ Runner!SleepEnds
  <2>1. /\ UNCHANGED <<inbox, unsent, thread, copy, cwd, ranIn, reported>>
        /\ data' \in {data, "none"} /\ main' = "rx"
    BY <1>2 DEF Runner!Clear, Runner!OtherMessage, Runner!SleepEnds
  <2>2. Runner!Typed' /\ Runner!SentOnce'
    BY <1>1, <2>1 DEF Runner!Typed, Runner!SentOnce, Runner!NotStarted, Runner!DirNames
  <2>3. main # "sleep" \/ Runner!Awake
    BY <1>2 DEF Runner!Clear, Runner!OtherMessage, Runner!SleepEnds
  <2>4. ASSUME SleepCovers = "copy_packet" PROVE Runner!CopiesItsOwn' /\ Runner!ReportsItsOwn'
    BY <1>1, <2>1, <2>3, <2>4 DEF Runner!CommandInv, Runner!CopiesItsOwn, Runner!ReportsItsOwn, Runner!Awake,
       Runner!Typed
  <2>5. QED BY <2>2, <2>4 DEF Runner!CommandInv
<1>3. CASE Runner!RxPacket
  <2>1. /\ main = "rx" /\ main' = "handle" /\ inbox # << >>
        /\ data' = Head(inbox) /\ inbox' = Tail(inbox)
        /\ UNCHANGED <<unsent, thread, copy, cwd, ranIn, reported>>
    BY <1>3 DEF Runner!RxPacket
  <2>2. inbox \in Seq(Runner!DirNames)
    BY <1>1 DEF Runner!Typed
  <2>3. /\ 1 \in DOMAIN inbox /\ data' = inbox[1] /\ data' \in Runner!DirNames
        /\ inbox' \in Seq(Runner!DirNames)
        /\ \A k \in DOMAIN inbox' : k + 1 \in DOMAIN inbox /\ inbox'[k] = inbox[k + 1] /\ k + 1 # 1
        /\ \A k, l \in DOMAIN inbox' : k + 1 = l + 1 => k = l
    <3>1. Len(inbox) \in Nat /\ DOMAIN inbox = 1 .. Len(inbox) /\ Len(inbox) # 0
      BY <2>1, <2>2, LenProperties, EmptySeq
    <3>2. /\ data' = inbox[1] /\ data' \in Runner!DirNames
          /\ inbox' \in Seq(Runner!DirNames) /\ Len(inbox') = Len(inbox) - 1
          /\ \A k \in 1 .. Len(inbox') : inbox'[k] = inbox[k + 1]
      BY <2>1, <2>2, HeadTailProperties
    <3>3. DOMAIN inbox' = 1 .. Len(inbox) - 1
      BY <3>2, LenProperties
    <3>4. QED BY <3>1, <3>2, <3>3
  <2>4. Runner!Typed'
    BY <1>1, <2>1, <2>3 DEF Runner!Typed
  <2>5. Runner!SentOnce'
    BY <1>1, <2>1, <2>3 DEF Runner!SentOnce, Runner!NotStarted
  <2>6. QED BY <2>1, <2>4, <2>5 DEF Runner!CommandInv, Runner!CopiesItsOwn, Runner!ReportsItsOwn
<1>4. CASE Runner!NodeRunJob
  <2>1. /\ main = "handle" /\ main' = "sleep" /\ data \in Dirs
        /\ thread' = [thread EXCEPT ![data] = "created"]
        /\ UNCHANGED <<inbox, unsent, data, copy, cwd, ranIn, reported>>
    BY <1>4 DEF Runner!NodeRunJob
  <2>2. thread[data] = "none" /\ thread \in [Dirs -> {"none", "created", "copied", "chdir", "running", "ended"}]
    BY <1>1, <2>1 DEF Runner!SentOnce, Runner!Typed
  <2>3. /\ thread' \in [Dirs -> {"none", "created", "copied", "chdir", "running", "ended"}]
        /\ thread'[data] = "created" /\ \A j \in Dirs : j # data => thread'[j] = thread[j]
    BY <2>1, <2>2
  <2>4. Runner!Typed'
    BY <1>1, <2>1, <2>3 DEF Runner!Typed
  <2>5. Runner!SentOnce'
    <3>1. \A j \in Dirs : Runner!NotStarted(j) => j # data
      BY <2>1 DEF Runner!NotStarted
    <3>2. \A j \in Dirs : Runner!NotStarted(j) => Runner!NotStarted(j)'
      BY <2>1, <2>3, <3>1 DEF Runner!NotStarted
    <3>3. unsent \subseteq Dirs
      BY <1>1 DEF Runner!Typed
    <3>4. QED BY <1>1, <2>1, <3>2, <3>3 DEF Runner!SentOnce
  <2>6. ASSUME SleepCovers = "copy_packet" PROVE Runner!CopiesItsOwn' /\ Runner!ReportsItsOwn'
    BY <2>1, <2>2, <2>3, <2>6 DEF Runner!CommandInv, Runner!CopiesItsOwn, Runner!ReportsItsOwn
  <2>7. QED BY <2>4, <2>5, <2>6 DEF Runner!CommandInv
<1>5. QED BY <1>2, <1>3, <1>4 DEF Runner!Node

\* A thread goes on, in its own directory when it has been given the time.
LEMMA RunnerExec ==
  ASSUME Runner!NodeCommandAssumption, Runner!CommandInv, NEW j \in Dirs, Runner!Exec(j)
  PROVE  Runner!CommandInv'
<1>1. Runner!Typed /\ Runner!SentOnce
  BY DEF Runner!CommandInv
<1>2. PICK s \in {"copied", "chdir", "running", "ended"} :
        /\ thread' = [thread EXCEPT ![j] = s] /\ thread[j] # "none"
        /\ UNCHANGED <<inbox, unsent, data, main>>
        /\ s = "copied" => /\ thread[j] = "created" /\ copy' = [copy EXCEPT ![j] = data]
                           /\ UNCHANGED <<cwd, ranIn, reported>>
        /\ s = "chdir" => /\ thread[j] = "copied" /\ cwd' = copy[j]
                          /\ UNCHANGED <<copy, ranIn, reported>>
        /\ s = "running" => /\ thread[j] = "chdir" /\ ranIn' = [ranIn EXCEPT ![j] = cwd]
                            /\ UNCHANGED <<copy, cwd, reported>>
        /\ s = "ended" => /\ thread[j] = "running"
                          /\ reported' = [reported EXCEPT ![copy[j]] = @ + 1]
                          /\ UNCHANGED <<copy, cwd, ranIn>>
  BY DEF Runner!Exec, Runner!CopyPacket, Runner!Chdir, Runner!Fork, Runner!SendFinished, Runner!Finished
<1>3. /\ thread'[j] = s /\ \A i \in Dirs : i # j => thread'[i] = thread[i]
      /\ thread' \in [Dirs -> {"none", "created", "copied", "chdir", "running", "ended"}]
  BY <1>1, <1>2 DEF Runner!Typed
<1>4. Runner!SentOnce'
  <2>1. \A i \in Dirs : Runner!NotStarted(i) => Runner!NotStarted(i)'
    BY <1>2, <1>3 DEF Runner!NotStarted
  <2>2. QED BY <1>1, <1>2, <1>3, <2>1 DEF Runner!SentOnce, Runner!Typed
<1>5. CASE s = "copied"
  <2>1. /\ thread[j] = "created" /\ copy' = [copy EXCEPT ![j] = data]
        /\ UNCHANGED <<cwd, ranIn, reported>>
    BY <1>2, <1>5
  <2>2. copy' \in [Dirs -> Runner!DirNames] /\ copy'[j] = data /\ \A i \in Dirs : i # j => copy'[i] = copy[i]
    BY <1>1, <2>1 DEF Runner!Typed
  <2>3. Runner!Typed'
    BY <1>1, <1>2, <1>3, <2>1, <2>2 DEF Runner!Typed
  <2>4. ASSUME SleepCovers = "copy_packet" PROVE Runner!CopiesItsOwn' /\ Runner!ReportsItsOwn'
    BY <1>2, <1>3, <1>5, <2>1, <2>2, <2>4 DEF Runner!CommandInv, Runner!CopiesItsOwn, Runner!ReportsItsOwn
  <2>5. QED BY <1>4, <2>3, <2>4 DEF Runner!CommandInv
<1>6. CASE s = "chdir"
  <2>1. /\ thread[j] = "copied" /\ cwd' = copy[j]
        /\ UNCHANGED <<copy, ranIn, reported>>
    BY <1>2, <1>6
  <2>2. Runner!Typed'
    BY <1>1, <1>2, <1>3, <2>1 DEF Runner!Typed
  <2>3. ASSUME SleepCovers = "copy_packet" PROVE Runner!CopiesItsOwn' /\ Runner!ReportsItsOwn'
    BY <1>2, <1>3, <1>6, <2>1, <2>3 DEF Runner!CommandInv, Runner!CopiesItsOwn, Runner!ReportsItsOwn
  <2>4. QED BY <1>4, <2>2, <2>3 DEF Runner!CommandInv
<1>7. CASE s = "running"
  <2>1. /\ thread[j] = "chdir" /\ ranIn' = [ranIn EXCEPT ![j] = cwd]
        /\ UNCHANGED <<copy, cwd, reported>>
    BY <1>2, <1>7
  <2>2. \A i \in Dirs : i # j => ranIn'[i] = ranIn[i]
    BY <1>1, <2>1 DEF Runner!Typed
  <2>3. ranIn'[j] = cwd
    BY <1>1, <2>1 DEF Runner!Typed
  <2>4. Runner!Typed'
    <3>1. ranIn' \in [Dirs -> Runner!DirNames]
      BY <1>1, <2>1 DEF Runner!Typed
    <3>2. QED BY <1>1, <1>2, <1>3, <2>1, <3>1 DEF Runner!Typed
  <2>5. ASSUME SleepCovers = "copy_packet" PROVE Runner!CopiesItsOwn' /\ Runner!ReportsItsOwn'
    BY <1>2, <1>3, <1>7, <2>1, <2>5 DEF Runner!CommandInv, Runner!CopiesItsOwn, Runner!ReportsItsOwn
  <2>6. QED BY <1>4, <2>4, <2>5 DEF Runner!CommandInv
<1>8. CASE s = "ended"
  <2>1. /\ thread[j] = "running" /\ reported' = [reported EXCEPT ![copy[j]] = @ + 1]
        /\ UNCHANGED <<copy, cwd, ranIn>>
    BY <1>2, <1>8
  <2>2. /\ copy[j] \in Runner!DirNames /\ reported' \in [Runner!DirNames -> Nat]
        /\ \A i \in Runner!DirNames : i # copy[j] => reported'[i] = reported[i]
    BY <1>1, <2>1 DEF Runner!Typed
  <2>3. Runner!Typed'
    BY <1>1, <1>2, <1>3, <2>1, <2>2 DEF Runner!Typed
  <2>4. ASSUME SleepCovers = "copy_packet" PROVE Runner!CopiesItsOwn' /\ Runner!ReportsItsOwn'
    BY <1>2, <1>3, <1>8, <2>1, <2>2, <2>4
       DEF Runner!CommandInv, Runner!CopiesItsOwn, Runner!ReportsItsOwn, Runner!DirNames
  <2>5. QED BY <1>4, <2>3, <2>4 DEF Runner!CommandInv
<1>9. QED BY <1>2, <1>5, <1>6, <1>7, <1>8

LEMMA RunnerNextInv ==
  ASSUME Runner!NodeCommandAssumption, Runner!CommandInv, Runner!Next
  PROVE  Runner!CommandInv'
<1>1. CASE Runner!Done
  BY <1>1 DEF Runner!Done, Runner!vars, Runner!CommandInv, Runner!Typed, Runner!SentOnce, Runner!NotStarted,
     Runner!CopiesItsOwn, Runner!ReportsItsOwn
<1>2. QED BY <1>1, RunnerSend, RunnerNode, RunnerExec DEF Runner!Next
-----------------------------------------------------------------------------
(* The list the head saves.                                                 *)

\* Every entry that comes out of a file or a buffer is an entry.
LEMMA StoreEntries ==
  ASSUME Store!JobStoreAssumption
  PROVE  /\ Store!Blank \in Store!Entry
         /\ \A e \in Store!Entry : /\ Store!Restored(e) \in Store!Entry
                                   /\ Store!Restored(e).status = 2
<1>1. MaxAdds \in Nat
  BY DEF Store!JobStoreAssumption
<1>2. QED BY <1>1 DEF Store!Blank, Store!Entry, Store!Ids, Store!Restored

LEMMA StoreInitInv == Store!JobStoreAssumption /\ Store!Init => Store!StoreInv
<1> SUFFICES ASSUME Store!JobStoreAssumption, Store!Init PROVE Store!StoreInv
  OBVIOUS
<1>1. MaxAdds \in Nat
  BY DEF Store!JobStoreAssumption
<1>2. saved = << >> /\ saved \in Seq(Store!Entry) /\ Len(saved) = 0 /\ DOMAIN saved = {}
  BY EmptySeq DEF Store!Init
<1>3. /\ file \in [n : 0 .. nadds, entries : Seq(Store!Entry)]
      /\ buf \in [Savers -> [n : Nat, from : Nat, piece : Seq(Store!Entry)]]
      /\ \A t \in Savers : buf[t].n <= Len(saved) /\ buf[t] = Store!NoBuf
  BY <1>2, EmptySeq DEF Store!Init, Store!NoBuf
<1>4. Store!Shapes
  BY <1>1, <1>2, <1>3 DEF Store!Init, Store!Shapes
<1>5. Store!Fresh
  BY <1>2 DEF Store!Init, Store!Fresh, Store!Waiting
<1>6. QED BY <1>4, <1>5 DEF Store!StoreInv

\* A message leaves the file and the buffers alone, and its thread saves next.
LEMMA StoreHandled ==
  ASSUME Store!StoreInv, NEW t \in Savers, Store!Handled(t),
         saved' \in Seq(Store!Entry), nadds' \in 0 .. MaxAdds, nadds <= nadds',
         Len(saved) <= Len(saved'), Len(saved') <= nadds',
         sent' \in [Store!Ids -> 0 .. 1]
  PROVE  Store!Shapes'
<1>1. Store!Shapes
  BY DEF Store!StoreInv
<1>2. /\ pc' = [pc EXCEPT ![t] = "open"] /\ UNCHANGED <<file, up, buf>>
  BY DEF Store!Handled
<1>3. pc' \in [Savers -> {"idle", "open", "fill", "write"}]
  BY <1>1, <1>2 DEF Store!Shapes
<1>4. Len(saved) \in Nat /\ Len(saved') \in Nat /\ nadds \in Nat /\ nadds' \in Nat
  BY <1>1, LenProperties DEF Store!Shapes
<1>5. file' \in [n : 0 .. nadds', entries : Seq(Store!Entry)]
  <2>1. file \in [n : 0 .. nadds, entries : Seq(Store!Entry)] /\ file' = file
    BY <1>1, <1>2 DEF Store!Shapes
  <2>2. 0 .. nadds \subseteq 0 .. nadds'
    BY <1>4
  <2>3. QED BY ONLY <2>1, <2>2
<1>6. \A s \in Savers : buf'[s].n <= Len(saved') /\ (~up' => buf'[s] = Store!NoBuf)
  <2>1. \A s \in Savers : buf[s].n \in Nat /\ buf[s].n <= Len(saved) /\ (~up => buf[s] = Store!NoBuf)
    BY <1>1 DEF Store!Shapes
  <2>2. QED BY <1>2, <1>4, <2>1
<1>7. QED BY <1>1, <1>2, <1>3, <1>5, <1>6 DEF Store!Shapes

LEMMA StoreAddJob ==
  ASSUME Store!JobStoreAssumption, Store!StoreInv, NEW t \in Savers, Store!AddJob(t)
  PROVE  Store!StoreInv'
<1> DEFINE e == [id |-> nadds + 1, status |-> 0]
<1>1. /\ Store!Handled(t) /\ nadds < MaxAdds /\ nadds' = nadds + 1 /\ sent' = sent
      /\ saved' = Append(saved, [id |-> nadds + 1, status |-> 0])
  BY DEF Store!AddJob
<1>2. /\ saved \in Seq(Store!Entry) /\ nadds \in 0 .. MaxAdds /\ Len(saved) <= nadds
      /\ sent \in [Store!Ids -> 0 .. 1] /\ MaxAdds \in Nat
  BY DEF Store!StoreInv, Store!Shapes, Store!JobStoreAssumption
<1>3. e \in Store!Entry /\ e.status = 0 /\ e.id = nadds + 1
  BY <1>1, <1>2 DEF Store!Entry, Store!Ids
<1>4. /\ Len(saved) \in Nat /\ DOMAIN saved = 1 .. Len(saved)
      /\ saved' \in Seq(Store!Entry) /\ Len(saved') = Len(saved) + 1
      /\ DOMAIN saved' = 1 .. Len(saved) + 1
      /\ \A k \in DOMAIN saved : saved'[k] = saved[k]
      /\ saved'[Len(saved) + 1] = e
  <2>1. Len(saved) \in Nat /\ DOMAIN saved = 1 .. Len(saved)
    BY <1>2, LenProperties
  <2>2. /\ saved' \in Seq(Store!Entry) /\ Len(saved') = Len(saved) + 1
        /\ \A k \in 1 .. Len(saved) : saved'[k] = saved[k]
        /\ saved'[Len(saved) + 1] = e
    BY <1>1, <1>2, <1>3, AppendProperties
  <2>3. QED BY <2>1, <2>2, LenProperties
<1>5. Store!Shapes'
  BY <1>1, <1>2, <1>4, StoreHandled
<1>6. Store!Waiting' = Store!Waiting \cup {Len(saved) + 1}
  BY <1>3, <1>4 DEF Store!Waiting
<1>7. Store!Fresh
  BY DEF Store!StoreInv
<1>8. nadds + 1 \in Store!Ids /\ sent[nadds + 1] = 0
  BY <1>1, <1>2, <1>7 DEF Store!Ids, Store!Fresh
<1>9. \A k \in Store!Waiting : /\ saved'[k] = saved[k] /\ k # Len(saved) + 1
                               /\ saved'[k].id \in 1 .. nadds /\ sent'[saved'[k].id] = 0
  BY <1>1, <1>4, <1>7 DEF Store!Fresh, Store!Waiting
<1>10. Store!Fresh'
  <2>1. \A k \in Store!Waiting' : saved'[k].id \in 1 .. nadds' /\ sent'[saved'[k].id] = 0
    <3>1. \A k \in Store!Waiting : saved'[k].id \in 1 .. nadds' /\ sent'[saved'[k].id] = 0
      <4>1. nadds \in Nat /\ nadds' = nadds + 1
        BY <1>1, <1>2
      <4>2. 1 .. nadds \subseteq 1 .. nadds'
        BY ONLY <4>1
      <4>3. QED BY ONLY <1>9, <4>2
    <3>2. saved'[Len(saved) + 1].id = nadds + 1 /\ nadds + 1 \in 1 .. nadds' /\ sent'[nadds + 1] = 0
      BY <1>1, <1>2, <1>3, <1>4, <1>8
    <3>3. QED BY <1>6, <3>1, <3>2
  <2>2. ASSUME NEW k \in Store!Waiting', NEW l \in Store!Waiting', saved'[k].id = saved'[l].id
        PROVE  k = l
    <3>1. CASE k \in Store!Waiting /\ l \in Store!Waiting
      BY <1>7, <1>9, <2>2, <3>1 DEF Store!Fresh
    <3>2. CASE k = Len(saved) + 1 /\ l \in Store!Waiting
      BY <1>2, <1>3, <1>4, <1>9, <2>2, <3>2
    <3>3. CASE l = Len(saved) + 1 /\ k \in Store!Waiting
      BY <1>2, <1>3, <1>4, <1>9, <2>2, <3>3
    <3>4. QED BY <1>6, <3>1, <3>2, <3>3
  <2>3. \A i \in Store!Ids : i > nadds' => sent'[i] = 0
    BY <1>1, <1>2, <1>7 DEF Store!Fresh, Store!Ids
  <2>4. QED BY <2>1, <2>2, <2>3 DEF Store!Fresh
<1>11. QED BY <1>5, <1>10 DEF Store!StoreInv

\* The jobs that are handed out are not waiting any more, and the others have other numbers.
LEMMA StoreRunJobs ==
  ASSUME Store!JobStoreAssumption, Store!StoreInv, NEW t \in Savers, Store!RunJobs(t)
  PROVE  Store!StoreInv'
<1>1. PICK S \in SUBSET Store!Waiting :
        /\ saved' = [k \in DOMAIN saved |->
                       IF k \in S THEN [saved[k] EXCEPT !.status = 1] ELSE saved[k]]
        /\ sent' = [i \in Store!Ids |-> IF \E k \in S : saved[k].id = i THEN sent[i] + 1 ELSE sent[i]]
  BY DEF Store!RunJobs
<1>2. Store!Handled(t) /\ nadds' = nadds
  BY DEF Store!RunJobs
<1>3. /\ saved \in Seq(Store!Entry) /\ nadds \in 0 .. MaxAdds /\ Len(saved) <= nadds
      /\ sent \in [Store!Ids -> 0 .. 1] /\ MaxAdds \in Nat /\ Store!Fresh
  BY DEF Store!StoreInv, Store!Shapes, Store!JobStoreAssumption
<1>4. Len(saved) \in Nat /\ DOMAIN saved = 1 .. Len(saved) /\ \A k \in DOMAIN saved : saved[k] \in Store!Entry
  BY <1>3, LenProperties, ElementOfSeq
<1>5. \A k \in DOMAIN saved :
        /\ saved'[k] \in Store!Entry /\ saved'[k].id = saved[k].id
        /\ saved'[k].status = IF k \in S THEN 1 ELSE saved[k].status
  BY <1>1, <1>4 DEF Store!Entry
<1>6. saved' \in Seq(Store!Entry) /\ DOMAIN saved' = DOMAIN saved /\ Len(saved') = Len(saved)
  <2>1. DOMAIN saved' = 1 .. Len(saved) /\ saved' \in [1 .. Len(saved) -> Store!Entry]
    BY <1>1, <1>4, <1>5
  <2>2. saved' \in Seq(Store!Entry)
    BY ONLY <1>4, <2>1, SeqDef
  <2>3. Len(saved') \in Nat /\ DOMAIN saved' = 1 .. Len(saved')
    BY <2>2, LenProperties
  <2>4. Len(saved') = Len(saved)
    BY ONLY <1>4, <2>1, <2>3
  <2>5. QED BY <1>4, <2>1, <2>2, <2>4
<1>7. \A k \in S : saved[k].id \in Store!Ids /\ sent[saved[k].id] = 0
  BY <1>3 DEF Store!Fresh, Store!Ids
<1>8. sent' \in [Store!Ids -> 0 .. 1]
  <2>1. \A i \in Store!Ids : (IF \E k \in S : saved[k].id = i THEN sent[i] + 1 ELSE sent[i]) \in 0 .. 1
    BY <1>3, <1>7
  <2>2. QED BY <1>1, <2>1
<1>9. Store!Shapes'
  BY <1>2, <1>3, <1>4, <1>6, <1>8, StoreHandled
<1>10. Store!Waiting' = Store!Waiting \ S
  BY <1>5, <1>6 DEF Store!Waiting
<1>11. ASSUME NEW k \in Store!Waiting \ S
       PROVE  k \in DOMAIN saved /\ saved'[k].id \in 1 .. nadds /\ sent'[saved'[k].id] = 0
  <2>1. /\ k \in DOMAIN saved /\ saved[k].id \in 1 .. nadds /\ sent[saved[k].id] = 0
        /\ \A l \in S : saved[l].id # saved[k].id
    BY <1>3, <1>11 DEF Store!Fresh, Store!Waiting
  <2>2. saved[k].id \in Store!Ids
    BY <1>3, <2>1 DEF Store!Ids
  <2>3. QED BY <1>1, <1>5, <2>1, <2>2
<1>12. Store!Fresh'
  <2>1. \A k, l \in Store!Waiting' : saved'[k].id = saved'[l].id => k = l
    BY <1>3, <1>5, <1>10 DEF Store!Fresh, Store!Waiting
  <2>2. \A i \in Store!Ids : i > nadds' => sent'[i] = 0
    <3>1. \A k \in S : saved[k].id <= nadds
      BY <1>3 DEF Store!Fresh
    <3>2. QED BY <1>1, <1>2, <1>3, <3>1 DEF Store!Fresh, Store!Ids
  <2>3. QED BY <1>2, <1>10, <1>11, <2>1, <2>2 DEF Store!Fresh
<1>13. QED BY <1>9, <1>12 DEF Store!StoreInv

\* A job that has run is finished, or the list stays as it is.
LEMMA StoreOtherMessages ==
  ASSUME Store!JobStoreAssumption, Store!StoreInv, NEW t \in Savers,
         Store!SimFinished(t) \/ Store!LoadStats(t)
  PROVE  Store!StoreInv'
<1>1. Store!Handled(t) /\ nadds' = nadds /\ sent' = sent
  BY DEF Store!SimFinished, Store!LoadStats
<1>2. /\ saved \in Seq(Store!Entry) /\ nadds \in 0 .. MaxAdds /\ Len(saved) <= nadds
      /\ sent \in [Store!Ids -> 0 .. 1] /\ MaxAdds \in Nat /\ Store!Fresh
  BY DEF Store!StoreInv, Store!Shapes, Store!JobStoreAssumption
<1>3. Len(saved) \in Nat /\ DOMAIN saved = 1 .. Len(saved) /\ \A k \in DOMAIN saved : saved[k] \in Store!Entry
  BY <1>2, LenProperties, ElementOfSeq
<1>4. /\ saved' \in Seq(Store!Entry) /\ DOMAIN saved' = DOMAIN saved /\ Len(saved') = Len(saved)
      /\ \A k \in DOMAIN saved : saved'[k] = saved[k] \/ (saved[k].status = 1 /\ saved'[k].status = 2)
  <2>1. CASE Store!LoadStats(t)
    BY <1>2, <2>1 DEF Store!LoadStats
  <2>2. CASE Store!SimFinished(t)
    <3>1. PICK k \in DOMAIN saved : saved[k].status = 1 /\ saved' = [saved EXCEPT ![k].status = 2]
      BY <2>2 DEF Store!SimFinished
    <3>2. PICK e : e = [saved[k] EXCEPT !.status = 2]
      OBVIOUS
    <3>3. e \in Store!Entry /\ e.status = 2
      BY ONLY <1>3, <3>1, <3>2 DEF Store!Entry
    <3>4. saved' = [saved EXCEPT ![k] = e]
      BY <3>1, <3>2
    <3>5. saved' \in Seq(Store!Entry) /\ Len(saved') = Len(saved)
      BY ONLY <1>2, <1>3, <3>1, <3>3, <3>4, ExceptSeq
    <3>6. QED BY <3>1, <3>3, <3>4, <3>5
  <2>3. QED BY <2>1, <2>2
<1>5. Store!Shapes'
  BY <1>1, <1>2, <1>3, <1>4, StoreHandled
<1>6. Store!Waiting' = Store!Waiting /\ \A k \in Store!Waiting : saved'[k] = saved[k]
  BY <1>4 DEF Store!Waiting
<1>7. Store!Fresh'
  BY <1>1, <1>2, <1>6 DEF Store!Fresh
<1>8. QED BY <1>5, <1>7 DEF Store!StoreInv

\* What the two ends of a piece of the list have in between are entries.
LEMMA StorePiece ==
  ASSUME NEW S, NEW q \in Seq(S), NEW m \in Nat, NEW k \in Nat, k <= Len(q)
  PROVE  SubSeq(q, m + 1, k) \in Seq(S)
<1>1. Len(q) \in Nat /\ DOMAIN q = 1 .. Len(q)
  BY LenProperties
<1>2. \A i \in (m + 1) .. k : q[i] \in S
  BY <1>1, ElementOfSeq
<1>3. QED BY <1>1, <1>2, SubSeqProperties

\* Whatever piece is laid over whatever entries, the file holds entries.
LEMMA StoreOverlay ==
  ASSUME Store!Blank \in Store!Entry, NEW q \in Seq(Store!Entry), NEW p \in Seq(Store!Entry), NEW m \in Nat
  PROVE  Store!Overlay(q, m, p) \in Seq(Store!Entry)
<1> DEFINE last == m + Len(p)
           size == IF last > Len(q) THEN last ELSE Len(q)
           at(k) == IF k \in m + 1 .. last THEN p[k - m]
                    ELSE IF k <= Len(q) THEN q[k] ELSE Store!Blank
<1>1. Len(p) \in Nat /\ Len(q) \in Nat /\ size \in Nat
  BY LenProperties
<1>2. ASSUME NEW k \in 1 .. size PROVE at(k) \in Store!Entry
  <2>1. CASE k \in m + 1 .. last
    <3>1. k - m \in 1 .. Len(p)
      BY <1>1, <2>1
    <3>2. p[k - m] \in Store!Entry
      BY <3>1, ElementOfSeq
    <3>3. QED BY <2>1, <3>2
  <2>2. CASE k \notin m + 1 .. last /\ k <= Len(q)
    <3>1. k \in 1 .. Len(q)
      BY <1>1, <2>2
    <3>2. q[k] \in Store!Entry
      BY <3>1, ElementOfSeq
    <3>3. QED BY <2>2, <3>2
  <2>3. QED BY <2>1, <2>2
<1>3. Store!Overlay(q, m, p) = [k \in 1 .. size |-> at(k)]
  BY DEF Store!Overlay
<1> HIDE DEF size, at
<1>4. Store!Overlay(q, m, p) \in [1 .. size -> Store!Entry]
  BY <1>2, <1>3
<1>5. QED BY ONLY <1>1, <1>4, SeqDef

\* A save writes what it read of the list, in pieces, and never reads beyond its end.
LEMMA StoreSave ==
  ASSUME Store!JobStoreAssumption, Store!StoreInv, NEW t \in Savers, Store!Save(t)
  PROVE  Store!StoreInv'
<1>1. Store!Shapes /\ Store!Fresh /\ MaxAdds \in Nat /\ BufJobs \in Nat
  BY DEF Store!StoreInv, Store!JobStoreAssumption
<1>2. UNCHANGED <<saved, up, sent, nadds>> /\ up
  BY DEF Store!Save, Store!Open, Store!Fill, Store!Write
<1>3. Store!Fresh'
  BY <1>1, <1>2 DEF Store!Fresh, Store!Waiting
<1>4. /\ saved \in Seq(Store!Entry) /\ Len(saved) \in Nat /\ Len(saved) <= nadds /\ nadds \in Nat
      /\ << >> \in Seq(Store!Entry)
      /\ buf[t] \in [n : Nat, from : Nat, piece : Seq(Store!Entry)] /\ buf[t].n <= Len(saved)
      /\ file \in [n : 0 .. nadds, entries : Seq(Store!Entry)]
  BY <1>1, LenProperties, EmptySeq DEF Store!Shapes
<1>5. PICK next \in {"idle", "fill", "write"} : pc' = [pc EXCEPT ![t] = next]
  BY DEF Store!Save, Store!Open, Store!Fill, Store!Write
<1>6. pc' \in [Savers -> {"idle", "open", "fill", "write"}]
  BY <1>1, <1>5 DEF Store!Shapes
<1>7. \E r \in [n : Nat, from : Nat, piece : Seq(Store!Entry)] :
         buf' = [buf EXCEPT ![t] = r] /\ r.n <= Len(saved)
  <2>1. CASE Store!Open(t)
    <3>1. Store!NoBuf \in [n : Nat, from : Nat, piece : Seq(Store!Entry)] /\ Store!NoBuf.n <= Len(saved)
      BY <1>4 DEF Store!NoBuf
    <3>2. QED BY <2>1, <3>1 DEF Store!Open
  <2>2. CASE Store!Fill(t)
    <3> DEFINE n == IF buf[t].from = 0 THEN Store!SavedCount ELSE buf[t].n
               last == IF n < buf[t].from + BufJobs THEN n ELSE buf[t].from + BufJobs
    <3>1. n \in Nat /\ last \in Nat /\ n <= Len(saved) /\ last <= Len(saved)
      BY <1>1, <1>4 DEF Store!SavedCount
    <3>2. buf' = [buf EXCEPT ![t].n = n, ![t].piece = SubSeq(saved, buf[t].from + 1, last)]
      BY <2>2 DEF Store!Fill
    <3> HIDE DEF n, last
    <3>3. PICK p : p = SubSeq(saved, buf[t].from + 1, last)
      OBVIOUS
    <3>4. p \in Seq(Store!Entry)
      BY <1>4, <3>1, <3>3, StorePiece
    <3>5. PICK r : r = [[buf[t] EXCEPT !.n = n] EXCEPT !.piece = p]
      OBVIOUS
    <3>6. r \in [n : Nat, from : Nat, piece : Seq(Store!Entry)] /\ r.n = n
      BY ONLY <1>4, <3>1, <3>4, <3>5
    <3>7. buf' = [buf EXCEPT ![t] = r]
      BY ONLY <1>1, <3>2, <3>3, <3>5 DEF Store!Shapes
    <3>8. QED BY <3>1, <3>6, <3>7
  <2>3. CASE Store!Write(t)
    <3>1. CASE buf' = [buf EXCEPT ![t] = Store!NoBuf]
      <4>1. Store!NoBuf \in [n : Nat, from : Nat, piece : Seq(Store!Entry)] /\ Store!NoBuf.n <= Len(saved)
        BY <1>4 DEF Store!NoBuf
      <4>2. QED BY <3>1, <4>1
    <3>2. CASE buf' = [buf EXCEPT ![t].from = @ + BufJobs, ![t].piece = << >>]
      <4>1. PICK m : m = buf[t].from + BufJobs
        OBVIOUS
      <4>2. m \in Nat
        BY ONLY <1>1, <1>4, <4>1
      <4>3. PICK r : r = [[buf[t] EXCEPT !.from = m] EXCEPT !.piece = << >>]
        OBVIOUS
      <4>4. r \in [n : Nat, from : Nat, piece : Seq(Store!Entry)] /\ r.n = buf[t].n
        BY ONLY <1>4, <4>2, <4>3
      <4>5. buf' = [buf EXCEPT ![t] = r]
        BY ONLY <1>1, <3>2, <4>1, <4>3 DEF Store!Shapes
      <4>6. QED BY <1>4, <4>4, <4>5
    <3>3. QED BY <2>3, <3>1, <3>2 DEF Store!Write
  <2>4. QED BY <2>1, <2>2, <2>3 DEF Store!Save
<1>8. file' \in [n : 0 .. nadds, entries : Seq(Store!Entry)]
  <2>1. CASE Store!Open(t)
    BY <1>4, <2>1 DEF Store!Open
  <2>2. CASE Store!Fill(t)
    BY <1>4, <2>2 DEF Store!Fill
  <2>3. CASE Store!Write(t)
    <3>1. Store!Overlay(file.entries, buf[t].from, buf[t].piece) \in Seq(Store!Entry)
      BY <1>4, StoreEntries, StoreOverlay
    <3>2. (IF buf[t].from = 0 THEN buf[t].n ELSE file.n) \in 0 .. nadds
      BY <1>4
    <3>3. QED BY <2>3, <3>1, <3>2 DEF Store!Write
  <2>4. QED BY <2>1, <2>2, <2>3 DEF Store!Save
<1>9. Store!Shapes'
  <2>1. PICK r \in [n : Nat, from : Nat, piece : Seq(Store!Entry)] :
          buf' = [buf EXCEPT ![t] = r] /\ r.n <= Len(saved)
    BY <1>7
  <2>2. /\ buf' \in [Savers -> [n : Nat, from : Nat, piece : Seq(Store!Entry)]]
        /\ \A s \in Savers : buf'[s] = IF s = t THEN r ELSE buf[s]
    BY <1>1, <2>1 DEF Store!Shapes
  <2>3. \A s \in Savers : buf'[s].n <= Len(saved)
    BY <1>1, <2>1, <2>2 DEF Store!Shapes
  <2>4. QED BY <1>1, <1>2, <1>6, <1>8, <2>2, <2>3 DEF Store!Shapes
<1>10. QED BY <1>3, <1>9 DEF Store!StoreInv

\* What the head starts from are finished jobs, whatever the file holds.
LEMMA StoreRestart ==
  ASSUME Store!JobStoreAssumption, Store!StoreInv, Store!Crash \/ Store!Start
  PROVE  Store!StoreInv'
<1>1. Store!Shapes /\ Store!Fresh /\ MaxAdds \in Nat
  BY DEF Store!StoreInv, Store!JobStoreAssumption
<1>2. UNCHANGED <<file, sent, nadds>> /\ nadds \in Nat
  BY <1>1 DEF Store!Crash, Store!Start, Store!Shapes
<1>3. CASE Store!Crash
  <2>1. /\ saved' = << >> /\ up' = FALSE /\ pc' = [t \in Savers |-> "idle"]
        /\ buf' = [t \in Savers |-> Store!NoBuf]
    BY <1>3 DEF Store!Crash
  <2>2. saved' \in Seq(Store!Entry) /\ Len(saved') = 0 /\ DOMAIN saved' = {}
    BY <2>1, EmptySeq
  <2>3. Store!NoBuf \in [n : Nat, from : Nat, piece : Seq(Store!Entry)] /\ Store!NoBuf.n = 0
    BY EmptySeq DEF Store!NoBuf
  <2>4. Store!Shapes'
    <3>1. /\ buf' \in [Savers -> [n : Nat, from : Nat, piece : Seq(Store!Entry)]]
          /\ \A t \in Savers : buf'[t].n <= Len(saved') /\ buf'[t] = Store!NoBuf
      BY <2>1, <2>2, <2>3
    <3>2. pc' \in [Savers -> {"idle", "open", "fill", "write"}] /\ up' \in BOOLEAN
      BY <2>1
    <3>3. file' \in [n : 0 .. nadds', entries : Seq(Store!Entry)] /\ sent' \in [Store!Ids -> 0 .. 1]
          /\ nadds' \in 0 .. MaxAdds /\ Len(saved') <= nadds'
      BY <1>1, <1>2, <2>2 DEF Store!Shapes
    <3>4. \A t \in Savers : ~up' => buf'[t] = Store!NoBuf'
      BY <3>1 DEF Store!NoBuf
    <3>5. QED BY <2>2, <3>1, <3>2, <3>3, <3>4 DEF Store!Shapes
  <2>5. Store!Fresh'
    BY <1>1, <1>2, <2>2 DEF Store!Fresh, Store!Waiting
  <2>6. QED BY <2>4, <2>5 DEF Store!StoreInv
<1>4. CASE Store!Start
  <2> DEFINE e(k) == Store!Restored(IF k <= Len(file.entries) THEN file.entries[k] ELSE Store!Blank)
  <2>1. /\ ~up /\ up' = TRUE /\ UNCHANGED <<pc, buf>>
        /\ saved' = [k \in 1 .. file.n |-> e(k)]
    BY <1>4 DEF Store!Start
  <2>2. file.n \in Nat /\ file.n <= nadds /\ file.entries \in Seq(Store!Entry)
    BY <1>1, <1>2 DEF Store!Shapes
  <2>3. ASSUME NEW k \in 1 .. file.n PROVE e(k) \in Store!Entry /\ e(k).status = 2
    <3>1. (IF k <= Len(file.entries) THEN file.entries[k] ELSE Store!Blank) \in Store!Entry
      <4>1. CASE k <= Len(file.entries)
        <5>1. k \in 1 .. Len(file.entries)
          BY <2>2, <4>1, LenProperties
        <5>2. QED BY <2>2, <4>1, <5>1, ElementOfSeq
      <4>2. QED BY <4>1, StoreEntries
    <3>2. QED BY <3>1, StoreEntries
  <2> HIDE DEF e
  <2>4. saved' \in [1 .. file.n -> Store!Entry] /\ \A k \in DOMAIN saved' : saved'[k].status = 2
    BY <2>1, <2>3
  <2>5. saved' \in Seq(Store!Entry)
    BY ONLY <2>2, <2>4, SeqDef
  <2>6. Len(saved') = file.n
    <3>1. Len(saved') \in Nat /\ DOMAIN saved' = 1 .. Len(saved')
      BY <2>5, LenProperties
    <3>2. QED BY ONLY <2>2, <2>4, <3>1
  <2>7. Store!Waiting' = {}
    BY <2>4 DEF Store!Waiting
  <2>8. \A t \in Savers : buf[t] = Store!NoBuf /\ buf'[t].n <= Len(saved')
    BY <1>1, <2>1, <2>2, <2>6 DEF Store!Shapes, Store!NoBuf
  <2>9. Store!Shapes'
    BY <1>1, <1>2, <2>1, <2>2, <2>5, <2>6, <2>8 DEF Store!Shapes
  <2>10. Store!Fresh'
    BY <1>1, <1>2, <2>7 DEF Store!Fresh
  <2>11. QED BY <2>9, <2>10 DEF Store!StoreInv
<1>5. QED BY <1>3, <1>4

LEMMA StoreNextInv ==
  ASSUME Store!JobStoreAssumption, Store!StoreInv, Store!Next PROVE Store!StoreInv'
BY StoreAddJob, StoreRunJobs, StoreOtherMessages, StoreSave, StoreRestart DEF Store!Next, Store!Message

-----------------------------------------------------------------------------
(* The whole: a behaviour shows one of the parts, the others stay as they   *)
(* begin.                                                                   *)

LEMMA CommandInvHolds == MCSpec => []Runner!CommandInv
<1>1. MCInit => Runner!CommandInv
  BY MCTransferAssumption, RunnerInitInv DEF MCInit
<1>2. Runner!CommandInv /\ [MCNext]_mcvars => Runner!CommandInv'
  <2> SUFFICES ASSUME Runner!CommandInv, [MCNext]_mcvars PROVE Runner!CommandInv'
    OBVIOUS
  <2>1. CASE RunnerNext
    BY <2>1, MCTransferAssumption, RunnerNextInv DEF RunnerNext
  <2>2. CASE UNCHANGED runnervars
    BY <2>2 DEF runnervars, Runner!CommandInv, Runner!Typed, Runner!SentOnce, Runner!NotStarted,
       Runner!CopiesItsOwn, Runner!ReportsItsOwn
  <2>3. QED BY <2>1, <2>2 DEF MCNext, TransferNext, StoreNext, mcvars
<1>3. QED BY <1>1, <1>2, PTL DEF MCSpec

LEMMA StoreInvHolds == MCSpec => []Store!StoreInv
<1>1. MCInit => Store!StoreInv
  BY MCTransferAssumption, StoreInitInv DEF MCInit
<1>2. Store!StoreInv /\ [MCNext]_mcvars => Store!StoreInv'
  <2> SUFFICES ASSUME Store!StoreInv, [MCNext]_mcvars PROVE Store!StoreInv'
    OBVIOUS
  <2>1. CASE StoreNext
    BY <2>1, MCTransferAssumption, StoreNextInv DEF StoreNext
  <2>2. CASE UNCHANGED storevars
    BY <2>2 DEF storevars, Store!StoreInv, Store!Shapes, Store!Fresh, Store!Waiting
  <2>3. QED BY <2>1, <2>2 DEF MCNext, TransferNext, RunnerNext, mcvars
<1>3. QED BY <1>1, <1>2, PTL DEF MCSpec

\* Whatever is lost of the file, and however often the head is killed and started again,
\* no job of its list is handed to a node a second time.
THEOREM NoneHandedOutAgainHolds == MCSpec => []NoneHandedOutAgain
<1>1. Store!StoreInv => NoneHandedOutAgain
  BY DEF Store!StoreInv, Store!Shapes, NoneHandedOutAgain, Store!HandedOutOnce
<1>2. QED BY <1>1, StoreInvHolds, PTL

\* While no thread overtakes another, each finds the directory it set, and forks in it.
LEMMA RunnerForks ==
  ASSUME SleepCovers = "copy_packet", Runner!CommandInv, Runner!NoneOvertakes',
         Runner!ForksAtHome, Runner!RunsInItsOwn, [MCNext]_mcvars
  PROVE  Runner!ForksAtHome' /\ Runner!RunsInItsOwn'
<1>1. Runner!Typed /\ Runner!CopiesItsOwn
  BY DEF Runner!CommandInv
<1>2. CASE Runner!SendOther \/ (\E j \in Dirs : Runner!SendCommand(j)) \/ UNCHANGED runnervars
  BY <1>2 DEF Runner!SendOther, Runner!SendCommand, runnervars, Runner!ForksAtHome, Runner!RunsInItsOwn
<1>3. CASE Runner!Node
  BY <1>1, <1>3 DEF Runner!Node, Runner!Clear, Runner!RxPacket, Runner!NodeRunJob, Runner!OtherMessage,
     Runner!SleepEnds, Runner!Typed, Runner!ForksAtHome, Runner!RunsInItsOwn
<1>4. ASSUME NEW j \in Dirs, Runner!Exec(j)
      PROVE  Runner!ForksAtHome' /\ Runner!RunsInItsOwn'
  <2>1. CASE Runner!CopyPacket(j) \/ Runner!SendFinished(j)
    BY <1>1, <2>1 DEF Runner!CopyPacket, Runner!SendFinished, Runner!Typed, Runner!ForksAtHome,
       Runner!RunsInItsOwn
  <2>2. CASE Runner!Chdir(j)
    <3>1. /\ thread[j] = "copied" /\ cwd' = copy[j] /\ ranIn' = ranIn
          /\ thread' = [thread EXCEPT ![j] = "chdir"]
      BY <2>2 DEF Runner!Chdir
    <3>2. copy[j] = j
      BY <1>1, <3>1 DEF Runner!CopiesItsOwn
    <3>3. thread'[j] = "chdir" /\ \A k \in Dirs : k # j => thread'[k] = thread[k]
      BY <1>1, <3>1 DEF Runner!Typed
    <3>4. \A k \in Dirs : thread'[k] = "chdir" => k = j
      BY <3>3 DEF Runner!NoneOvertakes
    <3> QED BY <3>1, <3>2, <3>3, <3>4 DEF Runner!ForksAtHome, Runner!RunsInItsOwn
  <2>3. CASE Runner!Fork(j)
    <3>1. /\ thread[j] = "chdir" /\ cwd' = cwd /\ ranIn' = [ranIn EXCEPT ![j] = cwd]
          /\ thread' = [thread EXCEPT ![j] = "running"]
      BY <2>3 DEF Runner!Fork
    <3>2. cwd = j
      BY <3>1 DEF Runner!ForksAtHome
    <3>3. /\ thread'[j] = "running" /\ ranIn'[j] = j
          /\ \A k \in Dirs : k # j => thread'[k] = thread[k] /\ ranIn'[k] = ranIn[k]
      BY <1>1, <3>1, <3>2 DEF Runner!Typed
    <3> QED BY <3>1, <3>3 DEF Runner!ForksAtHome, Runner!RunsInItsOwn
  <2> QED BY <1>4, <2>1, <2>2, <2>3 DEF Runner!Exec
<1>5. CASE Runner!Done
  BY <1>5 DEF Runner!Done, Runner!vars, Runner!ForksAtHome, Runner!RunsInItsOwn
<1> QED BY <1>2, <1>3, <1>4, <1>5
        DEF MCNext, TransferNext, StoreNext, RunnerNext, mcvars, Runner!Next

\* When cmp_node_runjob's second is enough to copy the packet, as its comment says it is
\* meant to be, the directory is the only thing left that threads can spoil for each
\* other: where none changes it between another's chdir and fork, every process is
\* forked in its job's directory, whatever else the node is sent.
THEOREM EachInItsDirectoryHolds ==
  ASSUME SleepCovers = "copy_packet" PROVE MCSpec => EachInItsDirectory
<1>1. MCInit => Runner!ForksAtHome /\ Runner!RunsInItsOwn
  BY DEF MCInit, Runner!Init, Runner!ForksAtHome, Runner!RunsInItsOwn
<1>2. /\ Runner!CommandInv /\ Runner!NoneOvertakes' /\ [MCNext]_mcvars
      /\ Runner!ForksAtHome /\ Runner!RunsInItsOwn
      => Runner!ForksAtHome' /\ Runner!RunsInItsOwn'
  BY RunnerForks
<1>3. QED BY <1>1, <1>2, CommandInvHolds, PTL DEF MCSpec, EachInItsDirectory

\* In that second, the head hears of a job only from the thread started for that job.
THEOREM EachReportsItselfHolds ==
  ASSUME SleepCovers = "copy_packet" PROVE MCSpec => []EachReportsItself
<1>1. Runner!CommandInv => EachReportsItself
  BY DEF Runner!CommandInv, EachReportsItself
<1>2. QED BY <1>1, CommandInvHolds, PTL

-----------------------------------------------------------------------------
(* Sequences of whatever they hold.                                         *)

LEMMA ASeq == ASSUME NEW S, NEW s \in Seq(S) PROVE IsSeq(s)
<1>1. Len(s) \in Nat /\ DOMAIN s = 1 .. Len(s) /\ s \in [1 .. Len(s) -> S]
  BY LenProperties
<1> DEFINE R == {s[k] : k \in DOMAIN s}
<1>2. s \in [1 .. Len(s) -> R]
  BY <1>1
<1>3. s \in Seq(R)
  BY ONLY <1>1, <1>2, SeqDef
<1>4. QED BY <1>3 DEF IsSeq

LEMMA SeqLen ==
  ASSUME NEW s, IsSeq(s)
  PROVE  Len(s) \in Nat /\ DOMAIN s = 1 .. Len(s) /\ (s = << >> <=> Len(s) = 0)
<1> DEFINE R == {s[k] : k \in DOMAIN s}
<1>1. s \in Seq(R)
  BY DEF IsSeq
<1>2. QED BY <1>1, LenProperties, EmptySeq

LEMMA SeqTuples ==
  ASSUME NEW a1, NEW a2, NEW a3, NEW a4
  PROVE  IsSeq(<< >>) /\ IsSeq(<<a1>>) /\ IsSeq(<<a1, a2>>) /\ IsSeq(<<a1, a2, a3, a4>>)
<1> DEFINE S == {a1, a2, a3, a4}
<1>1. << >> \in Seq(S) /\ <<a1>> \in Seq(S) /\ <<a1, a2>> \in Seq(S) /\ <<a1, a2, a3, a4>> \in Seq(S)
  BY EmptySeq
<1> HIDE DEF S
<1>2. QED BY <1>1, ASeq

LEMMA SeqOne ==
  ASSUME NEW x, NEW w, w = <<x>>
  PROVE  IsSeq(w) /\ DOMAIN w = 1 .. 1 /\ Len(w) = 1 /\ w[1] = x /\ w # << >>
<1>1. IsSeq(w)
  BY SeqTuples
<1>2. DOMAIN w = 1 .. 1 /\ Len(w) = 1 /\ w[1] = x
  BY ONLY w = <<x>>
<1>3. QED BY <1>1, <1>2, SeqLen

LEMMA SeqTail ==
  ASSUME NEW s, IsSeq(s), s # << >>
  PROVE  /\ IsSeq(Tail(s)) /\ Head(s) = s[1] /\ 1 \in DOMAIN s
         /\ Len(Tail(s)) = Len(s) - 1 /\ DOMAIN Tail(s) = 1 .. Len(s) - 1
         /\ \A k \in DOMAIN Tail(s) : k + 1 \in DOMAIN s /\ Tail(s)[k] = s[k + 1]
<1> DEFINE R == {s[k] : k \in DOMAIN s}
<1>1. s \in Seq(R)
  BY DEF IsSeq
<1> HIDE DEF R
<1>2. Len(s) \in Nat /\ DOMAIN s = 1 .. Len(s) /\ Len(s) # 0
  BY SeqLen
<1>3. /\ Head(s) = s[1] /\ Tail(s) \in Seq(R) /\ Len(Tail(s)) = Len(s) - 1
      /\ \A k \in 1 .. Len(Tail(s)) : Tail(s)[k] = s[k + 1]
  BY <1>1, HeadTailProperties
<1>4. IsSeq(Tail(s)) /\ DOMAIN Tail(s) = 1 .. Len(s) - 1
  BY <1>3, ASeq, LenProperties
<1>5. QED BY <1>2, <1>3, <1>4

LEMMA SeqConcat ==
  ASSUME NEW s, IsSeq(s), NEW u, IsSeq(u)
  PROVE  /\ IsSeq(s \o u) /\ Len(s \o u) = Len(s) + Len(u)
         /\ DOMAIN (s \o u) = 1 .. Len(s) + Len(u)
         /\ \A k \in DOMAIN (s \o u) : (s \o u)[k] = IF k <= Len(s) THEN s[k] ELSE u[k - Len(s)]
<1> DEFINE R == {s[k] : k \in DOMAIN s} \cup {u[k] : k \in DOMAIN u}
<1>1. s \in Seq({s[k] : k \in DOMAIN s}) /\ u \in Seq({u[k] : k \in DOMAIN u})
  BY DEF IsSeq
<1>2. s \in Seq(R) /\ u \in Seq(R)
  BY <1>1, SeqMonotonic
<1> HIDE DEF R
<1>3. /\ s \o u \in Seq(R) /\ Len(s \o u) = Len(s) + Len(u)
      /\ \A k \in 1 .. Len(s) + Len(u) : (s \o u)[k] = IF k <= Len(s) THEN s[k] ELSE u[k - Len(s)]
  BY <1>2, ConcatProperties
<1>4. IsSeq(s \o u) /\ DOMAIN (s \o u) = 1 .. Len(s) + Len(u)
  BY <1>3, ASeq, LenProperties
<1>5. QED BY <1>3, <1>4

LEMMA SeqFunction ==
  ASSUME NEW m \in Nat, NEW f, f = [k \in 1 .. m |-> f[k]]
  PROVE  IsSeq(f) /\ Len(f) = m
<1> DEFINE R == {f[k] : k \in 1 .. m}
<1>1. f \in [1 .. m -> R] /\ DOMAIN f = 1 .. m
  BY Zenon
<1>2. f \in Seq(R)
  BY ONLY <1>1, m \in Nat, SeqDef
<1> HIDE DEF R
<1>3. Len(f) \in Nat /\ DOMAIN f = 1 .. Len(f)
  BY <1>2, LenProperties
<1>4. Len(f) = m
  BY ONLY <1>1, <1>3, m \in Nat
<1>5. QED BY <1>2, <1>4, ASeq

-----------------------------------------------------------------------------
(* Streams.                                                                 *)

LEMMA Parity ==
  ASSUME NEW k \in Nat
  PROVE  k % 2 \in {0, 1} /\ (k + 1) % 2 = 1 - (k % 2) /\ (k + 2) % 2 = k % 2
OBVIOUS

\* One piece more is what the parity of the length asks for.
LEMMA WholeAppend ==
  ASSUME NEW s, IsSeq(s), Whole(s), NEW e,
         Odd(s) => e.part = 2 /\ e.by = s[Len(s)].by /\ e.packet = s[Len(s)].packet,
         ~Odd(s) => e.part = 1,
         NEW u, IsSeq(u), Len(u) = Len(s) + 1, u[Len(s) + 1] = e,
         \A k \in 1 .. Len(s) : u[k] = s[k]
  PROVE  Whole(u) /\ (Odd(u) <=> ~Odd(s))
<1>1. Len(s) \in Nat /\ DOMAIN s = 1 .. Len(s) /\ DOMAIN u = 1 .. Len(s) + 1
  BY SeqLen
<1>2. Len(s) % 2 \in {0, 1} /\ (Len(s) + 1) % 2 = 1 - (Len(s) % 2)
  BY <1>1, Parity
<1>3. SUFFICES ASSUME NEW k \in 1 .. Len(s) + 1
               PROVE  /\ u[k].part = 2 - (k % 2)
                      /\ k % 2 = 0 => u[k].by = u[k - 1].by /\ u[k].packet = u[k - 1].packet
  BY <1>1, <1>2 DEF Whole, Odd
<1>4. CASE k \in 1 .. Len(s)
  <2>1. /\ s[k].part = 2 - (k % 2)
        /\ k % 2 = 0 => s[k].by = s[k - 1].by /\ s[k].packet = s[k - 1].packet
    BY <1>1, <1>4 DEF Whole
  <2>2. k % 2 = 0 => k - 1 \in 1 .. Len(s)
    BY <1>1, <1>4
  <2>3. u[k] = s[k] /\ (k % 2 = 0 => u[k - 1] = s[k - 1])
    BY <1>4, <2>2
  <2>4. QED BY <2>1, <2>3
<1>5. CASE k = Len(s) + 1
  <2>1. k - 1 = Len(s)
    BY <1>1, <1>5
  <2>2. CASE Odd(s)
    <3>1. Len(s) % 2 = 1 /\ k % 2 = 0
      BY <1>2, <1>5, <2>2 DEF Odd
    <3>2. Len(s) \in 1 .. Len(s)
      BY <1>1, <3>1
    <3>3. u[k - 1] = s[Len(s)] /\ u[k] = e
      BY <1>5, <2>1, <3>2
    <3>4. QED BY <2>2, <3>1, <3>3
  <2>3. CASE ~Odd(s)
    <3>1. k % 2 = 1
      BY <1>2, <1>5, <2>3 DEF Odd
    <3>2. QED BY <1>5, <2>3, <3>1
  <2>4. QED BY <2>2, <2>3
<1>6. QED BY <1>1, <1>4, <1>5

LEMMA SeqAdd ==
  ASSUME NEW s, IsSeq(s), NEW e
  PROVE  /\ IsSeq(s \o <<e>>) /\ Len(s \o <<e>>) = Len(s) + 1 /\ (s \o <<e>>)[Len(s) + 1] = e
         /\ \A k \in 1 .. Len(s) : (s \o <<e>>)[k] = s[k]
<1>1. IsSeq(<<e>>) /\ Len(<<e>>) = 1 /\ <<e>>[1] = e
  BY SeqTuples
<1>2. Len(s) \in Nat
  BY SeqLen
<1>3. DOMAIN (s \o <<e>>) = 1 .. Len(s) + 1
  BY <1>1, SeqConcat
<1>4. Len(s) + 1 \in 1 .. Len(s) + 1 /\ ~(Len(s) + 1 <= Len(s)) /\ (Len(s) + 1) - Len(s) = 1
  BY <1>2
<1>5. (s \o <<e>>)[Len(s) + 1] = e
  BY <1>1, <1>3, <1>4, SeqConcat
<1>6. \A k \in 1 .. Len(s) : k \in 1 .. Len(s) + 1 /\ k <= Len(s)
  BY <1>2
<1>7. QED BY <1>1, <1>3, <1>5, <1>6, SeqConcat

LEMMA SeqAddBoth ==
  ASSUME NEW s, IsSeq(s), NEW t, NEW p
  PROVE  s \o Both(t, p) = (s \o <<Piece(t, p, 1)>>) \o <<Piece(t, p, 2)>>
<1> DEFINE x == Piece(t, p, 1)
           y == Piece(t, p, 2)
           S == {s[k] : k \in DOMAIN s} \cup {x, y}
<1>1. s \in Seq({s[k] : k \in DOMAIN s}) /\ {s[k] : k \in DOMAIN s} \subseteq S
  BY DEF IsSeq
<1>2. s \in Seq(S) /\ <<x>> \in Seq(S) /\ <<y>> \in Seq(S)
  BY <1>1, SeqMonotonic
<1>3. <<x>> \o <<y>> = <<x, y>>
  <2> HIDE DEF x, y, S
  <2>1. PICK w : w = <<x>> \o <<y>>
    OBVIOUS
  <2>2. IsSeq(<<x>>) /\ IsSeq(<<y>>) /\ Len(<<x>>) = 1 /\ Len(<<y>>) = 1 /\ <<x>>[1] = x /\ <<y>>[1] = y
    BY SeqTuples
  <2>3. Len(w) = 1 + 1 /\ DOMAIN w = 1 .. 1 + 1
        /\ \A k \in DOMAIN w : w[k] = IF k <= 1 THEN <<x>>[k] ELSE <<y>>[k - 1]
    BY <2>1, <2>2, SeqConcat
  <2>4. w[1] = x /\ w[2] = y /\ Len(w) = 2
    BY <2>2, <2>3
  <2>5. w \in Seq(S) /\ <<x, y>> \in Seq(S) /\ Len(<<x, y>>) = 2 /\ <<x, y>>[1] = x /\ <<x, y>>[2] = y
    BY <1>2, <2>1, ConcatProperties DEF S
  <2>6. \A i \in 1 .. 2 : w[i] = <<x, y>>[i]
    BY <2>4, <2>5
  <2>7. QED BY <2>1, <2>4, <2>5, <2>6, SeqEqual
<1>4. s \o (<<x>> \o <<y>>) = (s \o <<x>>) \o <<y>>
  BY <1>2, ConcatAssociative
<1>5. QED BY <1>3, <1>4 DEF Both

LEMMA WholeStep ==
  ASSUME NEW s, IsSeq(s), Whole(s), NEW t, NEW p
  PROVE  /\ ~Odd(s) => /\ Whole(s \o Both(t, p)) /\ ~Odd(s \o Both(t, p))
                       /\ Whole(s \o <<Piece(t, p, 1)>>) /\ Ends(s \o <<Piece(t, p, 1)>>, Piece(t, p, 1))
         /\ Ends(s, Piece(t, p, 1)) =>
              Whole(s \o <<Piece(t, p, 2)>>) /\ ~Odd(s \o <<Piece(t, p, 2)>>)
<1> DEFINE x == Piece(t, p, 1)
           y == Piece(t, p, 2)
<1>1. x.part = 1 /\ y.part = 2 /\ x.by = y.by /\ x.packet = y.packet
  BY DEF Piece
<1> HIDE DEF x, y
<1>2. ASSUME ~Odd(s)
      PROVE  Whole(s \o <<x>>) /\ Ends(s \o <<x>>, x) /\ IsSeq(s \o <<x>>)
  <2>1. PICK u : u = s \o <<x>>
    OBVIOUS
  <2>2. IsSeq(u) /\ Len(u) = Len(s) + 1 /\ u[Len(s) + 1] = x /\ \A k \in 1 .. Len(s) : u[k] = s[k]
    BY <2>1, SeqAdd
  <2>3. Whole(u) /\ Odd(u)
    BY <1>1, <1>2, <2>2, WholeAppend
  <2>4. QED BY <2>1, <2>2, <2>3 DEF Ends
<1>3. ASSUME NEW r, IsSeq(r), Whole(r), Ends(r, x)
      PROVE  Whole(r \o <<y>>) /\ ~Odd(r \o <<y>>)
  <2>1. PICK u : u = r \o <<y>>
    OBVIOUS
  <2>2. IsSeq(u) /\ Len(u) = Len(r) + 1 /\ u[Len(r) + 1] = y /\ \A k \in 1 .. Len(r) : u[k] = r[k]
    BY <1>3, <2>1, SeqAdd
  <2>3. Odd(r) /\ r[Len(r)] = x
    BY <1>3 DEF Ends
  <2>4. Whole(u) /\ ~Odd(u)
    BY <1>1, <1>3, <2>2, <2>3, WholeAppend
  <2>5. QED BY <2>1, <2>4
<1>4. ASSUME ~Odd(s) PROVE Whole(s \o Both(t, p)) /\ ~Odd(s \o Both(t, p))
  BY <1>2, <1>3, <1>4, SeqAddBoth DEF x, y
<1>5. QED BY <1>2, <1>3, <1>4 DEF x, y

\* Taking the first packet off leaves whole packets, and the end as it was.
LEMMA WholeRest ==
  ASSUME NEW s, IsSeq(s), Whole(s), Len(s) >= 2, NEW u, u = SubSeq(s, 3, Len(s))
  PROVE  /\ IsSeq(u) /\ Whole(u) /\ (Odd(u) <=> Odd(s)) /\ (Odd(s) => u[Len(u)] = s[Len(s)])
         /\ Len(u) = Len(s) - 2 /\ DOMAIN u = 1 .. Len(s) - 2
         /\ \A k \in DOMAIN u : k + 2 \in DOMAIN s /\ u[k] = s[k + 2]
         /\ 1 \in DOMAIN s /\ 2 \in DOMAIN s /\ s[2].packet = s[1].packet
<1>1. Len(s) \in Nat /\ DOMAIN s = 1 .. Len(s)
  BY SeqLen
<1>2. /\ \A k \in 1 .. Len(s) : s[k].part = 2 - (k % 2)
      /\ \A k \in 1 .. Len(s) : k % 2 = 0 => s[k].by = s[k - 1].by /\ s[k].packet = s[k - 1].packet
  BY <1>1 DEF Whole
<1> DEFINE R == {s[k] : k \in DOMAIN s}
<1>3. s \in Seq(R)
  BY DEF IsSeq
<1> HIDE DEF R
<1>4. /\ u \in Seq(R) /\ Len(u) = Len(s) - 2
      /\ \A k \in 1 .. Len(s) - 2 : u[k] = s[k + 2]
  <2>1. 3 \in Nat /\ \A k \in 3 .. Len(s) : s[k] \in R
    BY <1>1 DEF R
  <2>2. u \in Seq(R) /\ Len(u) = (IF 3 <= Len(s) THEN Len(s) - 3 + 1 ELSE 0)
        /\ \A k \in 1 .. Len(s) - 3 + 1 : u[k] = s[3 + k - 1]
    BY <1>1, <1>3, <2>1, SubSeqProperties
  <2>3. QED BY <1>1, <2>2
<1>5. IsSeq(u) /\ DOMAIN u = 1 .. Len(s) - 2
  BY <1>4, ASeq, LenProperties
<1>6. \A k \in 1 .. Len(s) - 2 : k + 2 \in 1 .. Len(s) /\ (k + 2) % 2 = k % 2 /\ (k + 2) - 1 = (k - 1) + 2
  BY <1>1
<1>7. \A k \in 1 .. Len(s) - 2 : k % 2 = 0 => k - 1 \in 1 .. Len(s) - 2
  BY <1>1
<1>8. Whole(u)
  <2>1. SUFFICES ASSUME NEW k \in 1 .. Len(s) - 2
                 PROVE  /\ u[k].part = 2 - (k % 2)
                        /\ k % 2 = 0 => u[k].by = u[k - 1].by /\ u[k].packet = u[k - 1].packet
    BY <1>5 DEF Whole
  <2>2. u[k] = s[k + 2] /\ (k % 2 = 0 => u[k - 1] = s[(k - 1) + 2])
    BY <1>4, <1>7
  <2>3. QED BY <1>2, <1>6, <2>2
<1>9. Odd(u) <=> Odd(s)
  <2>1. Len(u) \in Nat /\ Len(u) + 2 = Len(s)
    BY <1>1, <1>4
  <2>2. QED BY <2>1, Parity DEF Odd
<1>10. ASSUME Odd(s) PROVE u[Len(u)] = s[Len(s)]
  <2>1. Len(s) - 2 \in 1 .. Len(s) - 2
    BY <1>1, <1>10 DEF Odd
  <2>2. QED BY <1>1, <1>4, <2>1
<1>11. 1 \in DOMAIN s /\ 2 \in DOMAIN s /\ s[2].packet = s[1].packet
  <2>1. 2 \in 1 .. Len(s) /\ 2 % 2 = 0 /\ 2 - 1 = 1 /\ 1 \in 1 .. Len(s)
    BY <1>1
  <2>2. QED BY <1>1, <1>2, <2>1
<1>12. QED BY <1>1, <1>4, <1>5, <1>6, <1>8, <1>9, <1>10, <1>11

-----------------------------------------------------------------------------
(* The threads, the jobs and the files.                                     *)

LEMMA ThreadNames ==
  /\ \A c \in Conns : Rx(c) \in Threads /\ Program(Rx(c)) = "head"
  /\ \A n \in Nodes : Loop(n) \in Threads /\ Program(Loop(n)) = n /\ n # "head"
  /\ \A n \in Nodes, j \in Jobs : Exec(n, j) \in Threads
  /\ \A n \in Nodes : \A j : Program(Exec(n, j)) = n
  /\ \A c \in Conns : c # "head" /\ c # None /\ c # "new"
  /\ GUI \notin Nodes
BY TransferAssumption DEF Rx, Loop, Exec, Program, Threads, Conns, None

LEMMA ThreadsDiffer ==
  /\ \A c, d \in Conns : Rx(c) = Rx(d) => c = d
  /\ \A m, n \in Nodes : Loop(m) = Loop(n) => m = n
  /\ \A m, n \in Nodes : \A i, j : Exec(m, i) = Exec(n, j) => m = n /\ i = j
  /\ \A c \in Conns, n \in Nodes : Rx(c) # Loop(n)
  /\ \A c \in Conns, n \in Nodes : \A j : Rx(c) # Exec(n, j)
  /\ \A m, n \in Nodes : \A j : Loop(m) # Exec(n, j)
<1>1. \A n \in Nodes : n # "head"
  BY ThreadNames
<1>2. \A m, n \in Nodes : \A j : Loop(m) # Exec(n, j)
  <2> SUFFICES ASSUME NEW m, NEW n, NEW j PROVE <<m>> # <<n, j>>
    BY DEF Loop, Exec
  <2>1. Len(<<m>>) = 1 /\ Len(<<n, j>>) = 2
    OBVIOUS
  <2>2. QED BY <2>1
<1>3. \A c \in Conns, n \in Nodes : Rx(c) # Loop(n)
  <2> SUFFICES ASSUME NEW m, NEW n, NEW j PROVE <<m>> # <<n, j>>
    BY DEF Loop, Rx
  <2>1. Len(<<m>>) = 1 /\ Len(<<n, j>>) = 2
    OBVIOUS
  <2>2. QED BY <2>1
<1>4. QED BY <1>1, <1>2, <1>3 DEF Rx, Loop, Exec

LEMMA FirstOf == ASSUME NEW J, J \subseteq Jobs, J # {} PROVE First(J) \in J
<1>1. J \subseteq Nat
  BY DEF Jobs
<1> DEFINE Less == {r \in Nat \X Nat : r[1] < r[2]}
<1>2. IsWellFoundedOn(Less, Nat)
  <2>1. OpToRel(<, Nat) = Less
    BY DEF OpToRel, Less
  <2>2. QED BY <2>1, NatLessThanWellFounded, Zenon
<1>3. PICK m \in J : \A k \in J : <<k, m>> \notin Less
  BY <1>1, <1>2, WFMin, Zenon
<1>4. \A k \in J : m <= k
  <2>1. m \in Nat /\ \A k \in Nat : k < m => <<k, m>> \in Less
    BY <1>1
  <2>2. \A k \in J : k \in Nat /\ ~(k < m)
    BY <1>1, <1>3, <2>1
  <2> HIDE DEF Less
  <2>3. QED BY <2>1, <2>2
<1>5. \E j \in J : \A k \in J : j <= k
  BY <1>4
<1>6. QED BY <1>5 DEF First

\* send_dir finds every file of the directory.
LEMMA Listed ==
  ASSUME NEW S, IsFiniteSet(S), NEW files, files = SetToSeq(S)
  PROVE  /\ Cardinality(S) \in Nat /\ DOMAIN files = 1 .. Cardinality(S)
         /\ \A f \in S : \E k \in DOMAIN files : files[k] = f
<1>1. Cardinality(S) \in Nat /\ ExistsBijection(1 .. Cardinality(S), S)
  BY FS_CardinalityType
<1>2. \E f \in [1 .. Cardinality(S) -> S] : IsInjective(f)
  BY <1>1 DEF ExistsBijection, Bijection, Injection
<1>3. files \in [1 .. Cardinality(S) -> S] /\ IsInjective(files)
  BY <1>2 DEF SetToSeq
<1>4. files \in Injection(1 .. Cardinality(S), S)
  BY <1>3 DEF Injection
<1>5. IsFiniteSet(1 .. Cardinality(S)) /\ Cardinality(1 .. Cardinality(S)) = Cardinality(S)
  <2>1. 1 \in Int /\ Cardinality(S) \in Int
    BY <1>1
  <2>2. PICK m : m = Cardinality(S)
    OBVIOUS
  <2>3. IsFiniteSet(1 .. m) /\ Cardinality(1 .. m) = IF 1 > m THEN 0 ELSE m - 1 + 1
    BY ONLY <2>1, <2>2, FS_Interval
  <2>4. QED BY <1>1, <2>2, <2>3
<1>6. files \in Surjection(1 .. Cardinality(S), S)
  BY <1>4, <1>5, FS_Injection
<1>7. QED BY <1>1, <1>3, <1>6 DEF Surjection

-----------------------------------------------------------------------------
(* Lists of tasks.                                                          *)

\* The first task is replaced by others that bring what it would have brought.
LEMMA HeadListReplace ==
  ASSUME NEW l, IsSeq(l), HeadList(l), l # << >>, NEW l1, IsSeq(l1), HeadList(l1),
         \A n \in Nodes, j \in Jobs : WillBring(Head(l), n, j) =>
           Arriving(n, j) \/ \E i \in DOMAIN l1 : WillBring(l1[i], n, j)
  PROVE  IsSeq(l1 \o Tail(l)) /\ HeadList(l1 \o Tail(l))
<1>2. /\ Len(l) \in Nat /\ DOMAIN l = 1 .. Len(l) /\ Len(l1) \in Nat /\ DOMAIN l1 = 1 .. Len(l1)
      /\ Len(l) # 0
  BY SeqLen
<1>3. /\ IsSeq(Tail(l)) /\ Head(l) = l[1] /\ Len(Tail(l)) = Len(l) - 1
      /\ DOMAIN Tail(l) = 1 .. Len(l) - 1
      /\ \A k \in 1 .. Len(l) - 1 : k + 1 \in DOMAIN l /\ Tail(l)[k] = l[k + 1]
  BY SeqTail
<1>4. PICK u : u = l1 \o Tail(l)
  OBVIOUS
<1>5. /\ IsSeq(u) /\ DOMAIN u = 1 .. Len(l1) + (Len(l) - 1)
      /\ \A k \in DOMAIN u : u[k] = IF k <= Len(l1) THEN l1[k] ELSE Tail(l)[k - Len(l1)]
  BY <1>3, <1>4, SeqConcat
<1>6. /\ \A k \in 1 .. Len(l1) : k \in DOMAIN u /\ u[k] = l1[k]
      /\ \A k \in 2 .. Len(l) : k + Len(l1) - 1 \in DOMAIN u /\ u[k + Len(l1) - 1] = l[k]
      /\ \A k \in DOMAIN u : k \in 1 .. Len(l1) \/ \E i \in 2 .. Len(l) : k = i + Len(l1) - 1
  <2>1. ASSUME NEW k \in 1 .. Len(l1) PROVE k \in DOMAIN u /\ u[k] = l1[k]
    <3>1. k \in DOMAIN u /\ k <= Len(l1)
      BY <1>2, <1>5
    <3>2. QED BY <1>5, <3>1
  <2>2. ASSUME NEW k \in 2 .. Len(l)
        PROVE  k + Len(l1) - 1 \in DOMAIN u /\ u[k + Len(l1) - 1] = l[k]
    <3>1. /\ k + Len(l1) - 1 \in DOMAIN u /\ ~(k + Len(l1) - 1 <= Len(l1))
          /\ (k + Len(l1) - 1) - Len(l1) = k - 1 /\ k - 1 \in 1 .. Len(l) - 1 /\ (k - 1) + 1 = k
      BY <1>2, <1>5
    <3>2. QED BY <1>3, <1>5, <3>1
  <2>3. ASSUME NEW k \in DOMAIN u
        PROVE  k \in 1 .. Len(l1) \/ \E i \in 2 .. Len(l) : k = i + Len(l1) - 1
    <3>1. k \in 1 .. Len(l1) \/ (k - Len(l1) + 1 \in 2 .. Len(l) /\ k = (k - Len(l1) + 1) + Len(l1) - 1)
      BY <1>2, <1>5
    <3>2. QED BY <3>1
  <2>4. QED BY <2>1, <2>2, <2>3
<1>7. \A k \in DOMAIN u : HeadTask(u[k])
  <2>1. \A k \in 2 .. Len(l) : k \in DOMAIN l
    BY <1>2
  <2>2. QED BY <1>2, <1>6, <2>1 DEF HeadList
<1>8. ASSUME NEW n \in Nodes, NEW j \in Jobs PROVE TaskOrder(u, n, j)
  <2>1. SUFFICES ASSUME NEW k \in DOMAIN u, u[k].do = "tx_packet" /\ u[k].to = n /\ Commands(u[k].packet, j),
                        ~Arriving(n, j)
                 PROVE  \E i \in 1 .. k - 1 : WillBring(u[i], n, j)
    BY DEF TaskOrder
  <2>2. CASE k \in 1 .. Len(l1)
    <3>1. PICK i \in 1 .. k - 1 : WillBring(l1[i], n, j)
      BY <1>2, <1>6, <2>1, <2>2 DEF HeadList, TaskOrder
    <3>2. i \in 1 .. Len(l1)
      BY <1>2, <2>2
    <3>3. QED BY <1>6, <3>1, <3>2
  <2>3. CASE \E m \in 2 .. Len(l) : k = m + Len(l1) - 1
    <3>1. PICK m \in 2 .. Len(l) : k = m + Len(l1) - 1
      BY <2>3
    <3>2. m \in DOMAIN l /\ u[k] = l[m]
      BY <1>2, <1>6, <3>1
    <3>3. PICK i \in 1 .. m - 1 : WillBring(l[i], n, j)
      BY <2>1, <3>2 DEF HeadList, TaskOrder
    <3>4. CASE i = 1
      <4>1. WillBring(Head(l), n, j)
        BY <1>3, <3>3, <3>4
      <4>2. PICK h \in DOMAIN l1 : WillBring(l1[h], n, j)
        BY <2>1, <4>1
      <4>3. h \in 1 .. Len(l1) /\ h \in 1 .. k - 1
        BY <1>2, <3>1
      <4>4. QED BY <1>6, <4>2, <4>3
    <3>5. CASE i # 1
      <4>1. i \in 2 .. Len(l) /\ i + Len(l1) - 1 \in 1 .. k - 1
        BY <1>2, <3>1, <3>5
      <4>2. u[i + Len(l1) - 1] = l[i]
        BY <1>6, <4>1
      <4>3. QED BY <3>3, <4>1, <4>2
    <3>6. QED BY <3>4, <3>5
  <2>4. QED BY <1>6, <2>2, <2>3
<1>9. QED BY <1>4, <1>5, <1>7, <1>8 DEF HeadList

\* A list without a command.
LEMMA HeadListPlain ==
  ASSUME NEW l,
         \A k \in DOMAIN l : HeadTask(l[k]) /\ (l[k].do = "tx_packet" => l[k].packet.id # "gpvdmcommand")
  PROVE  HeadList(l)
BY DEF HeadList, TaskOrder, Commands

\* A node stays connected, and what arrives has arrived or still does.
Grows ==
  /\ \A n \in Nodes : Connected(n) => Connected(n)'
  /\ \A n \in Nodes, j \in Jobs : Arriving(n, j) => Arriving(n, j)'

LEMMA ReachedGrows == Grows => \A n \in Reached : n \in Reached'
BY DEF Grows, Reached

LEMMA HeadListGrows ==
  ASSUME NEW l, HeadList(l), Grows
  PROVE  HeadList(l)'
<1>1. \A k \in DOMAIN l : HeadTask(l[k])'
  BY ReachedGrows DEF HeadList, HeadTask
<1>2. ASSUME NEW n \in Nodes, NEW j \in Jobs PROVE TaskOrder(l, n, j)'
  BY DEF HeadList, TaskOrder, Grows
<1>3. QED BY <1>1, <1>2 DEF HeadList

\* The first task is done.
LEMMA HeadListTail ==
  ASSUME NEW l, IsSeq(l), HeadList(l), l # << >>, Grows,
         \A n \in Nodes, j \in Jobs : WillBring(Head(l), n, j) => Arriving(n, j)'
  PROVE  HeadList(Tail(l))'
<1>1. /\ IsSeq(Tail(l)) /\ Head(l) = l[1] /\ DOMAIN Tail(l) = 1 .. Len(l) - 1
      /\ \A k \in 1 .. Len(l) - 1 : k + 1 \in DOMAIN l /\ Tail(l)[k] = l[k + 1]
      /\ DOMAIN l = 1 .. Len(l) /\ Len(l) \in Nat
  BY SeqTail, SeqLen
<1>2. PICK u : u = Tail(l)
  OBVIOUS
<1>3. \A k \in DOMAIN u : HeadTask(u[k])'
  BY <1>1, <1>2, ReachedGrows DEF HeadList, HeadTask
<1>4. ASSUME NEW n \in Nodes, NEW j \in Jobs PROVE TaskOrder(u, n, j)'
  <2>1. SUFFICES ASSUME NEW k \in DOMAIN u, u[k].do = "tx_packet" /\ u[k].to = n /\ Commands(u[k].packet, j),
                        ~Arriving(n, j)'
                 PROVE  \E i \in 1 .. k - 1 : WillBring(u[i], n, j)
    BY DEF TaskOrder, Commands, WillBring, Brings, Input
  <2>2. k + 1 \in DOMAIN l /\ u[k] = l[k + 1] /\ ~Arriving(n, j)
    BY <1>1, <1>2, <2>1 DEF Grows
  <2>3. PICK i \in 1 .. (k + 1) - 1 : WillBring(l[i], n, j)
    BY <2>1, <2>2 DEF HeadList, TaskOrder
  <2>4. i # 1
    BY <1>1, <2>1, <2>3
  <2>5. i - 1 \in 1 .. k - 1 /\ i - 1 \in 1 .. Len(l) - 1 /\ (i - 1) + 1 = i
    BY <1>1, <1>2, <2>3, <2>4
  <2>6. QED BY <1>1, <1>2, <2>3, <2>5
<1>5. HeadList(u)'
  BY <1>3, <1>4 DEF HeadList
<1>6. QED BY <1>2, <1>5

LEMMA SuitsGrows ==
  ASSUME NEW t, NEW l, Suits(t, l), Grows PROVE Suits(t, l)'
<1>1. IsSeq(l)' /\ \A c \in Conns : t = Rx(c) => HeadList(l)'
  BY HeadListGrows DEF Suits, IsSeq
<1>2. \A n \in Nodes : t = Loop(n) =>
        (l # <<>> => Connected(n)') /\ \A k \in DOMAIN l : LoopTask(l[k])'
  BY DEF Suits, Grows, LoopTask
<1>3. \A n \in Nodes, j \in Jobs : t = Exec(n, j) =>
        (l # <<>> => Connected(n)') /\ \A k \in DOMAIN l : k = 1 /\ ExecTask(l[k], j)'
  BY DEF Suits, Grows, ExecTask, Input
<1>4. QED BY <1>1, <1>2, <1>3 DEF Suits

\* Thread t has the tasks l after the step, the others go on with theirs.
TodoIs(t, l) ==
  /\ DOMAIN todo' = DOMAIN todo /\ todo'[t] = l
  /\ \A s \in Threads : s # t => todo'[s] = todo[s]

LEMMA AssignedStep ==
  ASSUME Assigned, Grows, NEW t \in Threads, NEW l, TodoIs(t, l), Suits(t, l)'
  PROVE  Assigned'
<1>1. ASSUME NEW s \in Threads PROVE Suits(s, todo[s])'
  <2>1. PICK u : u = todo'[s]
    OBVIOUS
  <2>2. CASE s = t
    <3>1. u = l
      BY <2>1, <2>2 DEF TodoIs
    <3>2. QED BY <2>1, <2>2, <3>1
  <2>3. CASE s # t
    <3>1. u = todo[s]
      BY <2>1, <2>3 DEF TodoIs
    <3>2. Suits(s, u)
      BY <3>1 DEF Assigned
    <3>3. Suits(s, u)'
      BY <3>2, SuitsGrows
    <3>4. QED BY <2>1, <3>3
  <2>4. QED BY <2>2, <2>3
<1>2. DOMAIN todo' = Threads
  BY DEF TodoIs, Assigned
<1>3. QED BY <1>1, <1>2 DEF Assigned

-----------------------------------------------------------------------------
(* Commands and input in the streams.                                       *)

\* A packet is taken off, and kept when it is a file.
LEMMA PoppedOrder ==
  ASSUME NEW n \in Nodes, NEW j \in Jobs,
         IsSeq(toPeer[n]), Whole(toPeer[n]), Len(toPeer[n]) >= 2,
         toPeer'[n] = SubSeq(toPeer[n], 3, Len(toPeer[n])),
         store[n] \subseteq store'[n],
         Packet(toPeer[n]).id = "gpvdmfile" => Packet(toPeer[n]).file \in store'[n]
  PROVE  /\ Arriving(n, j) => Arriving(n, j)'
         /\ StreamOrder(n, j) => StreamOrder(n, j)'
<1>1. PICK r : r = toPeer[n]
  OBVIOUS
<1>2. PICK u : u = toPeer'[n]
  OBVIOUS
<1>3. /\ IsSeq(u) /\ DOMAIN u = 1 .. Len(r) - 2
      /\ \A k \in DOMAIN u : k + 2 \in DOMAIN r /\ u[k] = r[k + 2]
      /\ 1 \in DOMAIN r /\ 2 \in DOMAIN r /\ r[2].packet = r[1].packet
  <2>1. IsSeq(r) /\ Whole(r) /\ Len(r) >= 2 /\ u = SubSeq(r, 3, Len(r))
    BY <1>1, <1>2
  <2>2. QED BY <2>1, WholeRest
<1>4. Len(r) \in Nat /\ DOMAIN r = 1 .. Len(r)
  BY <1>1, SeqLen
<1>5. ASSUME NEW i \in DOMAIN r, Brings(r[i].packet, j)
      PROVE  Input(j) \in store'[n] \/ (i - 2 \in DOMAIN u /\ u[i - 2] = r[i])
  <2>1. CASE i = 1 \/ i = 2
    BY <1>1, <1>3, <1>5, <2>1 DEF Brings, Packet
  <2>2. CASE i # 1 /\ i # 2
    <3>1. i - 2 \in DOMAIN u /\ (i - 2) + 2 = i
      BY <1>3, <1>4, <2>2
    <3>2. QED BY <1>3, <3>1
  <2>3. QED BY <2>1, <2>2
<1>6. ASSUME Arriving(n, j) PROVE Arriving(n, j)'
  <2>1. CASE Input(j) \in store[n]
    BY <2>1 DEF Arriving, Input
  <2>2. CASE \E i \in DOMAIN r : Brings(r[i].packet, j)
    <3>1. PICK i \in DOMAIN r : Brings(r[i].packet, j)
      BY <2>2
    <3>2. CASE Input(j) \in store'[n]
      BY <3>2 DEF Arriving, Input
    <3>3. CASE i - 2 \in DOMAIN u /\ u[i - 2] = r[i]
      <4>1. \E k \in DOMAIN u : Brings(u[k].packet, j)
        BY <3>1, <3>3
      <4>2. \E k \in DOMAIN toPeer'[n] : Brings(toPeer'[n][k].packet, j)
        BY <1>2, <4>1
      <4>3. QED BY <4>2 DEF Arriving, Brings, Input
    <3>4. QED BY <1>5, <3>1, <3>2, <3>3
  <2>3. QED BY <1>1, <1>6, <2>1, <2>2 DEF Arriving
<1>7. ASSUME StreamOrder(n, j) PROVE StreamOrder(n, j)'
  <2>1. \A k \in DOMAIN r : Commands(r[k].packet, j) =>
          Input(j) \in store[n] \/ \E i \in 1 .. k - 1 : Brings(r[i].packet, j)
    BY <1>1, <1>7 DEF StreamOrder
  <2>2. ASSUME NEW k \in DOMAIN u, Commands(u[k].packet, j)
        PROVE  Input(j) \in store'[n] \/ \E i \in 1 .. k - 1 : Brings(u[i].packet, j)
    <3>1. k + 2 \in DOMAIN r /\ u[k] = r[k + 2]
      BY <1>3
    <3>2. CASE Input(j) \in store[n]
      BY <3>2
    <3>3. CASE \E i \in 1 .. (k + 2) - 1 : Brings(r[i].packet, j)
      <4>1. PICK i \in 1 .. (k + 2) - 1 : Brings(r[i].packet, j)
        BY <3>3
      <4>2. i \in DOMAIN r
        BY <1>3, <1>4, <3>1
      <4>3. i - 2 \in DOMAIN u => i - 2 \in 1 .. k - 1
        BY <1>3, <1>4
      <4>4. QED BY <1>5, <4>1, <4>2, <4>3
    <3>4. QED BY <2>1, <2>2, <3>1, <3>2, <3>3
  <2>3. QED BY <1>2, <2>2 DEF StreamOrder, Input, Brings, Commands
<1>8. QED BY <1>6, <1>7

\* Pieces of a packet are added; a command only when its input is there or on its way.
LEMMA AppendedOrder ==
  ASSUME NEW n \in Nodes, NEW j \in Jobs, NEW q, NEW p,
         IsSeq(toPeer[n]), IsSeq(q), q # << >>, \A k \in DOMAIN q : q[k].packet = p,
         toPeer'[n] = toPeer[n] \o q, store'[n] = store[n],
         Commands(p, j) => Arriving(n, j)
  PROVE  /\ Arriving(n, j) => Arriving(n, j)'
         /\ StreamOrder(n, j) => StreamOrder(n, j)'
         /\ Brings(p, j) => Arriving(n, j)'
<1>1. PICK r : r = toPeer[n]
  OBVIOUS
<1>2. PICK u : u = toPeer'[n]
  OBVIOUS
<1>3. /\ Len(r) \in Nat /\ DOMAIN r = 1 .. Len(r)
      /\ Len(q) \in Nat /\ DOMAIN q = 1 .. Len(q) /\ Len(q) # 0
  BY <1>1, SeqLen
<1>4. /\ DOMAIN u = 1 .. Len(r) + Len(q)
      /\ \A k \in DOMAIN u : u[k] = IF k <= Len(r) THEN r[k] ELSE q[k - Len(r)]
  BY <1>1, <1>2, SeqConcat
<1>5. \A k \in DOMAIN r : k \in DOMAIN u /\ u[k] = r[k]
  <2>1. \A k \in DOMAIN r : k \in DOMAIN u /\ k <= Len(r)
    BY <1>3, <1>4
  <2>2. QED BY <1>4, <2>1
<1>6. \A k \in DOMAIN u : k \in DOMAIN r \/ (k > Len(r) /\ u[k].packet = p)
  <2>1. \A k \in DOMAIN u : k \in DOMAIN r \/ (k > Len(r) /\ ~(k <= Len(r)) /\ k - Len(r) \in DOMAIN q)
    BY <1>3, <1>4
  <2>2. QED BY <1>4, <2>1
<1>7. ASSUME \E k \in DOMAIN u : Brings(u[k].packet, j) PROVE Arriving(n, j)'
  <2>1. \E k \in DOMAIN toPeer'[n] : Brings(toPeer'[n][k].packet, j)
    BY <1>2, <1>7
  <2>2. QED BY <2>1 DEF Arriving, Brings, Input
<1>8. ASSUME Arriving(n, j) PROVE Arriving(n, j)'
  <2>1. CASE Input(j) \in store[n]
    BY <2>1 DEF Arriving, Input
  <2>2. CASE \E i \in DOMAIN r : Brings(r[i].packet, j)
    BY <1>5, <1>7, <2>2
  <2>3. QED BY <1>1, <1>8, <2>1, <2>2 DEF Arriving
<1>9. ASSUME StreamOrder(n, j) PROVE StreamOrder(n, j)'
  <2>1. \A k \in DOMAIN r : Commands(r[k].packet, j) =>
          Input(j) \in store[n] \/ \E i \in 1 .. k - 1 : Brings(r[i].packet, j)
    BY <1>1, <1>9 DEF StreamOrder
  <2>2. ASSUME NEW k \in DOMAIN u, Commands(u[k].packet, j)
        PROVE  Input(j) \in store'[n] \/ \E i \in 1 .. k - 1 : Brings(u[i].packet, j)
    <3>1. CASE k \in DOMAIN r
      <4>1. \A i \in 1 .. k - 1 : i \in DOMAIN r
        BY <1>3, <3>1
      <4>2. QED BY <1>5, <2>1, <2>2, <3>1, <4>1
    <3>2. CASE k > Len(r) /\ u[k].packet = p
      <4>1. Input(j) \in store[n] \/ \E i \in DOMAIN r : Brings(r[i].packet, j)
        BY <1>1, <2>2, <3>2 DEF Arriving
      <4>2. \A i \in DOMAIN r : i \in 1 .. k - 1
        BY <1>3, <1>4, <3>2
      <4>3. QED BY <1>5, <4>1, <4>2
    <3>3. QED BY <1>6, <3>1, <3>2
  <2>3. QED BY <1>2, <2>2 DEF StreamOrder, Input, Brings, Commands
<1>10. ASSUME Brings(p, j) PROVE Arriving(n, j)'
  <2>1. Len(r) + 1 \in DOMAIN u /\ ~(Len(r) + 1 \in DOMAIN r)
    BY <1>3, <1>4
  <2>2. QED BY <1>6, <1>7, <1>10, <2>1
<1>11. QED BY <1>8, <1>9, <1>10

-----------------------------------------------------------------------------
(* Steps that send nothing.                                                 *)

\* u is s, or what is left of it when the first packet is taken off.
Left(s, u) == u = s \/ (Len(s) >= 2 /\ u = SubSeq(s, 3, Len(s)))
\* Nothing in it broken, and its end as it was.
Kept(s, u) ==
  /\ IsSeq(u) /\ Whole(u) /\ (Odd(u) <=> Odd(s)) /\ (Odd(s) => u[Len(u)] = s[Len(s)])
  /\ u # << >> => s # << >>

LEMMA LeftKept ==
  ASSUME NEW s, IsSeq(s), Whole(s), NEW u, Left(s, u) PROVE Kept(s, u)
<1>1. CASE u = s
  BY <1>1 DEF Kept
<1>2. CASE Len(s) >= 2 /\ u = SubSeq(s, 3, Len(s))
  <2>1. s # << >>
    BY <1>2, SeqLen
  <2>2. QED BY <1>2, <2>1, WholeRest DEF Kept
<1>3. QED BY <1>1, <1>2 DEF Left

Taken ==
  /\ DOMAIN toHead' = DOMAIN toHead /\ DOMAIN toPeer' = DOMAIN toPeer
  /\ \A c \in Conns : Left(toHead[c], toHead'[c]) /\ Left(toPeer[c], toPeer'[c])
\* A node keeps the file it takes.
FilesKept ==
  /\ DOMAIN store' = DOMAIN store
  /\ \A m \in DOMAIN store : store[m] \subseteq store'[m] /\ IsFiniteSet(store'[m])
  /\ \A n \in Nodes : toPeer'[n] # toPeer[n] /\ Packet(toPeer[n]).id = "gpvdmfile" =>
       Packet(toPeer[n]).file \in store'[n]

LEMMA TakenGrows ==
  ASSUME TransferInv, Taken, FilesKept, UNCHANGED accepting
  PROVE  Grows /\ Inputs'
<1>1. \A n \in Nodes : n \in Conns /\ n \in DOMAIN store
  BY DEF Conns, TransferInv, Shapes
<1>2. \A n \in Nodes : Connected(n) => Connected(n)'
  BY DEF accepting, Connected
<1>3. ASSUME NEW n \in Nodes, NEW j \in Jobs
      PROVE  (Arriving(n, j) => Arriving(n, j)') /\ StreamOrder(n, j)'
  <2>1. StreamOrder(n, j) /\ IsSeq(toPeer[n]) /\ Whole(toPeer[n])
    BY <1>1 DEF TransferInv, Inputs, Shapes, WholePackets
  <2>2. store[n] \subseteq store'[n]
    BY <1>1 DEF FilesKept
  <2>3. CASE toPeer'[n] = toPeer[n]
    <3>1. Arriving(n, j) => Arriving(n, j)'
      BY <2>2, <2>3 DEF Arriving, Input, Brings
    <3>2. StreamOrder(n, j)'
      BY <2>1, <2>2, <2>3 DEF StreamOrder, Input, Brings, Commands
    <3>3. QED BY <3>1, <3>2
  <2>4. CASE toPeer'[n] # toPeer[n]
    <3>1. Len(toPeer[n]) >= 2 /\ toPeer'[n] = SubSeq(toPeer[n], 3, Len(toPeer[n]))
      BY <1>1, <2>4 DEF Taken, Left
    <3>2. Packet(toPeer[n]).id = "gpvdmfile" => Packet(toPeer[n]).file \in store'[n]
      BY <2>4 DEF FilesKept
    <3>3. QED BY <2>1, <2>2, <3>1, <3>2, PoppedOrder
  <2>5. QED BY <2>3, <2>4
<1>4. QED BY <1>2, <1>3 DEF Grows, Inputs

\* A thread that is not in the middle of a packet has other tasks after the step.
LEMMA TakeStep ==
  ASSUME TransferInv, Taken, FilesKept, UNCHANGED <<accepting, half>>,
         NEW t \in Threads, t \notin half, NEW l, TodoIs(t, l), Suits(t, l),
         node' \subseteq Reached, DOMAIN ip' = Jobs, \A j \in Jobs : ip'[j] \in Reached
  PROVE  TransferInv'
<1>1. Grows /\ Inputs'
  BY TakenGrows
<1>2. Assigned'
  <2>1. Suits(t, l)'
    BY <1>1, SuitsGrows
  <2>2. QED BY <1>1, <2>1, AssignedStep DEF TransferInv
<1>3. \A c \in Conns : Kept(toHead[c], toHead'[c]) /\ Kept(toPeer[c], toPeer'[c])
  <2>1. \A c \in Conns : IsSeq(toHead[c]) /\ Whole(toHead[c]) /\ IsSeq(toPeer[c]) /\ Whole(toPeer[c])
    BY DEF TransferInv, Shapes, WholePackets
  <2>2. \A c \in Conns : Left(toHead[c], toHead'[c]) /\ Left(toPeer[c], toPeer'[c])
    BY DEF Taken
  <2>3. QED BY <2>1, <2>2, LeftKept
<1>4. WholePackets'
  BY <1>3 DEF WholePackets, Kept
<1>5. Shapes'
  <2>1. \A c \in Conns : IsSeq(toHead[c])' /\ IsSeq(toPeer[c])'
    BY <1>3 DEF Kept
  <2>2. backlog' \subseteq Conns /\ nsockfd' \in Conns \cup {None}
        /\ DOMAIN sock' = Conns /\ \A c \in Conns : sock'[c] # None => nsockfd' # None
    BY DEF TransferInv, Shapes, accepting
  <2>3. DOMAIN toHead' = Conns /\ DOMAIN toPeer' = Conns
    BY DEF TransferInv, Shapes, Taken
  <2>4. DOMAIN store' = Conns \cup {"head"} /\ \A m \in DOMAIN store' : IsFiniteSet(store'[m])
    BY DEF TransferInv, Shapes, FilesKept
  <2>5. \A j \in Jobs : Input(j)' \in store'["head"]
    <3>1. \A j \in Jobs : Input(j) \in store["head"]
      BY DEF TransferInv, Shapes
    <3>2. store["head"] \subseteq store'["head"]
      BY DEF TransferInv, Shapes, FilesKept
    <3>3. QED BY <3>1, <3>2 DEF Input
  <2>6. QED BY <2>1, <2>2, <2>3, <2>4, <2>5 DEF Shapes
<1>6. KnownFirst'
  <2>1. \A n \in Nodes : Connected(n)' <=> Connected(n)
    BY DEF accepting, Connected
  <2>2. \A n \in Reached : n \in Reached'
    BY <1>1, ReachedGrows
  <2>3. \A n \in Nodes : n \in Conns
    BY DEF Conns
  <2>4. \A n \in Nodes : toHead'[n] # << >> \/ toPeer'[n] # << >> => Connected(n)'
    BY <1>3, <2>1, <2>3 DEF TransferInv, KnownFirst, Kept
  <2>5. QED BY <2>2, <2>4 DEF KnownFirst
<1>7. Halves'
  <2>1. \A s \in half : s \in Threads /\ todo'[s] = todo[s]
    <3>1. \A s \in half : s \in Threads /\ s # t
      BY ThreadNames DEF TransferInv, Halves
    <3>2. QED BY <3>1 DEF TodoIs
  <2>2. half' = half
    OBVIOUS
  <2>3. ASSUME NEW s \in half, NEW w, NEW u, HalfOf(s, w), Kept(w, u)
        PROVE  HalfOf(s, u)'
    BY <2>1, <2>3 DEF HalfOf, Task, Ends, Kept, Odd
  <2>4. ASSUME NEW n \in Nodes, Loop(n) \in half PROVE HalfOf(Loop(n), toHead[n])'
    <3>1. PICK u : u = toHead'[n]
      OBVIOUS
    <3>2. HalfOf(Loop(n), toHead[n]) /\ Kept(toHead[n], u)
      BY <1>3, <2>4, <3>1 DEF TransferInv, Halves, Conns
    <3>3. HalfOf(Loop(n), u)'
      BY <2>3, <2>4, <3>2
    <3>4. QED BY <3>1, <3>3 DEF HalfOf
  <2>5. ASSUME NEW c \in Conns, Rx(c) \in half
        PROVE  \E d \in Conns : Head(todo'[Rx(c)]).to = d /\ HalfOf(Rx(c), toPeer[d])'
    <3>1. PICK d \in Conns : Head(todo[Rx(c)]).to = d /\ HalfOf(Rx(c), toPeer[d])
      BY <2>5 DEF TransferInv, Halves
    <3>2. PICK u : u = toPeer'[d]
      OBVIOUS
    <3>3. HalfOf(Rx(c), u)'
      BY <1>3, <2>3, <2>5, <3>1, <3>2
    <3>4. QED BY <2>1, <2>5, <3>1, <3>2, <3>3 DEF HalfOf
  <2>6. \A c \in Conns : Odd(toHead[c])' => c \in Nodes /\ Loop(c) \in half
    BY <1>3 DEF TransferInv, Halves, Kept, Odd
  <2>7. ASSUME NEW c \in Conns, Odd(toPeer[c])'
        PROVE  \E d \in Conns : Rx(d) \in half /\ Head(todo'[Rx(d)]).to = c
    <3>1. Odd(toPeer[c])
      BY <1>3, <2>7 DEF Kept, Odd
    <3>2. PICK d \in Conns : Rx(d) \in half /\ Head(todo[Rx(d)]).to = c
      BY <3>1 DEF TransferInv, Halves
    <3>3. QED BY <2>1, <3>2
  <2>8. /\ half \subseteq {Rx(c) : c \in Conns} \cup {Loop(n) : n \in Nodes}
        /\ \A s, u \in half : Program(s) = Program(u) => s = u
    BY DEF TransferInv, Halves
  <2>9. QED BY <2>2, <2>4, <2>5, <2>6, <2>7, <2>8 DEF Halves, Rx, Loop, Program
<1>8. QED BY <1>1, <1>2, <1>4, <1>5, <1>6, <1>7 DEF TransferInv

\* What the following steps share: no stream changes, or no file does.
LEMMA TodoUpdate ==
  ASSUME TransferInv, NEW t \in Threads, NEW l, todo' = [todo EXCEPT ![t] = l]
  PROVE  TodoIs(t, l)
BY DEF TransferInv, Assigned, TodoIs

LEMMA StreamsSame ==
  ASSUME TransferInv, UNCHANGED <<toHead, toPeer>> PROVE Taken
BY DEF Taken, Left

LEMMA StoreSame ==
  ASSUME TransferInv, UNCHANGED <<toPeer, store>> PROVE FilesKept
BY DEF FilesKept, TransferInv, Shapes

LEMMA TableSame ==
  ASSUME TransferInv, UNCHANGED <<node, ip>>
  PROVE  node' \subseteq Reached /\ DOMAIN ip' = Jobs /\ \A j \in Jobs : ip'[j] \in Reached
BY DEF TransferInv, KnownFirst

\* A task of another kind than tx_packet is not in the middle of a packet.
LEMMA NotHalf ==
  ASSUME TransferInv, NEW t \in Threads, ~Task(t, "tx_packet") PROVE t \notin half
<1> SUFFICES ASSUME t \in half PROVE FALSE
  OBVIOUS
<1>1. CASE \E c \in Conns : t = Rx(c)
  BY <1>1 DEF TransferInv, Halves, HalfOf
<1>2. CASE \E n \in Nodes : t = Loop(n)
  BY <1>2 DEF TransferInv, Halves, HalfOf
<1>3. QED BY <1>1, <1>2 DEF TransferInv, Halves

LEMMA SuitsNow ==
  ASSUME TransferInv, NEW t \in Threads PROVE Suits(t, todo[t]) /\ IsSeq(todo[t])
BY DEF TransferInv, Assigned, Suits

\* A list for a thread of the head.
LEMMA SuitsHead ==
  ASSUME NEW c \in Conns, NEW l, IsSeq(l), HeadList(l) PROVE Suits(Rx(c), l)
BY ThreadsDiffer DEF Suits

LEMMA SuitsLoop ==
  ASSUME NEW n \in Nodes, NEW l, IsSeq(l), Connected(n), \A k \in DOMAIN l : LoopTask(l[k])
  PROVE  Suits(Loop(n), l)
BY ThreadsDiffer DEF Suits

LEMMA SuitsExec ==
  ASSUME NEW n \in Nodes, NEW j \in Jobs, NEW l, IsSeq(l), Connected(n),
         \A k \in DOMAIN l : k = 1 /\ ExecTask(l[k], j)
  PROVE  Suits(Exec(n, j), l)
BY ThreadsDiffer DEF Suits

\* What is left of a list without its first task, which brings nothing.
LEMMA HeadRest ==
  ASSUME TransferInv, NEW c \in Conns, todo[Rx(c)] # << >>,
         Head(todo[Rx(c)]).do \notin {"send_dir", "tx_packet"}
  PROVE  Suits(Rx(c), Rest(Rx(c)))
<1>1. PICK l : l = todo[Rx(c)]
  OBVIOUS
<1>2. IsSeq(l) /\ HeadList(l) /\ l # << >>
  BY <1>1, SuitsNow, ThreadNames DEF Suits
<1>3. IsSeq(<< >>) /\ HeadList(<< >>)
  <2>1. PICK e : e = << >>
    OBVIOUS
  <2>2. IsSeq(e)
    BY <2>1, EmptySeq, ASeq
  <2>3. DOMAIN e = {}
    <3>1. Len(e) = 0 /\ DOMAIN e = 1 .. Len(e)
      BY ONLY <2>1, <2>2, SeqLen
    <3>2. QED BY <3>1
  <2>4. HeadList(e)
    BY <2>3, HeadListPlain
  <2>5. QED BY <2>1, <2>2, <2>4
<1>4. \A n \in Nodes, j \in Jobs : ~WillBring(Head(l), n, j)
  BY <1>1 DEF WillBring
<1>5. IsSeq(<< >> \o Tail(l)) /\ HeadList(<< >> \o Tail(l))
  BY <1>2, <1>3, <1>4, HeadListReplace
<1>6. << >> \o Tail(l) = Tail(l)
  <2>1. IsSeq(Tail(l))
    BY <1>2, SeqTail
  <2>2. PICK S : Tail(l) \in Seq(S)
    BY <2>1 DEF IsSeq
  <2>3. QED BY <2>2, ConcatEmptySeq
<1>7. QED BY <1>1, <1>5, <1>6, SuitsHead DEF Rest

LEMMA StepFwrite ==
  ASSUME TransferInv, NEW c \in Conns, fwrite(Rx(c)) PROVE TransferInv'
<1>1. Rx(c) \in Threads
  BY ThreadNames
<1>2. todo[Rx(c)] # << >> /\ Head(todo[Rx(c)]).do = "fwrite"
  BY DEF fwrite, Task
<1>3. TodoIs(Rx(c), Rest(Rx(c))) /\ Suits(Rx(c), Rest(Rx(c))) /\ Rx(c) \notin half
  BY <1>1, <1>2, TodoUpdate, HeadRest, NotHalf DEF fwrite, Task
<1>4. FilesKept
  <2>1. PICK f : store' = [store EXCEPT !["head"] = @ \cup {f}]
    BY DEF fwrite
  <2>2. DOMAIN store = Conns \cup {"head"} /\ \A m \in DOMAIN store : IsFiniteSet(store[m])
    BY DEF TransferInv, Shapes
  <2>3. IsFiniteSet(store["head"] \cup {f})
    <3>1. PICK H : H = store["head"]
      OBVIOUS
    <3>2. IsFiniteSet(H)
      BY <2>2, <3>1
    <3>3. IsFiniteSet(H \cup {f})
      BY ONLY <3>2, FS_AddElement
    <3>4. QED BY <3>1, <3>3
  <2>4. UNCHANGED toPeer
    BY DEF fwrite, net
  <2>5. QED BY <2>1, <2>2, <2>3, <2>4 DEF FilesKept
<1>5. Taken /\ node' \subseteq Reached /\ DOMAIN ip' = Jobs /\ \A j \in Jobs : ip'[j] \in Reached
  BY StreamsSame, TableSame DEF fwrite, net, table, jobs
<1>6. UNCHANGED <<accepting, half>>
  BY DEF fwrite, net
<1>7. QED BY <1>1, <1>3, <1>4, <1>5, <1>6, TakeStep

LEMMA StepBooks ==
  ASSUME TransferInv, NEW c \in Conns, Started(Rx(c)) \/ SetCopied(Rx(c)) PROVE TransferInv'
<1>1. Rx(c) \in Threads
  BY ThreadNames
<1>2. todo[Rx(c)] # << >> /\ Head(todo[Rx(c)]).do \in {"status", "copy_state"}
  BY DEF Started, SetCopied, Task
<1>3. TodoIs(Rx(c), Rest(Rx(c))) /\ Suits(Rx(c), Rest(Rx(c))) /\ Rx(c) \notin half
  BY <1>1, <1>2, TodoUpdate, HeadRest, NotHalf DEF Started, SetCopied, Task
<1>4. Taken /\ FilesKept /\ UNCHANGED <<accepting, half>>
  BY StreamsSame, StoreSame DEF Started, SetCopied, net
<1>5. node' \subseteq Reached /\ DOMAIN ip' = Jobs /\ \A j \in Jobs : ip'[j] \in Reached
  <2>1. CASE SetCopied(Rx(c))
    BY <2>1, TableSame DEF SetCopied, table
  <2>2. CASE Started(Rx(c))
    <3>1. PICK r : r = Head(todo[Rx(c)])
      OBVIOUS
    <3>2. r.do = "status" /\ node' = node /\ ip' = [ip EXCEPT ![r.job] = r.node]
      BY <2>2, <3>1 DEF Started, Task
    <3>3. r.node \in Reached
      <4>1. HeadList(todo[Rx(c)]) /\ IsSeq(todo[Rx(c)])
        BY <1>1, SuitsNow DEF Suits
      <4>2. 1 \in DOMAIN todo[Rx(c)] /\ r = todo[Rx(c)][1]
        BY <1>2, <3>1, <4>1, SeqTail
      <4>3. QED BY <3>2, <4>1, <4>2 DEF HeadList, HeadTask
    <3>4. QED BY <3>2, <3>3 DEF TransferInv, KnownFirst
  <2>3. QED BY <2>1, <2>2
<1>6. QED BY <1>1, <1>3, <1>4, <1>5, TakeStep

LEMMA StepRunJobs ==
  ASSUME TransferInv, NEW c \in Conns, run_jobs(Rx(c)) PROVE TransferInv'
<1>1. Rx(c) \in Threads
  BY ThreadNames
<1>2. todo[Rx(c)] # << >> /\ Head(todo[Rx(c)]).do = "run_jobs"
  BY DEF run_jobs, Task
<1>3. /\ Rx(c) \notin half /\ Taken /\ FilesKept /\ UNCHANGED <<accepting, half>>
      /\ node' \subseteq Reached /\ DOMAIN ip' = Jobs /\ \A j \in Jobs : ip'[j] \in Reached
  BY <1>1, <1>2, NotHalf, StreamsSame, StoreSame, TableSame DEF run_jobs, net, table, jobs, Task
<1>4. \E l : TodoIs(Rx(c), l) /\ Suits(Rx(c), l)
  <2>1. CASE todo' = [todo EXCEPT ![Rx(c)] = Rest(Rx(c))]
    BY <1>1, <1>2, <2>1, TodoUpdate, HeadRest
  <2>2. CASE \E n \in Idle : todo' = [todo EXCEPT ![Rx(c)] = JobTasks(n, First(Waiting)) \o Rest(Rx(c))]
    <3>1. PICK n \in Idle : todo' = [todo EXCEPT ![Rx(c)] = JobTasks(n, First(Waiting)) \o Rest(Rx(c))]
      BY <2>2
    <3>2. PICK i : i = First(Waiting)
      OBVIOUS
    <3>3. PICK l1 : l1 = JobTasks(n, i)
      OBVIOUS
    <3>4. n \in Reached
      BY DEF Idle, TransferInv, KnownFirst
    <3>5. /\ l1 = <<SendDir(n, i), Tx(n, OfJob("gpvdmcommand", i)), Ran(i, n), RunJobs>>
          /\ IsSeq(l1) /\ DOMAIN l1 = 1 .. 4
      <4>1. PICK x : x = SendDir(n, i)
        OBVIOUS
      <4>2. PICK y : y = Tx(n, OfJob("gpvdmcommand", i))
        OBVIOUS
      <4>3. PICK z : z = Ran(i, n)
        OBVIOUS
      <4>4. PICK w : w = RunJobs
        OBVIOUS
      <4>5. l1 = <<x, y, z, w>>
        BY <3>3, <4>1, <4>2, <4>3, <4>4 DEF JobTasks
      <4>6. IsSeq(l1)
        BY <4>5, SeqTuples
      <4>7. DOMAIN l1 = 1 .. 4
        BY ONLY <4>5
      <4>8. QED BY <4>1, <4>2, <4>3, <4>4, <4>5, <4>6, <4>7
    <3>6. /\ l1[1] = SendDir(n, i) /\ l1[2] = Tx(n, OfJob("gpvdmcommand", i))
          /\ l1[3] = Ran(i, n) /\ l1[4] = RunJobs
      BY <3>5
    <3>7. \A k \in DOMAIN l1 : k = 1 \/ k = 2 \/ k = 3 \/ k = 4
      BY <3>5
    <3>8. HeadList(l1)
      <4>1. \A k \in DOMAIN l1 : HeadTask(l1[k])
        BY <3>4, <3>6, <3>7 DEF HeadTask, SendDir, Tx, Ran, RunJobs
      <4>2. ASSUME NEW m \in Nodes, NEW j \in Jobs PROVE TaskOrder(l1, m, j)
        <5>1. SUFFICES ASSUME NEW k \in DOMAIN l1, l1[k].do = "tx_packet" /\ l1[k].to = m /\ Commands(l1[k].packet, j)
                       PROVE  \E h \in 1 .. k - 1 : WillBring(l1[h], m, j)
          BY DEF TaskOrder
        <5>2. k = 2
          BY <3>6, <3>7, <5>1 DEF SendDir, Ran, RunJobs
        <5>3. m = n /\ j = i
          BY <3>6, <5>1, <5>2 DEF Tx, OfJob, Commands
        <5>4. WillBring(l1[1], m, j)
          BY <3>6, <5>3 DEF WillBring, SendDir
        <5>5. QED BY <5>2, <5>4
      <4>3. QED BY <4>1, <4>2 DEF HeadList
    <3>9. PICK l : l = todo[Rx(c)]
      OBVIOUS
    <3>10. IsSeq(l) /\ HeadList(l) /\ l # << >> /\ \A m \in Nodes, j \in Jobs : ~WillBring(Head(l), m, j)
      BY <1>1, <1>2, <3>9, SuitsNow DEF Suits, WillBring
    <3>11. IsSeq(l1 \o Tail(l)) /\ HeadList(l1 \o Tail(l))
      BY <3>5, <3>8, <3>10, HeadListReplace
    <3>12. TodoIs(Rx(c), l1 \o Tail(l))
      BY <1>1, <3>1, <3>2, <3>3, <3>9, TodoUpdate DEF Rest
    <3>13. QED BY <3>11, <3>12, SuitsHead
  <2>3. QED BY <2>1, <2>2 DEF run_jobs
<1>5. QED BY <1>1, <1>3, <1>4, TakeStep

\* The packets send_dir makes of the files of a directory.
LEMMA DirPackets ==
  ASSUME TransferInv, NEW m \in DOMAIN store, NEW j, NEW to, NEW files, files = SetToSeq(Dir(m, j)),
         NEW l1, l1 = [k \in DOMAIN files |-> Tx(to, File(files[k]))]
  PROVE  /\ IsSeq(l1)
         /\ \A k \in DOMAIN l1 : /\ l1[k].do = "tx_packet" /\ l1[k].to = to
                                 /\ l1[k].packet.id = "gpvdmfile"
         /\ Input(j) \in store[m] => \E k \in DOMAIN l1 : Brings(l1[k].packet, j)
<1>1. IsFiniteSet(Dir(m, j))
  <2>1. IsFiniteSet(store[m]) /\ Dir(m, j) \subseteq store[m]
    BY DEF TransferInv, Shapes, Dir
  <2>2. QED BY <2>1, FS_Subset
<1>2. PICK n \in Nat : DOMAIN files = 1 .. n /\ \A f \in Dir(m, j) : \E k \in DOMAIN files : files[k] = f
  BY <1>1, Listed
<1>3. DOMAIN l1 = 1 .. n /\ \A k \in 1 .. n : l1[k] = Tx(to, File(files[k]))
  BY <1>2
<1>4. IsSeq(l1)
  <2>1. l1 = [k \in 1 .. n |-> l1[k]]
    BY <1>2, <1>3
  <2>2. QED BY <2>1, SeqFunction
<1>5. \A k \in DOMAIN l1 : l1[k].do = "tx_packet" /\ l1[k].to = to /\ l1[k].packet.id = "gpvdmfile"
                           /\ l1[k].packet.file = files[k]
  BY <1>3 DEF Tx, File
<1>6. ASSUME Input(j) \in store[m] PROVE \E k \in DOMAIN l1 : Brings(l1[k].packet, j)
  <2>1. Input(j) \in Dir(m, j)
    BY <1>6 DEF Dir, Input
  <2>2. PICK k \in DOMAIN files : files[k] = Input(j)
    BY <1>2, <2>1
  <2>3. QED BY <1>2, <1>3, <1>5, <2>2 DEF Brings
<1>7. QED BY <1>4, <1>5, <1>6

LEMMA StepSendDirHead ==
  ASSUME TransferInv, NEW c \in Conns, send_dir(Rx(c)) PROVE TransferInv'
<1>1. Rx(c) \in Threads /\ Program(Rx(c)) = "head" /\ "head" \in DOMAIN store
  BY ThreadNames DEF TransferInv, Shapes
<1>2. PICK l : l = todo[Rx(c)]
  OBVIOUS
<1>3. IsSeq(l) /\ HeadList(l) /\ l # << >> /\ Head(l).do = "send_dir"
  BY <1>1, <1>2, SuitsNow DEF Suits, send_dir, Task
<1>4. /\ Rx(c) \notin half /\ Taken /\ FilesKept /\ UNCHANGED <<accepting, half>>
      /\ node' \subseteq Reached /\ DOMAIN ip' = Jobs /\ \A j \in Jobs : ip'[j] \in Reached
  BY <1>1, <1>2, <1>3, NotHalf, StreamsSame, StoreSame, TableSame DEF send_dir, net, table, jobs, Task
<1>5. PICK d : d = Head(l)
  OBVIOUS
<1>6. PICK files : files = SetToSeq(Dir("head", d.job))
  OBVIOUS
<1>7. PICK l1 : l1 = [k \in DOMAIN files |-> Tx(d.to, File(files[k]))]
  OBVIOUS
<1>8. todo' = [todo EXCEPT ![Rx(c)] = l1 \o Tail(l)]
  BY <1>1, <1>2, <1>5, <1>6, <1>7 DEF send_dir, Rest
<1>9. /\ IsSeq(l1)
      /\ \A k \in DOMAIN l1 : l1[k].do = "tx_packet" /\ l1[k].to = d.to /\ l1[k].packet.id = "gpvdmfile"
      /\ Input(d.job) \in store["head"] => \E k \in DOMAIN l1 : Brings(l1[k].packet, d.job)
  BY <1>1, <1>6, <1>7, DirPackets
<1>10. d.to \in Reached
  <2>1. 1 \in DOMAIN l /\ d = l[1]
    BY <1>3, <1>5, SeqTail
  <2>2. QED BY <1>3, <1>5, <2>1 DEF HeadList, HeadTask
<1>11. HeadList(l1)
  <2>1. \A k \in DOMAIN l1 : HeadTask(l1[k]) /\ l1[k].packet.id # "gpvdmcommand"
    BY <1>9, <1>10 DEF HeadTask
  <2>2. QED BY <2>1, HeadListPlain
<1>12. ASSUME NEW n \in Nodes, NEW j \in Jobs, WillBring(Head(l), n, j)
       PROVE  \E i \in DOMAIN l1 : WillBring(l1[i], n, j)
  <2>1. d.to = n /\ d.job = j
    BY <1>3, <1>5, <1>12 DEF WillBring
  <2>2. Input(d.job) \in store["head"]
    BY <2>1 DEF TransferInv, Shapes
  <2>3. PICK k \in DOMAIN l1 : Brings(l1[k].packet, d.job)
    BY <1>9, <2>2
  <2>4. QED BY <1>9, <2>1, <2>3 DEF WillBring
<1>13. IsSeq(l1 \o Tail(l)) /\ HeadList(l1 \o Tail(l))
  BY <1>3, <1>9, <1>11, <1>12, HeadListReplace
<1>14. TodoIs(Rx(c), l1 \o Tail(l)) /\ Suits(Rx(c), l1 \o Tail(l))
  BY <1>1, <1>8, <1>13, TodoUpdate, SuitsHead
<1>15. QED BY <1>1, <1>4, <1>14, TakeStep

\* A message for the head.
LEMMA Received ==
  ASSUME TransferInv, NEW t \in Conns, NEW c \in Conns, NEW id, HeadGets(t, c, id)
  PROVE  /\ Taken /\ Rx(t) \in Threads /\ Rx(t) \notin half /\ UNCHANGED <<accepting, half, toPeer>>
         /\ todo[Rx(t)] = << >> /\ c \in Reached
<1>1. /\ Len(toHead[c]) >= 2 /\ toHead' = [toHead EXCEPT ![c] = SubSeq(toHead[c], 3, Len(toHead[c]))]
      /\ UNCHANGED <<accepting, half, toPeer>> /\ todo[Rx(t)] = << >>
  BY DEF HeadGets, Arrived
<1>2. Taken
  BY <1>1 DEF TransferInv, Shapes, Taken, Left
<1>3. Rx(t) \in Threads /\ Rx(t) \notin half
  BY <1>1, ThreadNames, NotHalf DEF Task
<1>4. toHead[c] # << >>
  BY <1>1, SeqLen DEF TransferInv, Shapes
<1>5. c \in Reached
  BY <1>4 DEF TransferInv, KnownFirst, Reached, Conns
<1>6. QED BY <1>1, <1>2, <1>3, <1>5

LEMMA StepRegister ==
  ASSUME TransferInv, NEW t \in Conns, NEW c \in Conns, cmp_addnode(t, c) \/ cmp_register_master(t, c)
  PROVE  TransferInv'
<1>1. \E id : HeadGets(t, c, id)
  BY DEF cmp_addnode, cmp_register_master
<1>2. /\ Taken /\ Rx(t) \in Threads /\ Rx(t) \notin half /\ UNCHANGED <<accepting, half, toPeer>>
      /\ c \in Reached
  BY <1>1, Received
<1>3. UNCHANGED <<todo, store, ip>> /\ node' \subseteq node \cup {c}
  BY DEF cmp_addnode, cmp_register_master, jobs
<1>4. TodoIs(Rx(t), todo[Rx(t)]) /\ Suits(Rx(t), todo[Rx(t)])
  BY <1>2, <1>3, SuitsNow DEF TodoIs
<1>5. node' \subseteq Reached /\ DOMAIN ip' = Jobs /\ \A j \in Jobs : ip'[j] \in Reached
  BY <1>2, <1>3 DEF TransferInv, KnownFirst
<1>6. FilesKept
  BY <1>2, <1>3, StoreSame
<1>7. QED BY <1>2, <1>4, <1>5, <1>6, TakeStep

\* A message that gives the thread a list of tasks without a command.
LEMMA HeadGiven ==
  ASSUME TransferInv, NEW t \in Conns, NEW c \in Conns, NEW id, HeadGets(t, c, id),
         NEW l, Then(Rx(t), l), UNCHANGED <<store, node, ip>>, IsSeq(l),
         \A k \in DOMAIN l : HeadTask(l[k]) /\ (l[k].do = "tx_packet" => l[k].packet.id # "gpvdmcommand")
  PROVE  TransferInv'
<1>1. /\ Taken /\ Rx(t) \in Threads /\ Rx(t) \notin half /\ UNCHANGED <<accepting, half, toPeer>>
  BY Received
<1>2. TodoIs(Rx(t), l) /\ Suits(Rx(t), l)
  BY <1>1, TodoUpdate, HeadListPlain, SuitsHead DEF Then
<1>3. FilesKept
  BY <1>1, StoreSame
<1>4. node' \subseteq Reached /\ DOMAIN ip' = Jobs /\ \A j \in Jobs : ip'[j] \in Reached
  BY TableSame
<1>5. QED BY <1>1, <1>2, <1>3, <1>4, TakeStep

LEMMA StepOrdered ==
  ASSUME TransferInv, NEW t \in Conns, NEW c \in Conns, cmp_runjobs(t, c) \/ cmp_simfinished(t, c)
  PROVE  TransferInv'
<1>1. /\ \E id : HeadGets(t, c, id)
      /\ Then(Rx(t), <<RunJobs>>) /\ UNCHANGED <<store, node, ip>>
  BY DEF cmp_runjobs, cmp_simfinished, table, jobs
<1>2. PICK x : x = RunJobs
  OBVIOUS
<1>3. IsSeq(<<x>>) /\ \A k \in DOMAIN <<x>> : <<x>>[k] = x
  <2>1. PICK w : w = <<x>>
    OBVIOUS
  <2>2. IsSeq(w) /\ DOMAIN w = 1 .. 1 /\ w[1] = x
    BY <2>1, SeqOne
  <2>3. QED BY <2>1, <2>2
<1>4. HeadTask(x) /\ x.do # "tx_packet"
  BY <1>2 DEF RunJobs, HeadTask
<1>5. QED BY <1>1, <1>2, <1>3, <1>4, HeadGiven

LEMMA StepRxFile ==
  ASSUME TransferInv, NEW t \in Conns, NEW c \in Conns, cmp_rxfile(t, c)
  PROVE  TransferInv'
<1>1. PICK x : x = Write(Packet(toHead[c]).file)
  OBVIOUS
<1>2. PICK y : y = Tx(GUI, Command("gpvdm_message"))
  OBVIOUS
<1>3. PICK m : m = send_message
  OBVIOUS
<1>4. HeadTask(x) /\ x.do # "tx_packet"
  BY <1>1 DEF Write, HeadTask
<1>5. HeadTask(y) /\ y.packet.id # "gpvdmcommand"
  BY <1>2 DEF Tx, Command, HeadTask, Reached
<1>6. IsSeq(m) /\ \A k \in DOMAIN m : m[k] = y
  <2>1. CASE m = << >>
    <3>1. IsSeq(m)
      BY <2>1, EmptySeq, ASeq
    <3>2. Len(m) = 0 /\ DOMAIN m = 1 .. Len(m)
      BY ONLY <2>1, <3>1, SeqLen
    <3>3. QED BY <3>1, <3>2
  <2>2. CASE m = <<y>>
    <3>1. IsSeq(m) /\ DOMAIN m = 1 .. 1 /\ m[1] = y
      BY <2>2, SeqOne
    <3>2. QED BY <3>1
  <2>3. QED BY <1>2, <1>3, <2>1, <2>2 DEF send_message
<1>7. PICK w : w = <<x>>
  OBVIOUS
<1>8. IsSeq(w) /\ DOMAIN w = 1 .. 1 /\ Len(w) = 1 /\ w[1] = x
  BY <1>7, SeqOne
<1>9. PICK l : l = m \o w
  OBVIOUS
<1>10. IsSeq(l) /\ \A k \in DOMAIN l : l[k] = x \/ l[k] = y
  <2>1. Len(m) \in Nat /\ DOMAIN m = 1 .. Len(m)
    BY <1>6, SeqLen
  <2>2. /\ IsSeq(l) /\ DOMAIN l = 1 .. Len(m) + 1
        /\ \A k \in DOMAIN l : l[k] = IF k <= Len(m) THEN m[k] ELSE w[k - Len(m)]
    BY <1>6, <1>8, <1>9, SeqConcat
  <2>3. \A k \in DOMAIN l : k \in DOMAIN m \/ (~(k <= Len(m)) /\ k - Len(m) = 1)
    BY <2>1, <2>2
  <2>4. \A k \in DOMAIN m : k <= Len(m)
    BY <2>1
  <2>5. QED BY <1>6, <1>8, <2>2, <2>3, <2>4
<1>11. /\ HeadGets(t, c, "gpvdmfile") /\ Then(Rx(t), l) /\ UNCHANGED <<store, node, ip>>
  BY <1>1, <1>3, <1>7, <1>9 DEF cmp_rxfile, table, jobs
<1>12. QED BY <1>4, <1>5, <1>10, <1>11, HeadGiven

LEMMA StepGetData ==
  ASSUME TransferInv, NEW t \in Conns, NEW c \in Conns, cmp_get_data(t, c)
  PROVE  TransferInv'
<1>1. HeadGets(t, c, "gpvdmgetdata") /\ UNCHANGED <<store, node, ip>>
  BY DEF cmp_get_data, table
<1>2. CASE Uncopied # {}
  <2>1. PICK j : j = First(Uncopied)
    OBVIOUS
  <2>2. j \in Jobs
    <3>1. Uncopied \subseteq Jobs
      BY DEF Uncopied
    <3>2. QED BY <1>2, <2>1, <3>1, FirstOf
  <2>3. PICK x : x = Tx(ip[j], OfJob("gpvdmnodesenddata", j))
    OBVIOUS
  <2>4. PICK y : y = Copied(j)
    OBVIOUS
  <2>5. PICK l : l = <<x, y>>
    OBVIOUS
  <2>6. Then(Rx(t), l)
    BY <1>2, <2>1, <2>3, <2>4, <2>5 DEF cmp_get_data
  <2>7. HeadTask(x) /\ x.packet.id # "gpvdmcommand"
    BY <2>2, <2>3 DEF Tx, OfJob, HeadTask, TransferInv, KnownFirst
  <2>8. HeadTask(y) /\ y.do # "tx_packet"
    BY <2>4 DEF Copied, HeadTask
  <2>9. IsSeq(l)
    BY <2>5, SeqTuples
  <2>10. \A k \in DOMAIN l : l[k] = x \/ l[k] = y
    BY ONLY <2>5
  <2>11. QED BY <1>1, <2>6, <2>7, <2>8, <2>9, <2>10, HeadGiven
<1>3. CASE Uncopied = {}
  <2>1. PICK l : l = [j \in 1 .. NJobs |-> SendDir(GUI, j)]
    OBVIOUS
  <2>2. NJobs \in Nat
    BY TransferAssumption
  <2>3. IsSeq(l)
    <3>1. l = [j \in 1 .. NJobs |-> l[j]]
      BY <2>1
    <3>2. QED BY <2>2, <3>1, SeqFunction
  <2>4. \A k \in DOMAIN l : HeadTask(l[k]) /\ l[k].do # "tx_packet"
    BY <2>1 DEF SendDir, HeadTask, Reached
  <2>5. Then(Rx(t), l)
    BY <1>3, <2>1 DEF cmp_get_data
  <2>6. QED BY <1>1, <2>3, <2>4, <2>5, HeadGiven
<1>4. QED BY <1>2, <1>3
-----------------------------------------------------------------------------
(* The steps of the nodes that send nothing.                                *)

\* The loop of a node that has tasks: a connected node, and only for the head.
LEMMA LoopList ==
  ASSUME TransferInv, NEW n \in Nodes, todo[Loop(n)] # << >>
  PROVE  /\ Connected(n) /\ IsSeq(todo[Loop(n)]) /\ LoopTask(Head(todo[Loop(n)]))
         /\ IsSeq(Rest(Loop(n))) /\ \A k \in DOMAIN Rest(Loop(n)) : LoopTask(Rest(Loop(n))[k])
<1>1. PICK l : l = todo[Loop(n)]
  OBVIOUS
<1>2. Suits(Loop(n), l) /\ IsSeq(l) /\ l # << >>
  BY <1>1, SuitsNow, ThreadNames
<1>3. Connected(n) /\ \A k \in DOMAIN l : LoopTask(l[k])
  BY <1>2 DEF Suits
<1>4. /\ IsSeq(Tail(l)) /\ Head(l) = l[1] /\ 1 \in DOMAIN l
      /\ \A k \in DOMAIN Tail(l) : k + 1 \in DOMAIN l /\ Tail(l)[k] = l[k + 1]
  BY <1>2, SeqTail
<1>5. QED BY <1>1, <1>2, <1>3, <1>4 DEF Rest

LEMMA StepSendDirNode ==
  ASSUME TransferInv, NEW n \in Nodes, send_dir(Loop(n)) PROVE TransferInv'
<1>1. Loop(n) \in Threads /\ todo[Loop(n)] # << >> /\ Head(todo[Loop(n)]).do = "send_dir"
  BY ThreadNames DEF send_dir, Task
<1>2. PICK d : d = Head(todo[Loop(n)])
  OBVIOUS
<1>3. PICK r : r = Rest(Loop(n))
  OBVIOUS
<1>4. Connected(n) /\ d.do = "send_dir" /\ d.to = "head" /\ IsSeq(r) /\ \A k \in DOMAIN r : LoopTask(r[k])
  BY <1>1, <1>2, <1>3, LoopList DEF LoopTask
<1>5. n \in DOMAIN store
  BY DEF TransferInv, Shapes, Conns
<1>6. PICK files : files = SetToSeq(Dir(n, d.job))
  OBVIOUS
<1>7. PICK l1 : l1 = [k \in DOMAIN files |-> Tx(d.to, File(files[k]))]
  OBVIOUS
<1>8. IsSeq(l1) /\ \A k \in DOMAIN l1 : LoopTask(l1[k])
  <2>1. PICK j : j = d.job
    OBVIOUS
  <2>2. PICK to : to = d.to
    OBVIOUS
  <2>3. files = SetToSeq(Dir(n, j)) /\ l1 = [k \in DOMAIN files |-> Tx(to, File(files[k]))]
    BY <1>6, <1>7, <2>1, <2>2
  <2>4. /\ IsSeq(l1)
        /\ \A k \in DOMAIN l1 : l1[k].do = "tx_packet" /\ l1[k].to = to
    BY <1>5, <2>3, DirPackets
  <2>5. QED BY <1>4, <2>2, <2>4 DEF LoopTask
<1>9. PICK l : l = l1 \o r
  OBVIOUS
<1>10. IsSeq(l) /\ \A k \in DOMAIN l : LoopTask(l[k])
  <2>1. /\ Len(l1) \in Nat /\ DOMAIN l1 = 1 .. Len(l1)
        /\ Len(r) \in Nat /\ DOMAIN r = 1 .. Len(r)
    BY <1>4, <1>8, SeqLen
  <2>2. /\ IsSeq(l) /\ DOMAIN l = 1 .. Len(l1) + Len(r)
        /\ \A k \in DOMAIN l : l[k] = IF k <= Len(l1) THEN l1[k] ELSE r[k - Len(l1)]
    BY <1>4, <1>8, <1>9, SeqConcat
  <2>3. \A k \in DOMAIN l : IF k <= Len(l1) THEN k \in DOMAIN l1 ELSE k - Len(l1) \in DOMAIN r
    BY <2>1, <2>2
  <2>4. QED BY <1>4, <1>8, <2>2, <2>3
<1>11. todo' = [todo EXCEPT ![Loop(n)] = l]
  BY <1>2, <1>3, <1>6, <1>7, <1>9, ThreadNames DEF send_dir
<1>12. TodoIs(Loop(n), l) /\ Suits(Loop(n), l) /\ Loop(n) \notin half
  BY <1>1, <1>4, <1>10, <1>11, TodoUpdate, SuitsLoop, NotHalf DEF Task
<1>13. Taken /\ FilesKept /\ UNCHANGED <<accepting, half>>
  BY StreamsSame, StoreSame DEF send_dir, net
<1>14. node' \subseteq Reached /\ DOMAIN ip' = Jobs /\ \A j \in Jobs : ip'[j] \in Reached
  BY TableSame DEF send_dir, table, jobs
<1>15. QED BY <1>1, <1>12, <1>13, <1>14, TakeStep

\* A message for a node.
LEMMA Delivered ==
  ASSUME TransferInv, NEW n \in Nodes, NEW id, PeerGets(n, id), todo[Loop(n)] = << >>
  PROVE  /\ Taken /\ Loop(n) \notin half /\ UNCHANGED <<accepting, half>>
         /\ Connected(n) /\ 1 \in DOMAIN toPeer[n] /\ Packet(toPeer[n]).id = id
         /\ node' \subseteq Reached /\ DOMAIN ip' = Jobs /\ \A j \in Jobs : ip'[j] \in Reached
<1>1. /\ Len(toPeer[n]) >= 2 /\ toPeer' = [toPeer EXCEPT ![n] = SubSeq(toPeer[n], 3, Len(toPeer[n]))]
      /\ UNCHANGED <<accepting, half, toHead, node, ip>> /\ Packet(toPeer[n]).id = id
  BY DEF PeerGets, table, jobs
<1>2. Taken
  BY <1>1 DEF TransferInv, Shapes, Taken, Left
<1>3. Loop(n) \notin half
  BY ThreadNames, NotHalf DEF Task
<1>4. n \in Conns
  BY DEF Conns
<1>5. IsSeq(toPeer[n])
  BY <1>4 DEF TransferInv, Shapes
<1>6. Len(toPeer[n]) \in Nat /\ DOMAIN toPeer[n] = 1 .. Len(toPeer[n]) /\ toPeer[n] # << >>
  BY <1>1, <1>5, SeqLen
<1>7. Connected(n) /\ 1 \in DOMAIN toPeer[n]
  BY <1>1, <1>6 DEF TransferInv, KnownFirst
<1>8. QED BY <1>1, <1>2, <1>3, <1>7, TableSame

\* No file is taken off the stream.
LEMMA OtherTaken ==
  ASSUME TransferInv, NEW n \in Nodes, NEW id, PeerGets(n, id), id # "gpvdmfile", UNCHANGED store
  PROVE  FilesKept
<1>1. \A m \in Nodes : toPeer'[m] # toPeer[m] => m = n
  BY DEF PeerGets, TransferInv, Shapes, Conns
<1>2. Packet(toPeer[n]).id # "gpvdmfile"
  BY DEF PeerGets
<1>3. QED BY <1>1, <1>2 DEF FilesKept, TransferInv, Shapes

LEMMA StepNodeRxFile ==
  ASSUME TransferInv, NEW n \in Nodes, NodeRxFile(n) PROVE TransferInv'
<1>1. todo[Loop(n)] = << >> /\ PeerGets(n, "gpvdmfile") /\ UNCHANGED todo
  BY DEF NodeRxFile
<1>2. PICK f : f = Packet(toPeer[n]).file
  OBVIOUS
<1>3. store' = [store EXCEPT ![n] = @ \cup {f}]
  BY <1>2 DEF NodeRxFile
<1>4. DOMAIN store = Conns \cup {"head"} /\ \A m \in DOMAIN store : IsFiniteSet(store[m])
  BY DEF TransferInv, Shapes
<1>5. n \in DOMAIN store /\ n \in Conns
  BY <1>4 DEF Conns
<1>6. IsFiniteSet(store[n] \cup {f})
  <2>1. PICK H : H = store[n]
    OBVIOUS
  <2>2. IsFiniteSet(H)
    BY <1>4, <1>5, <2>1
  <2>3. IsFiniteSet(H \cup {f})
    BY ONLY <2>2, FS_AddElement
  <2>4. QED BY <2>1, <2>3
<1>7. FilesKept
  <2>1. \A m \in Nodes : toPeer'[m] # toPeer[m] => m = n
    BY <1>1 DEF PeerGets, TransferInv, Shapes, Conns
  <2>2. f \in store'[n]
    BY <1>3, <1>5
  <2>3. QED BY <1>2, <1>3, <1>4, <1>6, <2>1, <2>2 DEF FilesKept
<1>8. TodoIs(Loop(n), todo[Loop(n)]) /\ Suits(Loop(n), todo[Loop(n)])
  BY <1>1, SuitsNow, ThreadNames DEF TodoIs
<1>9. QED BY <1>1, <1>7, <1>8, Delivered, ThreadNames, TakeStep

LEMMA StepNodeSendData ==
  ASSUME TransferInv, NEW n \in Nodes, cmp_node_send_data(n) PROVE TransferInv'
<1>1. /\ todo[Loop(n)] = << >> /\ PeerGets(n, "gpvdmnodesenddata") /\ UNCHANGED store
      /\ Then(Loop(n), SendData(Packet(toPeer[n]).job))
  BY DEF cmp_node_send_data
<1>2. PICK x : x = SendDir("head", Packet(toPeer[n]).job)
  OBVIOUS
<1>3. PICK y : y = Tx("head", Command("gpvdmgetdata"))
  OBVIOUS
<1>4. LoopTask(x) /\ LoopTask(y)
  BY <1>2, <1>3 DEF SendDir, Tx, LoopTask
<1>5. PICK l : l = <<x, y>>
  OBVIOUS
<1>6. IsSeq(l) /\ \A k \in DOMAIN l : LoopTask(l[k])
  <2>1. IsSeq(l)
    BY <1>5, SeqTuples
  <2>2. \A k \in DOMAIN l : l[k] = x \/ l[k] = y
    BY ONLY <1>5
  <2>3. QED BY <1>4, <2>1, <2>2
<1>7. todo' = [todo EXCEPT ![Loop(n)] = l]
  BY <1>1, <1>2, <1>3, <1>5 DEF Then, SendData
<1>8. TodoIs(Loop(n), l) /\ Suits(Loop(n), l)
  BY <1>1, <1>6, <1>7, TodoUpdate, SuitsLoop, Delivered, ThreadNames
<1>9. FilesKept
  BY <1>1, OtherTaken
<1>10. QED BY <1>1, <1>8, <1>9, Delivered, ThreadNames, TakeStep

LEMMA StepNodeRunJob ==
  ASSUME TransferInv, NEW n \in Nodes, cmp_node_runjob(n) PROVE TransferInv'
<1>1. PICK j : j = Packet(toPeer[n]).job
  OBVIOUS
<1>2. PICK x : x = [do |-> "exec_command", input |-> Dir(n, j)]
  OBVIOUS
<1>3. PICK l : l = <<x>>
  OBVIOUS
<1>4. /\ todo[Loop(n)] = << >> /\ PeerGets(n, "gpvdmcommand") /\ UNCHANGED store
      /\ todo' = [todo EXCEPT ![Exec(n, j)] = l]
  BY <1>1, <1>2, <1>3 DEF cmp_node_runjob, Then
<1>5. /\ Taken /\ UNCHANGED <<accepting, half>> /\ Connected(n)
      /\ node' \subseteq Reached /\ DOMAIN ip' = Jobs /\ \A i \in Jobs : ip'[i] \in Reached
      /\ 1 \in DOMAIN toPeer[n] /\ Packet(toPeer[n]).id = "gpvdmcommand"
  BY <1>4, Delivered
<1>6. FilesKept
  BY <1>4, OtherTaken
<1>7. CASE j \in Jobs
  <2>1. Exec(n, j) \in Threads /\ Exec(n, j) \notin half
    BY <1>7, ThreadNames, ThreadsDiffer DEF TransferInv, Halves
  <2>2. Input(j) \in store[n]
    <3>1. Commands(toPeer[n][1].packet, j)
      BY <1>1, <1>5 DEF Commands, Packet
    <3>2. StreamOrder(n, j)
      BY <1>7 DEF TransferInv, Inputs
    <3>3. ~ \E i \in 1 .. 1 - 1 : TRUE
      OBVIOUS
    <3>4. QED BY <1>5, <3>1, <3>2, <3>3 DEF StreamOrder
  <2>3. ExecTask(x, j)
    BY <1>2, <2>2 DEF ExecTask, Dir, Input
  <2>4. IsSeq(l) /\ \A k \in DOMAIN l : k = 1 /\ ExecTask(l[k], j)
    BY <1>3, <2>3, SeqOne
  <2>5. Suits(Exec(n, j), l)
    BY <1>5, <1>7, <2>4, SuitsExec
  <2>6. TodoIs(Exec(n, j), l)
    BY <1>4, <2>1, TodoUpdate
  <2>7. QED BY <1>5, <1>6, <2>1, <2>5, <2>6, TakeStep
<1>8. CASE j \notin Jobs
  <2>1. Exec(n, j) \notin Threads
    <3>1. \A c \in Conns : Exec(n, j) # Rx(c)
      BY ThreadsDiffer
    <3>2. \A m \in Nodes : Exec(n, j) # Loop(m)
      BY ThreadsDiffer
    <3>3. \A m \in Nodes, i \in Jobs : Exec(n, j) # Exec(m, i)
      BY <1>8, ThreadsDiffer
    <3>4. QED BY <3>1, <3>2, <3>3 DEF Threads
  <2>2. DOMAIN todo' = DOMAIN todo /\ \A s \in Threads : todo'[s] = todo[s]
    BY <1>4, <2>1 DEF TransferInv, Assigned
  <2>3. TodoIs(Loop(n), todo[Loop(n)]) /\ Suits(Loop(n), todo[Loop(n)])
    BY <2>2, SuitsNow, ThreadNames DEF TodoIs
  <2>4. QED BY <1>4, <1>5, <1>6, <2>3, Delivered, ThreadNames, TakeStep
<1>9. QED BY <1>7, <1>8

LEMMA StepExecCommand ==
  ASSUME TransferInv, NEW n \in Nodes, NEW j \in Jobs, exec_command(n, j) PROVE TransferInv'
<1>1. Exec(n, j) \in Threads /\ Exec(n, j) \notin half
  BY ThreadNames, ThreadsDiffer DEF TransferInv, Halves
<1>2. todo[Exec(n, j)] # << >>
  BY DEF exec_command, Task
<1>3. Connected(n)
  BY <1>1, <1>2, SuitsNow DEF Suits
<1>4. PICK x : x = Tx("head", OfJob("gpvdmsimfinished", j))
  OBVIOUS
<1>5. PICK l : l = <<x>>
  OBVIOUS
<1>6. ExecTask(x, j)
  BY <1>4 DEF Tx, OfJob, ExecTask
<1>7. IsSeq(l) /\ \A k \in DOMAIN l : k = 1 /\ ExecTask(l[k], j)
  BY <1>5, <1>6, SeqOne
<1>8. TodoIs(Exec(n, j), l) /\ Suits(Exec(n, j), l)
  BY <1>1, <1>3, <1>4, <1>5, <1>7, TodoUpdate, SuitsExec DEF exec_command, Then
<1>9. FilesKept
  <2>1. PICK f : store' = [store EXCEPT ![n] = @ \cup {f}]
    BY DEF exec_command
  <2>2. DOMAIN store = Conns \cup {"head"} /\ \A m \in DOMAIN store : IsFiniteSet(store[m])
    BY DEF TransferInv, Shapes
  <2>3. IsFiniteSet(store[n] \cup {f})
    <3>1. PICK H : H = store[n]
      OBVIOUS
    <3>2. IsFiniteSet(H)
      BY <2>2, <3>1 DEF Conns
    <3>3. IsFiniteSet(H \cup {f})
      BY ONLY <3>2, FS_AddElement
    <3>4. QED BY <3>1, <3>3
  <2>4. UNCHANGED toPeer
    BY DEF exec_command, net
  <2>5. QED BY <2>1, <2>2, <2>3, <2>4 DEF FilesKept
<1>10. Taken /\ UNCHANGED <<accepting, half>>
  BY StreamsSame DEF exec_command, net
<1>11. node' \subseteq Reached /\ DOMAIN ip' = Jobs /\ \A i \in Jobs : ip'[i] \in Reached
  BY TableSame DEF exec_command, table, jobs
<1>12. QED BY <1>1, <1>8, <1>9, <1>10, <1>11, TakeStep
-----------------------------------------------------------------------------
(* Steps that send.                                                         *)

\* What a stream may end with while thread t sends packet p, before and after its step.
MaySend(t, p, s) == IF t \in half THEN Ends(s, Piece(t, p, 1)) ELSE ~Odd(s)
Goes(t, p, s) == IsSeq(s) /\ Whole(s) /\ MaySend(t, p, s)

\* The pieces a step puts on the stream, and who is in the middle of a packet then.
LEMMA Sent ==
  ASSUME TransferInv, NEW t \in Threads, SendAll(t), NEW p, p = Head(todo[t]).packet
  PROVE  /\ \E q : /\ Put(t, q) /\ IsSeq(q) /\ q # << >> /\ \A k \in DOMAIN q : q[k].packet = p
                   /\ \A s : Goes(t, p, s) =>
                        /\ IsSeq(s \o q) /\ Whole(s \o q)
                        /\ t \in half' => Ends(s \o q, Piece(t, p, 1))
                        /\ t \notin half' => ~Odd(s \o q)
         /\ t \in half' => t \notin half /\ half' = half \cup {t} /\ p.id = "gpvdmfile" /\ UNCHANGED todo
         /\ t \notin half' => half' = half \ {t} /\ todo' = [todo EXCEPT ![t] = Rest(t)]
         /\ t \notin half => MutexFree(t)
         /\ UNCHANGED <<accepting, node, ip>> /\ Task(t, "tx_packet")
<1>1. UNCHANGED <<accepting, node, ip>> /\ Task(t, "tx_packet")
  BY DEF SendAll, table, jobs
<1>2. CASE t \notin half /\ MutexFree(t) /\ Put(t, Both(t, p)) /\ todo' = [todo EXCEPT ![t] = Rest(t)] /\ half' = half
  <2>1. PICK q : q = Both(t, p)
    OBVIOUS
  <2>2. IsSeq(q) /\ q # << >> /\ \A k \in DOMAIN q : q[k].packet = p
    <3>1. PICK x, y : x = Piece(t, p, 1) /\ y = Piece(t, p, 2)
      OBVIOUS
    <3>2. q = <<x, y>>
      BY <2>1, <3>1 DEF Both
    <3>3. IsSeq(q)
      BY <3>2, SeqTuples
    <3>4. q # << >> /\ \A k \in DOMAIN q : q[k] = x \/ q[k] = y
      BY ONLY <3>2
    <3>5. QED BY <3>1, <3>3, <3>4 DEF Piece
  <2>3. ASSUME NEW s, Goes(t, p, s) PROVE IsSeq(s \o q) /\ Whole(s \o q) /\ ~Odd(s \o q)
    <3>1. IsSeq(s) /\ Whole(s) /\ ~Odd(s)
      BY <1>2, <2>3 DEF Goes, MaySend
    <3>2. QED BY <2>1, <2>2, <3>1, SeqConcat, WholeStep
  <2>4. QED BY <1>1, <1>2, <2>1, <2>2, <2>3
<1>3. CASE /\ t \notin half /\ MutexFree(t) /\ p.id = "gpvdmfile" /\ Put(t, <<Piece(t, p, 1)>>)
           /\ half' = half \cup {t} /\ UNCHANGED todo
  <2>1. PICK q : q = <<Piece(t, p, 1)>>
    OBVIOUS
  <2>2. IsSeq(q) /\ q # << >> /\ \A k \in DOMAIN q : q[k].packet = p
    <3>1. PICK x : x = Piece(t, p, 1)
      OBVIOUS
    <3>2. IsSeq(q) /\ DOMAIN q = 1 .. 1 /\ q[1] = x /\ q # << >>
      BY <2>1, <3>1, SeqOne
    <3>3. QED BY <3>1, <3>2 DEF Piece
  <2>3. ASSUME NEW s, Goes(t, p, s) PROVE IsSeq(s \o q) /\ Whole(s \o q) /\ Ends(s \o q, Piece(t, p, 1))
    <3>1. IsSeq(s) /\ Whole(s) /\ ~Odd(s)
      BY <1>3, <2>3 DEF Goes, MaySend
    <3>2. QED BY <2>1, <2>2, <3>1, SeqConcat, WholeStep
  <2>4. QED BY <1>1, <1>3, <2>1, <2>2, <2>3
<1>4. CASE /\ t \in half /\ Put(t, <<Piece(t, p, 2)>>)
           /\ half' = half \ {t} /\ todo' = [todo EXCEPT ![t] = Rest(t)]
  <2>1. PICK q : q = <<Piece(t, p, 2)>>
    OBVIOUS
  <2>2. IsSeq(q) /\ q # << >> /\ \A k \in DOMAIN q : q[k].packet = p
    <3>1. PICK x : x = Piece(t, p, 2)
      OBVIOUS
    <3>2. IsSeq(q) /\ DOMAIN q = 1 .. 1 /\ q[1] = x /\ q # << >>
      BY <2>1, <3>1, SeqOne
    <3>3. QED BY <3>1, <3>2 DEF Piece
  <2>3. ASSUME NEW s, Goes(t, p, s) PROVE IsSeq(s \o q) /\ Whole(s \o q) /\ ~Odd(s \o q)
    <3>1. IsSeq(s) /\ Whole(s) /\ Ends(s, Piece(t, p, 1))
      BY <1>4, <2>3 DEF Goes, MaySend
    <3>2. QED BY <2>1, <2>2, <3>1, SeqConcat, WholeStep
  <2>4. QED BY <1>1, <1>4, <2>1, <2>2, <2>3
<1>5. QED BY <1>2, <1>3, <1>4 DEF SendAll

\* A thread of a node sends to the head.
LEMMA StepNodeSends ==
  ASSUME TransferInv, NEW n \in Nodes, NEW t \in Threads, SendAll(t),
         t = Loop(n) \/ \E j \in Jobs : t = Exec(n, j)
  PROVE  TransferInv'
<1>1. PICK p : p = Head(todo[t]).packet
  OBVIOUS
<1>2. /\ t \in half' => t \notin half /\ half' = half \cup {t} /\ p.id = "gpvdmfile" /\ UNCHANGED todo
      /\ t \notin half' => half' = half \ {t} /\ todo' = [todo EXCEPT ![t] = Rest(t)]
      /\ t \notin half => MutexFree(t)
      /\ UNCHANGED <<accepting, node, ip>> /\ todo[t] # << >> /\ Head(todo[t]).do = "tx_packet"
  BY <1>1, Sent DEF Task
<1>3. PICK q : /\ Put(t, q) /\ IsSeq(q) /\ q # << >>
               /\ \A s : Goes(t, p, s) =>
                    /\ IsSeq(s \o q) /\ Whole(s \o q)
                    /\ t \in half' => Ends(s \o q, Piece(t, p, 1))
                    /\ t \notin half' => ~Odd(s \o q)
  BY <1>1, Sent
<1>4. n \in Conns /\ n # "head" /\ Program(t) = n
  BY ThreadNames DEF Conns
<1>5. Connected(n) /\ Head(todo[t]).to = "head" /\ (t # Loop(n) => p.id # "gpvdmfile")
  <2>1. CASE t = Loop(n)
    BY <1>2, <2>1, LoopList DEF LoopTask
  <2>2. ASSUME NEW j \in Jobs, t = Exec(n, j)
        PROVE  Connected(n) /\ Head(todo[t]).to = "head" /\ p.id # "gpvdmfile"
    <3>1. PICK l : l = todo[t]
      OBVIOUS
    <3>2. Suits(t, l) /\ IsSeq(l) /\ l # << >>
      BY <1>2, <3>1, SuitsNow
    <3>3. Head(l) = l[1] /\ 1 \in DOMAIN l
      BY <3>2, SeqTail
    <3>4. Connected(n) /\ ExecTask(l[1], j)
      BY <2>2, <3>2, <3>3 DEF Suits
    <3>5. QED BY <1>1, <1>2, <3>1, <3>3, <3>4 DEF ExecTask
  <2>3. QED BY <2>1, <2>2
<1>6. /\ toHead' = [toHead EXCEPT ![n] = toHead[n] \o q] /\ UNCHANGED <<toPeer, store>>
  BY <1>3, <1>4, <1>5, ThreadNames DEF Put, Conns
<1>7. Suits(t, Rest(t))
  <2>1. CASE t = Loop(n)
    BY <1>2, <2>1, LoopList, SuitsLoop
  <2>2. ASSUME NEW j \in Jobs, t = Exec(n, j) PROVE Suits(t, Rest(t))
    <3>1. PICK l : l = todo[t]
      OBVIOUS
    <3>2. Suits(t, l) /\ IsSeq(l) /\ l # << >>
      BY <1>2, <3>1, SuitsNow
    <3>3. /\ IsSeq(Tail(l)) /\ Len(l) \in Nat /\ DOMAIN Tail(l) = 1 .. Len(l) - 1
          /\ \A k \in DOMAIN Tail(l) : k + 1 \in DOMAIN l
      BY <3>2, SeqTail, SeqLen
    <3>4. \A k \in DOMAIN l : k = 1
      BY <2>2, <3>2 DEF Suits
    <3>5. \A k \in DOMAIN Tail(l) : FALSE
      BY <3>3, <3>4
    <3>6. Suits(Exec(n, j), Tail(l))
      BY <1>5, <3>3, <3>5, SuitsExec
    <3>7. QED BY <2>2, <3>1, <3>6 DEF Rest
  <2>3. QED BY <2>1, <2>2
<1>8. Grows /\ Inputs'
  BY <1>2, <1>6 DEF Grows, Connected, Arriving, accepting, TransferInv, Inputs, StreamOrder
<1>9. Assigned'
  <2>1. CASE t \in half'
    <3>1. PICK l : l = todo[t]
      OBVIOUS
    <3>2. TodoIs(t, l) /\ Suits(t, l)
      BY <1>2, <2>1, <3>1, SuitsNow DEF TodoIs
    <3>3. Suits(t, l)'
      BY <1>8, <3>2, SuitsGrows
    <3>4. QED BY <1>8, <3>2, <3>3, AssignedStep DEF TransferInv
  <2>2. CASE t \notin half'
    <3>1. PICK l : l = Rest(t)
      OBVIOUS
    <3>2. TodoIs(t, l) /\ Suits(t, l)
      BY <1>2, <1>7, <2>2, <3>1, TodoUpdate
    <3>3. Suits(t, l)'
      BY <1>8, <3>2, SuitsGrows
    <3>4. QED BY <1>8, <3>2, <3>3, AssignedStep DEF TransferInv
  <2>3. QED BY <2>1, <2>2
<1>10. t # Loop(n) => t \notin half /\ t \notin half'
  <2>1. t # Loop(n) => t \notin half
    BY ThreadsDiffer DEF TransferInv, Halves
  <2>2. QED BY <1>2, <1>5, <2>1
<1>11. t \notin half => Loop(n) \notin half
  BY <1>2, <1>4, ThreadNames DEF MutexFree
<1>12. Goes(t, p, toHead[n])
  <2>1. IsSeq(toHead[n]) /\ Whole(toHead[n])
    BY <1>4 DEF TransferInv, Shapes, WholePackets
  <2>2. t \in half => Ends(toHead[n], Piece(t, p, 1))
    BY <1>1, <1>10 DEF TransferInv, Halves, HalfOf
  <2>3. t \notin half => ~Odd(toHead[n])
    BY <1>4, <1>11 DEF TransferInv, Halves
  <2>4. QED BY <2>1, <2>2, <2>3 DEF Goes, MaySend
<1>13. PICK u : u = toHead[n] \o q
  OBVIOUS
<1>14. /\ IsSeq(u) /\ Whole(u) /\ (t \in half' => Ends(u, Piece(t, p, 1))) /\ (t \notin half' => ~Odd(u))
  BY <1>3, <1>12, <1>13
<1>15. /\ DOMAIN toHead = Conns /\ DOMAIN toHead' = Conns /\ toHead'[n] = u
       /\ \A c \in Conns : c # n => toHead'[c] = toHead[c]
  BY <1>4, <1>6, <1>13 DEF TransferInv, Shapes
<1>16. WholePackets'
  BY <1>6, <1>14, <1>15 DEF TransferInv, WholePackets
<1>17. Shapes'
  <2>1. \A c \in Conns : IsSeq(toHead[c])' /\ IsSeq(toPeer[c])'
    BY <1>6, <1>14, <1>15 DEF TransferInv, Shapes
  <2>2. QED BY <1>2, <1>6, <1>15, <2>1 DEF TransferInv, Shapes, accepting, Input
<1>18. KnownFirst'
  <2>1. \A m \in Nodes : Connected(m)' <=> Connected(m)
    BY <1>2 DEF accepting, Connected
  <2>2. Reached' = Reached
    BY <2>1 DEF Reached
  <2>3. \A m \in Nodes : toHead'[m] # << >> \/ toPeer'[m] # << >> => Connected(m)'
    <3>1. \A m \in Nodes : m \in Conns
      BY DEF Conns
    <3>2. QED BY <1>5, <1>6, <1>15, <2>1, <3>1 DEF TransferInv, KnownFirst
  <2>4. QED BY <1>2, <2>2, <2>3 DEF TransferInv, KnownFirst
<1>19. Halves'
  <2>1. \A s \in Threads : s # t => (s \in half' <=> s \in half) /\ todo'[s] = todo[s]
    BY <1>2 DEF TransferInv, Assigned
  <2>2. half' \subseteq {Rx(c) : c \in Conns} \cup {Loop(m) : m \in Nodes}
    BY <1>2, <1>10 DEF TransferInv, Halves
  <2>3. \A s, w \in half' : Program(s) = Program(w) => s = w
    BY <1>2 DEF TransferInv, Halves, MutexFree
  <2>4. ASSUME NEW m \in Nodes, Loop(m) \in half' PROVE HalfOf(Loop(m), toHead[m])'
    <3>1. CASE m = n
      <4>1. t = Loop(n)
        <5>1. CASE t \in half
          BY <1>10, <5>1
        <5>2. CASE t \notin half
          BY <1>2, <1>11, <2>4, <3>1, <5>2
        <5>3. QED BY <5>1, <5>2
      <4>2. t \in half' /\ UNCHANGED todo
        BY <1>2, <2>4, <3>1, <4>1
      <4>3. Ends(u, Piece(t, p, 1))
        BY <1>14, <4>2
      <4>4. HalfOf(t, u)'
        BY <1>1, <1>2, <4>2, <4>3 DEF HalfOf, Task, Ends, Odd, Piece
      <4>5. QED BY <1>15, <3>1, <4>1, <4>4 DEF HalfOf
    <3>2. CASE m # n
      <4>1. Loop(m) # t /\ Loop(m) \in Threads /\ m \in Conns
        BY <3>2, ThreadsDiffer, ThreadNames DEF Conns
      <4>2. HalfOf(Loop(m), toHead[m]) /\ todo'[Loop(m)] = todo[Loop(m)]
        BY <2>1, <2>4, <4>1 DEF TransferInv, Halves
      <4>3. QED BY <1>15, <3>2, <4>1, <4>2 DEF HalfOf, Task, Ends, Odd, Piece
    <3>3. QED BY <3>1, <3>2
  <2>5. \A c \in Conns : Rx(c) # t /\ Rx(c) \in Threads
    BY ThreadsDiffer, ThreadNames
  <2>6. ASSUME NEW c \in Conns, Rx(c) \in half'
        PROVE  \E d \in Conns : Head(todo'[Rx(c)]).to = d /\ HalfOf(Rx(c), toPeer[d])'
    <3>1. Rx(c) \in half /\ todo'[Rx(c)] = todo[Rx(c)]
      BY <2>1, <2>5, <2>6
    <3>2. PICK d \in Conns : Head(todo[Rx(c)]).to = d /\ HalfOf(Rx(c), toPeer[d])
      BY <3>1 DEF TransferInv, Halves
    <3>3. HalfOf(Rx(c), toPeer[d])'
      BY <1>6, <3>1, <3>2 DEF HalfOf, Task, Ends, Odd, Piece
    <3>4. QED BY <3>1, <3>2, <3>3
  <2>7. ASSUME NEW c \in Conns, Odd(toHead[c])' PROVE c \in Nodes /\ Loop(c) \in half'
    <3>1. CASE c = n
      <4>1. t \in half'
        BY <1>14, <1>15, <2>7, <3>1 DEF Odd
      <4>2. QED BY <1>10, <3>1, <4>1
    <3>2. CASE c # n
      <4>1. c \in Nodes /\ Loop(c) \in half
        BY <1>15, <2>7, <3>2 DEF TransferInv, Halves, Odd
      <4>2. Loop(c) # t /\ Loop(c) \in Threads
        BY <3>2, <4>1, ThreadsDiffer, ThreadNames
      <4>3. QED BY <2>1, <4>1, <4>2
    <3>3. QED BY <3>1, <3>2
  <2>8. ASSUME NEW c \in Conns, Odd(toPeer[c])'
        PROVE  \E d \in Conns : Rx(d) \in half' /\ Head(todo'[Rx(d)]).to = c
    <3>1. PICK d \in Conns : Rx(d) \in half /\ Head(todo[Rx(d)]).to = c
      BY <1>6, <2>8 DEF TransferInv, Halves, Odd
    <3>2. QED BY <2>1, <2>5, <3>1
  <2>9. QED BY <2>2, <2>3, <2>4, <2>6, <2>7, <2>8 DEF Halves, Rx, Loop, Program
<1>20. QED BY <1>8, <1>9, <1>16, <1>17, <1>18, <1>19 DEF TransferInv

\* A thread of the head sends to a node or to the GUI.
LEMMA StepHeadSends ==
  ASSUME TransferInv, NEW c \in Conns, SendAll(Rx(c)) PROVE TransferInv'
<1>1. PICK t : t = Rx(c)
  OBVIOUS
<1>2. t \in Threads /\ Program(t) = "head" /\ SendAll(t)
  BY <1>1, ThreadNames
<1>3. PICK p : p = Head(todo[t]).packet
  OBVIOUS
<1>4. PICK d : d = Head(todo[t]).to
  OBVIOUS
<1>5. /\ t \in half' => t \notin half /\ half' = half \cup {t} /\ p.id = "gpvdmfile" /\ UNCHANGED todo
      /\ t \notin half' => half' = half \ {t} /\ todo' = [todo EXCEPT ![t] = Rest(t)]
      /\ t \notin half => MutexFree(t)
      /\ UNCHANGED <<accepting, node, ip>> /\ todo[t] # << >> /\ Head(todo[t]).do = "tx_packet"
  BY <1>2, <1>3, Sent DEF Task
<1>6. PICK q : /\ Put(t, q) /\ IsSeq(q) /\ q # << >> /\ \A k \in DOMAIN q : q[k].packet = p
               /\ \A s : Goes(t, p, s) =>
                    /\ IsSeq(s \o q) /\ Whole(s \o q)
                    /\ t \in half' => Ends(s \o q, Piece(t, p, 1))
                    /\ t \notin half' => ~Odd(s \o q)
  BY <1>2, <1>3, Sent
<1>7. PICK l : l = todo[t]
  OBVIOUS
<1>8. /\ IsSeq(l) /\ HeadList(l) /\ l # << >> /\ Head(l) = l[1] /\ 1 \in DOMAIN l /\ IsSeq(Tail(l))
      /\ Suits(t, l)
  <2>1. IsSeq(l) /\ Suits(t, l) /\ l # << >>
    BY <1>2, <1>5, <1>7, SuitsNow
  <2>2. HeadList(l)
    BY <1>1, <2>1 DEF Suits
  <2>3. QED BY <2>1, <2>2, SeqTail
<1>9. d \in Reached /\ d # "head"
  BY <1>4, <1>5, <1>7, <1>8, ThreadNames DEF HeadList, HeadTask, Reached, Conns, None
<1>10. d \in Conns /\ (d \in Nodes => Connected(d))
  BY <1>4, <1>6, <1>9, ThreadNames DEF Put, Reached, Conns, None
<1>11. PICK u : u = toPeer[d] \o q
  OBVIOUS
<1>12. \A s \in half : Program(s) = "head" => s = t
  BY <1>2, <1>5 DEF MutexFree, TransferInv, Halves
<1>13. \A e \in Conns : Rx(e) \in half \cup half' => e = c
  <2>1. \A s \in half' : s \in half \/ s = t
    BY <1>5
  <2>2. \A e \in Conns : Rx(e) \in half \cup half' => Rx(e) = t
    BY <1>12, <2>1, ThreadNames
  <2>3. QED BY <1>1, <2>2, ThreadsDiffer
<1>14. \A e \in Conns : Odd(toPeer[e]) => t \in half /\ e = d
  BY <1>1, <1>4, <1>13 DEF TransferInv, Halves
<1>15. Goes(t, p, toPeer[d])
  <2>1. IsSeq(toPeer[d]) /\ Whole(toPeer[d])
    BY <1>10 DEF TransferInv, Shapes, WholePackets
  <2>2. t \in half => Ends(toPeer[d], Piece(t, p, 1))
    BY <1>1, <1>3, <1>4 DEF TransferInv, Halves, HalfOf
  <2>3. t \notin half => ~Odd(toPeer[d])
    BY <1>10, <1>14
  <2>4. QED BY <2>1, <2>2, <2>3 DEF Goes, MaySend
<1>16. IsSeq(u) /\ Whole(u) /\ (t \in half' => Ends(u, Piece(t, p, 1))) /\ (t \notin half' => ~Odd(u))
  BY <1>6, <1>11, <1>15
\* The stream after the step: the GUI takes a complete packet at once.
<1>17. PICK v : v = toPeer'[d]
  OBVIOUS
<1>18. /\ UNCHANGED toHead /\ DOMAIN toPeer = Conns /\ DOMAIN toPeer' = Conns
       /\ \A e \in Conns : e # d => toPeer'[e] = toPeer[e]
       /\ DOMAIN store = Conns \cup {"head"} /\ DOMAIN store' = DOMAIN store
       /\ \A m \in DOMAIN store : m # GUI => store'[m] = store[m]
  BY <1>4, <1>6, <1>9 DEF Put, TransferInv, Shapes
<1>19. \/ v = u /\ UNCHANGED store
       \/ /\ v = << >> /\ d = GUI /\ Complete(u)
          /\ store' = [store EXCEPT ![GUI] = @ \cup FileIn(u)]
  BY <1>4, <1>6, <1>9, <1>10, <1>11, <1>17 DEF Put, TransferInv, Shapes
<1>20. IsSeq(v) /\ Whole(v) /\ (t \in half' => Ends(v, Piece(t, p, 1))) /\ (t \notin half' => ~Odd(v))
  <2>1. CASE v = u
    BY <1>16, <2>1
  <2>2. CASE v = << >> /\ Complete(u)
    <3>1. t \notin half'
      <4>1. Len(u) = 2
        BY <2>2 DEF Complete
      <4>2. 2 % 2 # 1
        OBVIOUS
      <4>3. QED BY <1>16, <4>1, <4>2 DEF Ends, Odd
    <3>2. IsSeq(v)
      BY <2>2, EmptySeq, ASeq
    <3>3. Len(v) = 0 /\ DOMAIN v = 1 .. Len(v)
      BY ONLY <2>2, <3>2, SeqLen
    <3>4. DOMAIN v = {} /\ Len(v) % 2 # 1
      BY <3>3
    <3>5. QED BY <3>1, <3>2, <3>4 DEF Whole, Odd
  <2>3. QED BY <1>19, <2>1, <2>2
<1>21. \A m \in DOMAIN store : IsFiniteSet(store'[m])
  <2>1. \A m \in DOMAIN store : IsFiniteSet(store[m])
    BY DEF TransferInv, Shapes
  <2>2. IsFiniteSet(store[GUI] \cup FileIn(u))
    <3>1. PICK H : H = store[GUI]
      OBVIOUS
    <3>2. IsFiniteSet(H)
      BY <1>18, <2>1, <3>1 DEF Conns
    <3>3. PICK f : f = Packet(u).file
      OBVIOUS
    <3>4. IsFiniteSet(H \cup {f})
      BY ONLY <3>2, FS_AddElement
    <3>5. H \cup FileIn(u) \in {H \cup {f}, H}
      BY <3>3 DEF FileIn
    <3>6. QED BY <3>1, <3>2, <3>4, <3>5
  <2>3. QED BY <1>18, <1>19, <2>1, <2>2
<1>22. \A n \in Nodes : n # GUI /\ n \in Conns /\ n \in DOMAIN store /\ store'[n] = store[n]
  BY <1>18, ThreadNames DEF Conns
<1>23. ASSUME NEW n \in Nodes, NEW j \in Jobs
       PROVE  /\ Arriving(n, j) => Arriving(n, j)'
              /\ StreamOrder(n, j)'
              /\ n = d /\ Brings(p, j) => Arriving(n, j)'
  <2>1. StreamOrder(n, j)
    BY DEF TransferInv, Inputs
  <2>2. CASE n # d
    <3>1. toPeer'[n] = toPeer[n] /\ store'[n] = store[n]
      BY <1>18, <1>22, <2>2
    <3>2. QED BY <2>1, <2>2, <3>1 DEF Arriving, StreamOrder, Input
  <2>3. CASE n = d
    <3>1. toPeer'[n] = toPeer[n] \o q /\ store'[n] = store[n] /\ IsSeq(toPeer[n])
      BY <1>11, <1>17, <1>19, <1>22, <2>3 DEF TransferInv, Shapes
    <3>2. Commands(p, j) => Arriving(n, j)
      <4>1. TaskOrder(l, n, j)
        BY <1>8 DEF HeadList
      <4>2. l[1].do = "tx_packet" /\ l[1].to = n /\ l[1].packet = p
        BY <1>3, <1>4, <1>5, <1>7, <1>8, <2>3
      <4>3. ~ \E i \in 1 .. 1 - 1 : TRUE
        OBVIOUS
      <4>4. QED BY <1>8, <4>1, <4>2, <4>3 DEF TaskOrder
    <3>3. QED BY <1>6, <2>1, <3>1, <3>2, AppendedOrder
  <2>4. QED BY <2>2, <2>3
<1>24. Grows /\ Inputs'
  BY <1>5, <1>23 DEF Grows, Connected, accepting, Inputs
<1>25. Assigned'
  <2>1. CASE t \in half'
    <3>1. TodoIs(t, l)
      BY <1>5, <1>7, <2>1 DEF TodoIs
    <3>2. Suits(t, l)'
      BY <1>8, <1>24, SuitsGrows
    <3>3. QED BY <1>2, <1>24, <3>1, <3>2, AssignedStep DEF TransferInv
  <2>2. CASE t \notin half'
    <3>1. PICK r : r = Tail(l)
      OBVIOUS
    <3>2. TodoIs(t, r)
      BY <1>2, <1>5, <1>7, <2>2, <3>1, TodoUpdate DEF Rest
    <3>3. \A n \in Nodes, j \in Jobs : WillBring(Head(l), n, j) => Arriving(n, j)'
      BY <1>3, <1>4, <1>5, <1>7, <1>23 DEF WillBring
    <3>4. HeadList(Tail(l))'
      BY <1>8, <1>24, <3>3, HeadListTail
    <3>5. HeadList(r)'
      BY <3>1, <3>4 DEF HeadList, TaskOrder
    <3>6. Suits(t, r)'
      BY <1>1, <1>8, <3>1, <3>5, ThreadsDiffer DEF Suits
    <3>7. QED BY <1>2, <1>24, <3>2, <3>6, AssignedStep DEF TransferInv
  <2>3. QED BY <2>1, <2>2
<1>26. WholePackets'
  BY <1>17, <1>18, <1>20 DEF TransferInv, WholePackets
<1>27. Shapes'
  <2>1. \A e \in Conns : IsSeq(toHead[e])' /\ IsSeq(toPeer[e])'
    BY <1>17, <1>18, <1>20 DEF TransferInv, Shapes
  <2>2. \A j \in Jobs : Input(j)' \in store'["head"]
    <3>1. "head" # GUI
      BY ThreadNames DEF Conns
    <3>2. QED BY <1>18, <3>1 DEF TransferInv, Shapes, Input
  <2>3. QED BY <1>5, <1>18, <1>21, <2>1, <2>2 DEF TransferInv, Shapes, accepting
<1>28. KnownFirst'
  <2>1. \A m \in Nodes : Connected(m)' <=> Connected(m)
    BY <1>5 DEF accepting, Connected
  <2>2. Reached' = Reached
    BY <2>1 DEF Reached
  <2>3. \A m \in Nodes : toHead'[m] # << >> \/ toPeer'[m] # << >> => Connected(m)'
    BY <1>10, <1>18, <1>22, <2>1 DEF TransferInv, KnownFirst
  <2>4. QED BY <1>5, <2>2, <2>3 DEF TransferInv, KnownFirst
<1>29. Halves'
  <2>1. \A s \in Threads : s # t => (s \in half' <=> s \in half) /\ todo'[s] = todo[s]
    BY <1>5 DEF TransferInv, Assigned
  <2>2. half' \subseteq {Rx(e) : e \in Conns} \cup {Loop(m) : m \in Nodes}
    BY <1>1, <1>5 DEF TransferInv, Halves
  <2>3. \A s, w \in half' : Program(s) = Program(w) => s = w
    BY <1>2, <1>5, <1>12 DEF TransferInv, Halves
  <2>4. \A m \in Nodes : Loop(m) # t /\ Loop(m) \in Threads
    BY <1>1, ThreadsDiffer, ThreadNames
  <2>5. ASSUME NEW m \in Nodes, Loop(m) \in half' PROVE HalfOf(Loop(m), toHead[m])'
    <3>1. HalfOf(Loop(m), toHead[m]) /\ todo'[Loop(m)] = todo[Loop(m)]
      BY <2>1, <2>4, <2>5 DEF TransferInv, Halves
    <3>2. QED BY <1>18, <3>1 DEF HalfOf, Task, Ends, Odd, Piece
  <2>6. ASSUME NEW e \in Conns, Rx(e) \in half'
        PROVE  \E f \in Conns : Head(todo'[Rx(e)]).to = f /\ HalfOf(Rx(e), toPeer[f])'
    <3>1. Rx(e) = t /\ t \in half'
      BY <1>1, <1>13, <2>6
    <3>2. todo' = todo /\ Ends(v, Piece(t, p, 1))
      BY <1>5, <1>20, <3>1
    <3>3. HalfOf(t, v)'
      BY <1>3, <1>5, <3>2 DEF HalfOf, Task, Ends, Odd, Piece
    <3>4. HalfOf(Rx(e), toPeer[d])'
      BY <1>17, <3>1, <3>3 DEF HalfOf
    <3>5. QED BY <1>4, <1>10, <3>1, <3>2, <3>4
  <2>7. ASSUME NEW e \in Conns, Odd(toHead[e])' PROVE e \in Nodes /\ Loop(e) \in half'
    BY <1>18, <2>1, <2>4, <2>7 DEF TransferInv, Halves, Odd
  <2>8. ASSUME NEW e \in Conns, Odd(toPeer[e])'
        PROVE  \E f \in Conns : Rx(f) \in half' /\ Head(todo'[Rx(f)]).to = e
    <3>1. CASE e = d
      <4>1. t \in half'
        BY <1>17, <1>20, <2>8, <3>1 DEF Odd
      <4>2. QED BY <1>1, <1>4, <1>5, <3>1, <4>1
    <3>2. CASE e # d
      BY <1>14, <1>18, <2>8, <3>2 DEF Odd
    <3>3. QED BY <3>1, <3>2
  <2>9. QED BY <2>2, <2>3, <2>5, <2>6, <2>7, <2>8 DEF Halves, Rx, Loop, Program
<1>30. QED BY <1>24, <1>25, <1>26, <1>27, <1>28, <1>29 DEF TransferInv

-----------------------------------------------------------------------------
(* Connecting, and the GUI's buttons.                                       *)

\* Nobody's tasks change, and a stream to the head only where no node is in the middle of
\* a packet, to whole packets.
LEMMA OpenStep ==
  ASSUME TransferInv, UNCHANGED <<toPeer, half, todo, store, node, ip>>,
         DOMAIN toHead' = Conns,
         \A c \in Conns : toHead'[c] # toHead[c] =>
           /\ IsSeq(toHead'[c]) /\ Whole(toHead'[c]) /\ ~Odd(toHead'[c])
           /\ c \in Nodes => Connected(c)' /\ Loop(c) \notin half,
         \A n \in Nodes : Connected(n) => Connected(n)',
         backlog' \subseteq Conns, nsockfd' \in Conns \cup {None}, DOMAIN sock' = Conns,
         \A c \in Conns : sock'[c] # None => nsockfd' # None
  PROVE  TransferInv'
<1>1. Grows /\ Inputs'
  BY DEF Grows, Arriving, TransferInv, Inputs, StreamOrder
<1>2. Assigned'
  <2>1. Rx(GUI) \in Threads
    BY ThreadNames DEF Conns
  <2>2. PICK l : l = todo[Rx(GUI)]
    OBVIOUS
  <2>3. TodoIs(Rx(GUI), l) /\ Suits(Rx(GUI), l)
    BY <2>1, <2>2, SuitsNow DEF TodoIs
  <2>4. Suits(Rx(GUI), l)'
    BY <1>1, <2>3, SuitsGrows
  <2>5. QED BY <1>1, <2>1, <2>3, <2>4, AssignedStep DEF TransferInv
<1>3. WholePackets'
  BY DEF TransferInv, WholePackets
<1>4. Shapes'
  <2>1. \A c \in Conns : IsSeq(toHead[c])' /\ IsSeq(toPeer[c])'
    BY DEF TransferInv, Shapes
  <2>2. QED BY <2>1 DEF TransferInv, Shapes, Input
<1>5. KnownFirst'
  <2>1. \A n \in Reached : n \in Reached'
    BY <1>1, ReachedGrows
  <2>2. \A n \in Nodes : toHead'[n] # << >> \/ toPeer'[n] # << >> => Connected(n)'
    BY DEF TransferInv, KnownFirst, Conns
  <2>3. QED BY <2>1, <2>2 DEF TransferInv, KnownFirst
<1>6. Halves'
  <2>1. ASSUME NEW n \in Nodes, Loop(n) \in half PROVE HalfOf(Loop(n), toHead[n])'
    <3>1. toHead'[n] = toHead[n] /\ HalfOf(Loop(n), toHead[n])
      BY <2>1 DEF TransferInv, Halves, Conns
    <3>2. QED BY <3>1 DEF HalfOf, Task, Ends, Odd, Piece
  <2>2. ASSUME NEW c \in Conns, Rx(c) \in half
        PROVE  \E d \in Conns : Head(todo'[Rx(c)]).to = d /\ HalfOf(Rx(c), toPeer[d])'
    BY <2>2 DEF TransferInv, Halves, HalfOf, Task, Ends, Odd, Piece
  <2>3. \A c \in Conns : Odd(toHead[c])' => c \in Nodes /\ Loop(c) \in half
    BY DEF TransferInv, Halves, Odd
  <2>4. \A c \in Conns : Odd(toPeer[c])' => \E d \in Conns : Rx(d) \in half /\ Head(todo'[Rx(d)]).to = c
    BY DEF TransferInv, Halves, Odd
  <2>5. /\ half \subseteq {Rx(c) : c \in Conns} \cup {Loop(n) : n \in Nodes}
        /\ \A s, t \in half : Program(s) = Program(t) => s = t
    BY DEF TransferInv, Halves
  <2>6. QED BY <2>1, <2>2, <2>3, <2>4, <2>5 DEF Halves, Rx, Loop, Program
<1>7. QED BY <1>1, <1>2, <1>3, <1>4, <1>5, <1>6 DEF TransferInv

\* A whole packet more.
LEMMA PacketAdded ==
  ASSUME NEW s, IsSeq(s), Whole(s), ~Odd(s), NEW t, NEW p, NEW u, u = s \o Both(t, p)
  PROVE  IsSeq(u) /\ Whole(u) /\ ~Odd(u)
<1>1. IsSeq(Both(t, p))
  BY SeqTuples DEF Both
<1>2. QED BY <1>1, SeqConcat, WholeStep

LEMMA StepConnect ==
  ASSUME TransferInv, NEW c \in Conns, Connect(c) PROVE TransferInv'
<1>1. PICK t, p : toHead' = [toHead EXCEPT ![c] = Both(t, p)]
  BY DEF Connect
<1>2. /\ UNCHANGED <<nsockfd, sock, toPeer, half, todo, store, node, ip>>
      /\ backlog' = backlog \cup {c} /\ c \notin backlog /\ sock[c] = None
  BY DEF Connect, table, jobs
<1>3. PICK u : u = Both(t, p)
  OBVIOUS
<1>4. IsSeq(u) /\ Whole(u) /\ ~Odd(u)
  <2>1. PICK e : e = << >>
    OBVIOUS
  <2>2. IsSeq(e)
    BY <2>1, EmptySeq, ASeq
  <2>3. Len(e) = 0 /\ DOMAIN e = 1 .. Len(e)
    BY ONLY <2>1, <2>2, SeqLen
  <2>4. DOMAIN e = {} /\ Len(e) % 2 # 1
    BY <2>3
  <2>5. Whole(e) /\ ~Odd(e)
    BY <2>4 DEF Whole, Odd
  <2>6. IsSeq(Both(t, p))
    BY SeqTuples DEF Both
  <2>7. e \o Both(t, p) = u
    <3>1. PICK S : u \in Seq(S)
      BY <1>3, <2>6 DEF IsSeq
    <3>2. QED BY <1>3, <2>1, <3>1, ConcatEmptySeq
  <2>8. QED BY <2>2, <2>5, <2>7, PacketAdded
<1>5. DOMAIN toHead' = Conns /\ toHead'[c] = u /\ \A d \in Conns : d # c => toHead'[d] = toHead[d]
  BY <1>1, <1>3 DEF TransferInv, Shapes
<1>6. c \in Nodes => Connected(c)' /\ Loop(c) \notin half
  <2>1. HAVE c \in Nodes
  <2>2. ~Connected(c) /\ Connected(c)'
    BY <1>2 DEF Connected
  <2>3. todo[Loop(c)] = << >>
    BY <2>1, <2>2, LoopList
  <2>4. Loop(c) \notin half
    BY <2>1, <2>3, NotHalf, ThreadNames DEF Task
  <2>5. QED BY <2>2, <2>4
<1>7. \A n \in Nodes : Connected(n) => Connected(n)'
  BY <1>2 DEF Connected
<1>8. /\ backlog' \subseteq Conns /\ nsockfd' \in Conns \cup {None} /\ DOMAIN sock' = Conns
      /\ \A d \in Conns : sock'[d] # None => nsockfd' # None
  BY <1>2 DEF TransferInv, Shapes
<1>9. QED BY <1>2, <1>4, <1>5, <1>6, <1>7, <1>8, OpenStep

LEMMA StepAccept ==
  ASSUME TransferInv, NEW c \in Conns, Accept(c) \/ ThreadStarts(c) PROVE TransferInv'
<1>1. UNCHANGED <<toHead, toPeer, half, todo, store, node, ip>> /\ DOMAIN sock = Conns /\ DOMAIN toHead' = Conns
  BY DEF Accept, ThreadStarts, net, table, jobs, TransferInv, Shapes
<1>2. c # None /\ "new" # None
  BY ThreadNames DEF None
<1>3. CASE Accept(c)
  <2>1. backlog' = backlog \ {c} /\ nsockfd' = c /\ sock' = [sock EXCEPT ![c] = "new"]
    BY <1>3 DEF Accept
  <2>2. \A n \in Nodes : Connected(n) => Connected(n)'
    BY <1>1, <1>2, <2>1 DEF Connected, Conns
  <2>3. /\ backlog' \subseteq Conns /\ nsockfd' \in Conns \cup {None} /\ DOMAIN sock' = Conns
        /\ \A d \in Conns : sock'[d] # None => nsockfd' # None
    BY <1>2, <2>1 DEF TransferInv, Shapes
  <2>4. QED BY <1>1, <2>2, <2>3, OpenStep
<1>4. CASE ThreadStarts(c)
  <2>1. UNCHANGED <<backlog, nsockfd>> /\ sock[c] = "new" /\ sock' = [sock EXCEPT ![c] = nsockfd]
    BY <1>4 DEF ThreadStarts
  <2>2. nsockfd # None
    BY <1>2, <2>1 DEF TransferInv, Shapes
  <2>3. \A n \in Nodes : Connected(n) => Connected(n)'
    BY <1>1, <2>1, <2>2 DEF Connected, Conns
  <2>4. /\ backlog' \subseteq Conns /\ nsockfd' \in Conns \cup {None} /\ DOMAIN sock' = Conns
        /\ \A d \in Conns : sock'[d] # None => nsockfd' # None
    BY <2>1, <2>2 DEF TransferInv, Shapes
  <2>5. QED BY <1>1, <2>3, <2>4, OpenStep
<1>5. QED BY <1>3, <1>4

LEMMA StepAsk ==
  ASSUME TransferInv, NEW id, Ask(id) PROVE TransferInv'
<1>1. PICK t, p : toHead' = [toHead EXCEPT ![GUI] = @ \o Both(t, p)]
  BY DEF Ask
<1>2. UNCHANGED <<backlog, nsockfd, sock, toPeer, half, todo, store, node, ip>>
  BY DEF Ask, accepting, table, jobs
<1>3. GUI \in Conns /\ GUI \notin Nodes
  BY ThreadNames DEF Conns
<1>4. IsSeq(toHead[GUI]) /\ Whole(toHead[GUI]) /\ ~Odd(toHead[GUI])
  BY <1>3 DEF TransferInv, Shapes, WholePackets, Halves
<1>5. PICK u : u = toHead[GUI] \o Both(t, p)
  OBVIOUS
<1>6. IsSeq(u) /\ Whole(u) /\ ~Odd(u)
  BY <1>4, <1>5, PacketAdded
<1>7. DOMAIN toHead' = Conns /\ toHead'[GUI] = u /\ \A d \in Conns : d # GUI => toHead'[d] = toHead[d]
  BY <1>1, <1>3, <1>5 DEF TransferInv, Shapes
<1>8. \A n \in Nodes : Connected(n) => Connected(n)'
  BY <1>2 DEF Connected
<1>9. /\ backlog' \subseteq Conns /\ nsockfd' \in Conns \cup {None} /\ DOMAIN sock' = Conns
      /\ \A d \in Conns : sock'[d] # None => nsockfd' # None
  BY <1>2 DEF TransferInv, Shapes
<1>10. QED BY <1>2, <1>3, <1>6, <1>7, <1>8, <1>9, OpenStep

-----------------------------------------------------------------------------
(* The whole program.                                                       *)

LEMMA TransferInit == Init => TransferInv
<1>1. SUFFICES ASSUME Init PROVE TransferInv
  OBVIOUS
<1>2. PICK e : e = << >>
  OBVIOUS
<1>3. IsSeq(e) /\ DOMAIN e = {} /\ Len(e) = 0
  <2>1. IsSeq(e)
    BY <1>2, EmptySeq, ASeq
  <2>2. Len(e) = 0 /\ DOMAIN e = 1 .. Len(e)
    BY ONLY <1>2, <2>1, SeqLen
  <2>3. QED BY <2>1, <2>2
<1>4. Whole(e) /\ ~Odd(e)
  <2>1. Len(e) % 2 # 1
    BY <1>3
  <2>2. QED BY <1>3, <2>1 DEF Whole, Odd
<1>5. /\ backlog = {} /\ nsockfd = None /\ DOMAIN sock = Conns /\ \A c \in Conns : sock[c] = None
      /\ DOMAIN toHead = Conns /\ DOMAIN toPeer = Conns
      /\ \A c \in Conns : toHead[c] = e /\ toPeer[c] = e
      /\ half = {} /\ DOMAIN todo = Threads /\ \A t \in Threads : todo[t] = e
      /\ node = {} /\ DOMAIN ip = Jobs /\ \A j \in Jobs : ip[j] = None
  BY <1>1, <1>2 DEF Init
<1>6. Shapes
  <2>1. PICK I : I = Jobs \X {"sim.gpvdm"}
    OBVIOUS
  <2>2. IsFiniteSet(I)
    <3>1. IsFiniteSet(Jobs)
      <4>1. NJobs \in Nat
        BY TransferAssumption
      <4>2. QED BY ONLY <4>1, FS_Interval DEF Jobs
    <3>2. PICK J : J = Jobs
      OBVIOUS
    <3>3. PICK F : F = {"sim.gpvdm"}
      OBVIOUS
    <3>4. IsFiniteSet(F)
      BY ONLY <3>3, FS_Singleton
    <3>5. IsFiniteSet(J)
      BY <3>1, <3>2
    <3>6. IsFiniteSet(J \X F)
      BY ONLY <3>4, <3>5, FS_Product
    <3>7. QED BY <2>1, <3>2, <3>3, <3>6
  <2>3. IsFiniteSet({})
    BY ONLY FS_EmptySet
  <2>4. "head" \notin Conns
    BY ThreadNames
  <2>5. /\ DOMAIN store = Conns \cup {"head"} /\ store["head"] = I
        /\ \A m \in DOMAIN store : store[m] \in {I, {}}
    BY <1>1, <2>1 DEF Init
  <2>6. \A m \in DOMAIN store : IsFiniteSet(store[m])
    BY <2>2, <2>3, <2>5
  <2>7. \A j \in Jobs : Input(j) \in store["head"]
    BY <2>1, <2>5 DEF Input
  <2>8. QED BY <1>3, <1>5, <2>5, <2>6, <2>7 DEF Shapes
<1>7. KnownFirst
  BY <1>2, <1>5 DEF KnownFirst, Reached, Conns
<1>8. Assigned
  <2>1. HeadList(e)
    BY <1>3, HeadListPlain
  <2>2. \A t \in Threads : Suits(t, e)
    BY <1>2, <1>3, <2>1 DEF Suits
  <2>3. QED BY <1>5, <2>2 DEF Assigned
<1>9. Halves
  BY <1>4, <1>5 DEF Halves
<1>10. WholePackets
  BY <1>4, <1>5 DEF WholePackets
<1>11. Inputs
  BY <1>3, <1>5 DEF Inputs, StreamOrder, Conns
<1>12. QED BY <1>6, <1>7, <1>8, <1>9, <1>10, <1>11 DEF TransferInv

LEMMA TransferStutters == TransferInv /\ UNCHANGED vars => TransferInv'
<1>1. SUFFICES ASSUME TransferInv, UNCHANGED vars PROVE TransferInv'
  OBVIOUS
<1>2. UNCHANGED <<backlog, nsockfd, sock, toHead, toPeer, half, todo, store, node, ip>>
  BY <1>1 DEF vars, accepting, net, table, jobs
<1>3. \A n \in Nodes : Connected(n) => Connected(n)'
  BY <1>2 DEF Connected
<1>4. /\ DOMAIN toHead' = Conns
      /\ backlog' \subseteq Conns /\ nsockfd' \in Conns \cup {None} /\ DOMAIN sock' = Conns
      /\ \A d \in Conns : sock'[d] # None => nsockfd' # None
  BY <1>1, <1>2 DEF TransferInv, Shapes
<1>5. QED BY <1>1, <1>2, <1>3, <1>4, OpenStep

LEMMA TransferStep == TransferInv /\ [Next]_vars => TransferInv'
<1>1. SUFFICES ASSUME TransferInv, Next PROVE TransferInv'
  BY TransferStutters
<1>2. ASSUME NEW c \in Conns, Connect(c) \/ Accept(c) \/ ThreadStarts(c) PROVE TransferInv'
  BY <1>1, <1>2, StepConnect, StepAccept
<1>3. ASSUME NEW c \in Conns, RxLoop(c) PROVE TransferInv'
  <2>1. CASE \/ Perform(Rx(c)) \/ fwrite(Rx(c)) \/ run_jobs(Rx(c)) \/ Started(Rx(c)) \/ SetCopied(Rx(c))
    BY <1>1, <2>1, StepHeadSends, StepSendDirHead, StepFwrite, StepRunJobs, StepBooks DEF Perform
  <2>2. ASSUME NEW d \in Conns,
               \/ cmp_rxfile(c, d) \/ cmp_addnode(c, d) \/ cmp_runjobs(c, d)
               \/ cmp_simfinished(c, d) \/ cmp_register_master(c, d) \/ cmp_get_data(c, d)
        PROVE  TransferInv'
    BY <1>1, <2>2, StepRxFile, StepRegister, StepOrdered, StepGetData
  <2>3. QED BY <1>3, <2>1, <2>2 DEF RxLoop
<1>4. ASSUME NEW n \in Nodes, Node(n) PROVE TransferInv'
  <2>1. CASE Perform(Loop(n))
    BY <1>1, <2>1, ThreadNames, StepNodeSends, StepSendDirNode DEF Perform
  <2>2. CASE NodeRxFile(n) \/ cmp_node_runjob(n) \/ cmp_node_send_data(n)
    BY <1>1, <2>2, StepNodeRxFile, StepNodeRunJob, StepNodeSendData
  <2>3. QED BY <1>4, <2>1, <2>2 DEF Node
<1>5. ASSUME NEW n \in Nodes, NEW j \in Jobs, NodeJob(n, j) PROVE TransferInv'
  <2>1. CASE exec_command(n, j)
    BY <1>1, <2>1, StepExecCommand
  <2>2. CASE SendAll(Exec(n, j))
    BY <1>1, <2>2, ThreadNames, StepNodeSends
  <2>3. QED BY <1>5, <2>1, <2>2 DEF NodeJob
<1>6. CASE cluster_run_jobs \/ cluster_get_data
  BY <1>1, <1>6, StepAsk DEF cluster_run_jobs, cluster_get_data
<1>7. QED BY <1>1, <1>2, <1>3, <1>4, <1>5, <1>6 DEF Next

\* Streams of whole packets, nobody in the middle of another's packet, and every job's
\* input on its way before the command: every step of the head, the nodes and the GUI
\* keeps this, whatever the number of nodes and jobs.
THEOREM TransferInvHolds == (Spec => []TransferInv) /\ (MCSpec => []TransferInv)
<1>1. Spec => []TransferInv
  BY TransferInit, TransferStep, PTL DEF Spec
<1>2. MCInit => TransferInv
  BY TransferInit DEF MCInit
<1>3. [MCNext]_mcvars => [Next]_vars
  BY DEF MCNext, TransferNext, StoreNext, RunnerNext, mcvars
<1>4. MCSpec => []TransferInv
  BY <1>2, <1>3, TransferStep, PTL DEF MCSpec
<1>5. QED BY <1>1, <1>4

\* rx_packet never finds "odd data": send_all holds mutex1 for a whole packet, and all of
\* a program's threads send under that one mutex.
THEOREM WholePacketsHolds == (Spec => []WholePackets) /\ (MCSpec => []WholePackets)
<1>1. TransferInv => WholePackets
  BY DEF TransferInv
<1>2. QED BY <1>1, TransferInvHolds, PTL

\* A job's program finds its input, whichever threads of the head sent the files and the
\* command: the one that chose the job sends both, in this order, on one stream.
THEOREM RunsWithItsInputHolds == (Spec => []RunsWithItsInput) /\ (MCSpec => []RunsWithItsInput)
<1>1. TransferInv => RunsWithItsInput
  <2>1. SUFFICES ASSUME TransferInv, NEW n \in Nodes, NEW j \in Jobs, Task(Exec(n, j), "exec_command")
                 PROVE  Input(j) \in Head(todo[Exec(n, j)]).input
    BY DEF RunsWithItsInput, Input
  <2>2. PICK l : l = todo[Exec(n, j)]
    OBVIOUS
  <2>3. l # << >> /\ Head(l).do = "exec_command"
    BY <2>1, <2>2 DEF Task
  <2>4. Suits(Exec(n, j), l) /\ IsSeq(l)
    BY <2>1, <2>2, SuitsNow, ThreadNames
  <2>5. Head(l) = l[1] /\ 1 \in DOMAIN l
    BY <2>3, <2>4, SeqTail
  <2>6. ExecTask(l[1], j)
    BY <2>4, <2>5 DEF Suits
  <2>7. QED BY <2>2, <2>3, <2>5, <2>6 DEF ExecTask
<1>2. QED BY <1>1, TransferInvHolds, PTL
=============================================================================
