--------------------------- MODULE ThreadPoolProofs ---------------------------
(* What ThreadPool guarantees for every finite set of workers and every     *)
(* number of tasks, proved with TLAPS.                                      *)
EXTENDS ThreadPool, FiniteSetTheorems, TLAPS

(***************************************************************************)
(* The inductive invariant.                                                *)
(***************************************************************************)
Count(f, p) == Cardinality({w \in Worker : f[w] = p})

(* What submit() has numbered is, in this order, taken or still queued, and *)
(* what has been taken is being executed or has been.                       *)
Ledger ==
  /\ Len(taken) + Len(tasks) = submitted
  /\ \A i \in 1..Len(taken) : taken[i] = i
  /\ \A i \in 1..Len(tasks) : tasks[i] = Len(taken) + i
  /\ completed + Count(wpc, "run") = Len(taken)

(* Between a worker's look at the predicate and its sleep the mutex is its  *)
(* own, and so the predicate stays false.                                   *)
MutexHeld ==
  /\ \A w \in Worker : wpc[w] = "sleep" => mu = w
  /\ mu # NoWorker => tasks = <<>>

(* stop_ is set for good by the destructor, which submits nothing any more; *)
(* a worker leaves only an empty queue behind.                              *)
Shutdown ==
  /\ stop <=> opc \in {"notify_all", "join", "joined"}
  /\ \A w \in Worker : wpc[w] = "exited" => stop /\ tasks = <<>>
  /\ opc = "joined" => \A w \in Worker : wpc[w] = "exited"

(* The owner, who alone submits, reads submitted_ first and the queue last. *)
Snapshot ==
  /\ opc \in {"stats2", "stats3", "stats"} => snap.submitted = submitted
  /\ opc = "stats3" => snap.completed <= completed

IInv == TypeOK /\ Ledger /\ MutexHeld /\ Shutdown /\ Snapshot /\ WorkConserving /\ StatsAddUp

(***************************************************************************)
(* Counting the workers at a place.                                        *)
(***************************************************************************)
Places == {"lock", "sleep", "waiting", "run", "exited"}

LEMMA WorkersFinite == Worker # {} /\ IsFiniteSet(Worker) /\ NoWorker \notin Worker /\ MaxTasks \in Nat
BY ThreadPoolAssumption

LEMMA CountType ==
  ASSUME NEW f, NEW p
  PROVE  Count(f, p) \in Nat /\ (Count(f, p) = 0 <=> ~ \E w \in Worker : f[w] = p)
<1> DEFINE S == {w \in Worker : f[w] = p}
<1>1. IsFiniteSet(S) /\ Cardinality(S) \in Nat
  <2>1. S \in SUBSET Worker
    OBVIOUS
  <2>2. IsFiniteSet(S)
    BY <2>1, WorkersFinite, FS_Subset
  <2> QED BY <2>2, FS_CardinalityType
<1>2. Cardinality(S) = 0 <=> S = {}
  BY <1>1, FS_EmptySet
<1> QED BY <1>1, <1>2 DEF Count

(* When one worker goes elsewhere, what is counted at p changes by one if p *)
(* is the place it leaves or the place it goes to, and not otherwise.       *)
LEMMA CountMoves ==
  ASSUME NEW f, NEW w \in Worker, NEW g, NEW p, \A v \in Worker \ {w} : g[v] = f[v]
  PROVE  /\ f[w] # p /\ g[w] = p => Count(g, p) = Count(f, p) + 1
         /\ f[w] = p /\ g[w] # p => Count(g, p) = Count(f, p) - 1
         /\ (f[w] = p <=> g[w] = p) => Count(g, p) = Count(f, p)
<1> DEFINE S == {v \in Worker : f[v] = p}
           T == {v \in Worker : g[v] = p}
<1>1. IsFiniteSet(S) /\ Cardinality(S) \in Nat
  <2>1. S \in SUBSET Worker
    OBVIOUS
  <2> QED BY <2>1, WorkersFinite, FS_Subset, FS_CardinalityType
<1>2. ASSUME f[w] = p, g[w] # p PROVE Count(g, p) = Count(f, p) - 1
  <2>1. T = S \ {w} /\ w \in S
    BY <1>2
  <2>2. Cardinality(T) = Cardinality(S) - 1
    BY <1>1, <2>1, FS_RemoveElement
  <2> QED BY <2>2 DEF Count
<1>3. ASSUME f[w] # p, g[w] = p PROVE Count(g, p) = Count(f, p) + 1
  <2>1. T = S \cup {w} /\ w \notin S
    BY <1>3
  <2>2. Cardinality(T) = Cardinality(S) + 1
    BY <1>1, <2>1, FS_AddElement
  <2> QED BY <2>2 DEF Count
<1>4. ASSUME f[w] = p <=> g[w] = p PROVE Count(g, p) = Count(f, p)
  <2>1. T = S
    BY <1>4
  <2> QED BY <2>1 DEF Count
<1> QED BY <1>2, <1>3, <1>4

(* Where the counters are: nothing is completed that was not submitted.     *)
LEMMA Bounds ==
  ASSUME IInv
  PROVE  /\ Len(tasks) \in Nat /\ Len(taken) \in Nat /\ Count(wpc, "run") \in Nat
         /\ Len(tasks) <= submitted /\ completed <= submitted /\ completed \in Nat
         /\ (\E w \in Worker : wpc[w] = "run") => completed < submitted
<1>1. Len(tasks) \in Nat /\ Len(taken) \in Nat /\ submitted \in Nat /\ completed \in Nat
  BY WorkersFinite DEF IInv, TypeOK
<1>2. Count(wpc, "run") \in Nat /\ ((\E w \in Worker : wpc[w] = "run") => Count(wpc, "run") # 0)
  BY CountType
<1>3. Len(taken) + Len(tasks) = submitted /\ completed + Count(wpc, "run") = Len(taken)
  BY DEF IInv, Ledger
<1> QED BY <1>1, <1>2, <1>3

(***************************************************************************)
(* Every step keeps the types.                                             *)
(***************************************************************************)
LEMMA TypeStep == ASSUME IInv, [Next]_vars PROVE TypeOK'
<1> USE WorkersFinite DEF queueVars
<1>0. TypeOK
  BY DEF IInv
<1>1. CASE Submit
  <2>1. submitted + 1 \in 1..MaxTasks /\ Len(tasks) + 1 \in 0..MaxTasks
    BY <1>0, <1>1, Bounds DEF Submit, TypeOK
  <2>2. tasks' \in Seq(1..MaxTasks)
    BY <1>0, <1>1, <2>1 DEF Submit, TypeOK
  <2> QED BY <1>0, <1>1, <2>1, <2>2 DEF Submit, TypeOK
<1>2. CASE NotifyOne
  <2>1. wpc' \in [Worker -> {"lock", "sleep", "waiting", "run", "exited"}]
    BY <1>0, <1>2 DEF NotifyOne, TypeOK
  <2> QED BY <1>0, <1>2, <2>1 DEF NotifyOne, TypeOK
<1>3. CASE Stop
  BY <1>0, <1>3 DEF Stop, TypeOK
<1>4. CASE NotifyAll
  <2>1. wpc' \in [Worker -> {"lock", "sleep", "waiting", "run", "exited"}]
    BY <1>0, <1>4 DEF NotifyAll, TypeOK
  <2> QED BY <1>0, <1>4, <2>1 DEF NotifyAll, TypeOK
<1>5. CASE Join
  BY <1>0, <1>5 DEF Join, TypeOK
<1>6. CASE StatsSubmitted
  <2>1. snap' = [submitted |-> submitted, completed |-> 0, queue_current |-> 0]
    BY <1>6 DEF StatsSubmitted, NoStats
  <2>2. submitted \in 0..MaxTasks /\ 0 \in 0..MaxTasks
    BY <1>0 DEF TypeOK
  <2>3. snap' \in [submitted : 0..MaxTasks, completed : 0..MaxTasks, queue_current : 0..MaxTasks]
    BY <2>1, <2>2
  <2> QED BY <1>0, <1>6, <2>3 DEF StatsSubmitted, TypeOK
<1>7. CASE StatsCompleted
  BY <1>0, <1>7 DEF StatsCompleted, TypeOK
<1>8. CASE StatsQueue
  <2>1. Len(tasks) \in 0..MaxTasks
    BY <1>0, Bounds DEF TypeOK
  <2> QED BY <1>0, <1>8, <2>1 DEF StatsQueue, TypeOK
<1>9. CASE StatsReturn
  BY <1>0, <1>9 DEF StatsReturn, NoStats, TypeOK
<1>10. ASSUME NEW w \in Worker, Pop(w) PROVE TypeOK'
  <2>1. Head(tasks) \in 1..MaxTasks /\ Tail(tasks) \in Seq(1..MaxTasks)
    BY <1>0, <1>10 DEF Pop, TypeOK
  <2>2. taken' \in Seq(1..MaxTasks)
    BY <1>0, <1>10, <2>1 DEF Pop, TypeOK
  <2> QED BY <1>0, <1>10, <2>1, <2>2 DEF Pop, TypeOK
<1>11. ASSUME NEW w \in Worker, Exit(w) \/ FindsNothing(w) \/ Sleep(w) \/ SpuriousWakeUp(w)
       PROVE  TypeOK'
  BY <1>0, <1>11 DEF Exit, FindsNothing, Sleep, SpuriousWakeUp, TypeOK
<1>12. ASSUME NEW w \in Worker, Complete(w) PROVE TypeOK'
  <2>1. completed + 1 \in 0..MaxTasks
    BY <1>0, <1>12, Bounds DEF Complete, TypeOK
  <2> QED BY <1>0, <1>12, <2>1 DEF Complete, TypeOK
<1>13. CASE UNCHANGED vars
  BY <1>0, <1>13 DEF vars, TypeOK
<1> QED BY <1>1, <1>2, <1>3, <1>4, <1>5, <1>6, <1>7, <1>8, <1>9, <1>10, <1>11, <1>12, <1>13
        DEF Next, Owner, Joined, workerLoop

(***************************************************************************)
(* Every step keeps the ledger.                                            *)
(***************************************************************************)
LEMMA LedgerStep == ASSUME IInv, [Next]_vars PROVE Ledger'
<1> USE DEF queueVars
<1>0. /\ TypeOK /\ Ledger
      /\ tasks \in Seq(1..MaxTasks) /\ taken \in Seq(1..MaxTasks)
      /\ Len(tasks) \in Nat /\ Len(taken) \in Nat
      /\ submitted \in Nat /\ completed \in Nat /\ Count(wpc, "run") \in Nat
      /\ wpc \in [Worker -> Places]
      /\ Len(taken) + Len(tasks) = submitted /\ completed + Count(wpc, "run") = Len(taken)
  BY Bounds, WorkersFinite DEF IInv, TypeOK, Places, Ledger
<1>a. /\ Len(tasks) \in Nat /\ Len(taken) \in Nat /\ submitted \in Nat /\ completed \in Nat
      /\ Count(wpc, "run") \in Nat
      /\ Len(taken) + Len(tasks) = submitted /\ completed + Count(wpc, "run") = Len(taken)
  BY <1>0
<1>1. CASE Submit
  <2>1. tasks' = Append(tasks, submitted + 1) /\ submitted' = submitted + 1
    BY <1>1 DEF Submit
  <2>2. /\ Len(tasks') = Len(tasks) + 1
        /\ \A i \in 1..Len(tasks') : tasks'[i] = IF i <= Len(tasks) THEN tasks[i] ELSE submitted + 1
    BY <1>0, <2>1
  <2>3. UNCHANGED <<taken, completed, wpc>>
    BY <1>1 DEF Submit
  <2>4. Count(wpc', "run") = Count(wpc, "run")
    BY <2>3
  <2>5. ASSUME NEW i \in 1..Len(tasks') PROVE tasks'[i] = Len(taken) + i
    <3>1. CASE i \in 1..Len(tasks)
      BY <1>0, <2>2, <3>1 DEF Ledger
    <3>2. CASE i = Len(tasks) + 1
      <4>1. tasks'[i] = submitted + 1
        BY <1>a, <2>2, <3>2
      <4> QED BY <1>a, <3>2, <4>1
    <3> QED BY <1>0, <2>2, <3>1, <3>2
  <2> QED BY <1>0, <2>1, <2>2, <2>3, <2>4, <2>5 DEF Ledger
<1>2. CASE NotifyOne
  <2>1. Count(wpc', "run") = Count(wpc, "run")
    <3>1. CASE wpc' = wpc
      BY <3>1
    <3>2. ASSUME NEW w \in Waiting, wpc' = [wpc EXCEPT ![w] = "lock"] PROVE Count(wpc', "run") = Count(wpc, "run")
      <4>1. /\ w \in Worker /\ wpc[w] # "run" /\ wpc'[w] # "run"
            /\ \A v \in Worker \ {w} : wpc'[v] = wpc[v]
        BY <1>0, <3>2 DEF Waiting
      <4> QED BY <4>1, CountMoves
    <3> QED BY <1>2, <3>1, <3>2 DEF NotifyOne
  <2> QED BY <1>0, <1>2, <2>1 DEF NotifyOne, Ledger
<1>3. CASE NotifyAll
  <2>1. {w \in Worker : wpc'[w] = "run"} = {w \in Worker : wpc[w] = "run"}
    BY <1>3 DEF NotifyAll, Waiting
  <2>2. Count(wpc', "run") = Count(wpc, "run")
    BY <2>1 DEF Count
  <2> QED BY <1>0, <1>3, <2>2 DEF NotifyAll, Ledger
<1>4. CASE Stop \/ Join \/ StatsSubmitted \/ StatsCompleted \/ StatsQueue \/ StatsReturn
           \/ UNCHANGED vars
  <2>1. UNCHANGED <<tasks, taken, submitted, completed, wpc>>
    BY <1>4 DEF Stop, Join, StatsSubmitted, StatsCompleted, StatsQueue, StatsReturn, vars
  <2> QED BY <1>0, <2>1 DEF Ledger
<1>5. ASSUME NEW w \in Worker, Pop(w) PROVE Ledger'
  <2>1. /\ tasks # <<>> /\ wpc[w] = "lock" /\ wpc' = [wpc EXCEPT ![w] = "run"]
        /\ taken' = Append(taken, Head(tasks)) /\ tasks' = Tail(tasks)
        /\ UNCHANGED <<submitted, completed>>
    BY <1>5 DEF Pop
  <2>2. Count(wpc', "run") = Count(wpc, "run") + 1
    <3>1. wpc[w] # "run" /\ wpc'[w] = "run" /\ \A v \in Worker \ {w} : wpc'[v] = wpc[v]
      BY <1>0, <2>1
    <3> QED BY <3>1, CountMoves
  <2>3. /\ Len(tasks) >= 1 /\ Len(tasks') = Len(tasks) - 1 /\ Head(tasks) = tasks[1]
        /\ \A i \in 1..Len(tasks') : tasks'[i] = tasks[i + 1]
    BY <1>0, <2>1
  <2>4. Head(tasks) = Len(taken) + 1
    BY <1>0, <2>3 DEF Ledger
  <2>5. /\ Len(taken') = Len(taken) + 1
        /\ \A i \in 1..Len(taken') : taken'[i] = IF i <= Len(taken) THEN taken[i] ELSE Len(taken) + 1
    BY <1>0, <2>1, <2>3, <2>4
  <2>6. \A i \in 1..Len(tasks') : tasks'[i] = Len(taken') + i
    BY <1>0, <2>3, <2>5 DEF Ledger
  <2>7. ASSUME NEW i \in 1..Len(taken') PROVE taken'[i] = i
    <3>1. CASE i \in 1..Len(taken)
      BY <1>0, <2>5, <3>1 DEF Ledger
    <3>2. CASE i = Len(taken) + 1
      BY <1>0, <2>5, <3>2
    <3> QED BY <1>0, <2>5, <3>1, <3>2
  <2>8. Len(taken') + Len(tasks') = submitted' /\ completed' + Count(wpc', "run") = Len(taken')
    <3>1. /\ Len(tasks') = Len(tasks) - 1 /\ Len(taken') = Len(taken) + 1
          /\ submitted' = submitted /\ completed' = completed
      BY <2>1, <2>3, <2>5
    <3> QED BY <1>a, <2>2, <3>1
  <2> QED BY <2>6, <2>7, <2>8 DEF Ledger
<1>6. ASSUME NEW w \in Worker, Exit(w) \/ FindsNothing(w) \/ Sleep(w) \/ SpuriousWakeUp(w)
      PROVE  Ledger'
  <2>1. /\ UNCHANGED <<tasks, taken, submitted, completed>> /\ wpc[w] # "run"
        /\ \E q \in Places \ {"run"} : wpc' = [wpc EXCEPT ![w] = q]
    BY <1>6 DEF Exit, FindsNothing, Sleep, SpuriousWakeUp, Places
  <2>2. Count(wpc', "run") = Count(wpc, "run")
    <3>1. wpc[w] # "run" /\ wpc'[w] # "run" /\ \A v \in Worker \ {w} : wpc'[v] = wpc[v]
      BY <1>0, <2>1
    <3> QED BY <3>1, CountMoves
  <2> QED BY <1>0, <2>1, <2>2 DEF Ledger
<1>7. ASSUME NEW w \in Worker, Complete(w) PROVE Ledger'
  <2>1. /\ UNCHANGED <<tasks, taken, submitted>> /\ completed' = completed + 1
        /\ wpc[w] = "run" /\ wpc' = [wpc EXCEPT ![w] = "lock"]
    BY <1>7 DEF Complete
  <2>2. Count(wpc', "run") = Count(wpc, "run") - 1
    <3>1. wpc[w] = "run" /\ wpc'[w] # "run" /\ \A v \in Worker \ {w} : wpc'[v] = wpc[v]
      BY <1>0, <2>1
    <3> QED BY <3>1, CountMoves
  <2> QED BY <1>0, <2>1, <2>2 DEF Ledger
<1> QED BY <1>1, <1>2, <1>3, <1>4, <1>5, <1>6, <1>7 DEF Next, Owner, Joined, workerLoop

(***************************************************************************)
(* Every step keeps what is said of the mutex, the shutdown and the        *)
(* snapshot.                                                               *)
(***************************************************************************)
LEMMA MutexStep == ASSUME IInv, [Next]_vars PROVE MutexHeld'
<1> USE DEF queueVars
<1>0. TypeOK /\ MutexHeld /\ NoWorker \notin Worker
  BY WorkersFinite DEF IInv
<1>1. CASE Submit \/ Stop \/ Join \/ StatsSubmitted \/ StatsCompleted \/ StatsQueue \/ StatsReturn
           \/ UNCHANGED vars
  BY <1>0, <1>1 DEF Submit, Stop, Join, StatsSubmitted, StatsCompleted, StatsQueue, StatsReturn,
                    vars, MutexHeld
<1>2. CASE NotifyOne \/ NotifyAll
  <2>1. UNCHANGED <<mu, tasks>> /\ \A w \in Worker : wpc'[w] = "sleep" => wpc[w] = "sleep"
    BY <1>0, <1>2 DEF NotifyOne, NotifyAll, Waiting, TypeOK
  <2> QED BY <1>0, <2>1 DEF MutexHeld
<1>3. ASSUME NEW w \in Worker, workerLoop(w) \/ SpuriousWakeUp(w) PROVE MutexHeld'
  BY <1>0, <1>3 DEF workerLoop, Pop, Exit, FindsNothing, Sleep, Complete, SpuriousWakeUp,
                    MutexHeld, TypeOK
<1> QED BY <1>1, <1>2, <1>3 DEF Next, Owner, Joined

LEMMA ShutdownStep == ASSUME IInv, [Next]_vars PROVE Shutdown'
<1> USE DEF queueVars
<1>0. TypeOK /\ Shutdown
  BY DEF IInv
<1>1. CASE Submit \/ Stop \/ Join \/ StatsSubmitted \/ StatsCompleted \/ StatsQueue \/ StatsReturn
           \/ UNCHANGED vars
  BY <1>0, <1>1 DEF Submit, Stop, Join, StatsSubmitted, StatsCompleted, StatsQueue, StatsReturn,
                    vars, Shutdown
<1>2. CASE NotifyOne \/ NotifyAll
  <2>1. UNCHANGED <<stop, tasks>> /\ \A w \in Worker : wpc'[w] = "exited" => wpc[w] = "exited"
    BY <1>0, <1>2 DEF NotifyOne, NotifyAll, Waiting, TypeOK
  <2>2. /\ opc \in {"notify_all", "join", "joined"} <=> opc' \in {"notify_all", "join", "joined"}
        /\ opc' # "joined"
    BY <1>2 DEF NotifyOne, NotifyAll
  <2> QED BY <1>0, <2>1, <2>2 DEF Shutdown
<1>3. ASSUME NEW w \in Worker, Exit(w) PROVE Shutdown'
  BY <1>0, <1>3 DEF Exit, Shutdown, TypeOK
<1>4. ASSUME NEW w \in Worker, Pop(w) \/ FindsNothing(w) \/ Sleep(w) \/ Complete(w) \/ SpuriousWakeUp(w)
      PROVE  Shutdown'
  <2>1. /\ wpc[w] # "exited" /\ UNCHANGED <<stop, opc>>
        /\ \A v \in Worker : wpc'[v] = "exited" <=> wpc[v] = "exited"
        /\ tasks = <<>> => tasks' = <<>>
    BY <1>0, <1>4 DEF Pop, FindsNothing, Sleep, Complete, SpuriousWakeUp, TypeOK
  <2> QED BY <1>0, <2>1 DEF Shutdown
<1> QED BY <1>1, <1>2, <1>3, <1>4 DEF Next, Owner, Joined, workerLoop

LEMMA SnapshotStep == ASSUME IInv, [Next]_vars PROVE Snapshot' /\ StatsAddUp'
<1> USE DEF queueVars
<1>0. /\ TypeOK /\ Snapshot /\ StatsAddUp /\ Len(tasks) \in Nat /\ Len(taken) \in Nat
      /\ submitted \in Nat /\ completed \in Nat /\ Count(wpc, "run") \in Nat
      /\ Len(taken) + Len(tasks) = submitted /\ completed + Count(wpc, "run") = Len(taken)
  BY Bounds, WorkersFinite DEF IInv, TypeOK, Ledger
<1>1. CASE Submit \/ NotifyOne \/ Stop \/ NotifyAll \/ Join \/ StatsReturn
  BY <1>1 DEF Submit, NotifyOne, Stop, NotifyAll, Join, StatsReturn, Snapshot, StatsAddUp
<1>2. CASE StatsSubmitted
  <2>1. snap' = [submitted |-> submitted, completed |-> 0, queue_current |-> 0]
    BY <1>2 DEF StatsSubmitted, NoStats
  <2> QED BY <1>2, <2>1 DEF StatsSubmitted, Snapshot, StatsAddUp
<1>3. CASE StatsCompleted
  <2>1. snap'.completed = completed /\ snap'.submitted = snap.submitted
    BY <1>0, <1>3 DEF StatsCompleted, TypeOK
  <2> QED BY <1>0, <1>3, <2>1 DEF StatsCompleted, Snapshot, StatsAddUp
<1>4. CASE StatsQueue
  <2>1. /\ snap'.queue_current = Len(tasks)
        /\ snap'.completed = snap.completed /\ snap'.submitted = snap.submitted
    BY <1>0, <1>4 DEF StatsQueue, TypeOK
  <2>2. snap.completed \in Nat /\ snap.submitted = submitted /\ snap.completed <= completed
    BY <1>0, <1>4, WorkersFinite DEF StatsQueue, Snapshot, TypeOK
  <2> QED BY <1>0, <1>4, <2>1, <2>2 DEF StatsQueue, Snapshot, StatsAddUp
<1>5. ASSUME NEW w \in Worker, workerLoop(w) \/ SpuriousWakeUp(w) PROVE Snapshot' /\ StatsAddUp'
  <2>1. UNCHANGED <<opc, snap, submitted>> /\ (completed' = completed \/ completed' = completed + 1)
    BY <1>5 DEF workerLoop, Pop, Exit, FindsNothing, Sleep, Complete, SpuriousWakeUp
  <2>2. snap.completed \in Nat
    BY <1>0, WorkersFinite DEF TypeOK
  <2> QED BY <1>0, <2>1, <2>2 DEF Snapshot, StatsAddUp
<1>6. CASE UNCHANGED vars
  BY <1>0, <1>6 DEF vars, Snapshot, StatsAddUp
<1> QED BY <1>1, <1>2, <1>3, <1>4, <1>5, <1>6 DEF Next, Owner, Joined

(***************************************************************************)
(* Every step keeps as many workers on their way as there are tasks.       *)
(***************************************************************************)
LEMMA WorkStep == ASSUME IInv, [Next]_vars PROVE WorkConserving'
<1> USE DEF queueVars
<1> DEFINE owed == IF opc = "notify" THEN 1 ELSE 0
<1>0. /\ TypeOK /\ MutexHeld /\ NoWorker \notin Worker
      /\ tasks \in Seq(1..MaxTasks) /\ Len(tasks) \in Nat /\ Count(wpc, "lock") \in Nat
      /\ Waiting # {} => Len(tasks) <= Count(wpc, "lock") + owed
  BY Bounds, CountType, WorkersFinite DEF IInv, TypeOK, WorkConserving, Count
<1>1. SUFFICES Waiting' # {} => Len(tasks)' <= Count(wpc', "lock") + owed'
  BY DEF WorkConserving, Count
<1>2. ASSUME NEW w \in Worker, NEW q, wpc' = [wpc EXCEPT ![w] = q], wpc[w] # q
      PROVE  /\ q = "lock" => Count(wpc', "lock") = Count(wpc, "lock") + 1
             /\ wpc[w] = "lock" => Count(wpc', "lock") = Count(wpc, "lock") - 1
  <2>1. wpc'[w] = q /\ \A v \in Worker \ {w} : wpc'[v] = wpc[v]
    BY <1>0, <1>2 DEF TypeOK
  <2>2. ASSUME q = "lock" PROVE Count(wpc', "lock") = Count(wpc, "lock") + 1
    <3>1. wpc[w] # "lock" /\ wpc'[w] = "lock"
      BY <1>2, <2>1, <2>2
    <3> QED BY <2>1, <3>1, CountMoves
  <2>3. ASSUME wpc[w] = "lock" PROVE Count(wpc', "lock") = Count(wpc, "lock") - 1
    <3>1. wpc'[w] # "lock"
      BY <1>2, <2>1, <2>3
    <3> QED BY <2>1, <2>3, <3>1, CountMoves
  <2> QED BY <2>2, <2>3
<1>3. CASE Submit
  <2>1. Len(tasks') = Len(tasks) + 1 /\ opc = "idle" /\ opc' = "notify" /\ wpc' = wpc
    BY <1>0, <1>3 DEF Submit
  <2>2. Waiting' = Waiting /\ Count(wpc', "lock") = Count(wpc, "lock")
    BY <2>1 DEF Waiting
  <2> QED BY <1>0, <2>1, <2>2
<1>4. CASE NotifyOne
  <2>1. opc = "notify" /\ opc' = "idle" /\ tasks' = tasks
    BY <1>4 DEF NotifyOne
  <2>2. CASE Waiting = {}
    <3>1. Waiting' = {}
      BY <1>4, <2>2 DEF NotifyOne, Waiting
    <3> QED BY <3>1
  <2>3. CASE Waiting # {}
    <3>1. PICK w \in Waiting : wpc' = [wpc EXCEPT ![w] = "lock"]
      BY <1>4, <2>3 DEF NotifyOne
    <3>2. Count(wpc', "lock") = Count(wpc, "lock") + 1
      BY <1>0, <1>2, <3>1 DEF Waiting, Places
    <3> QED BY <1>0, <2>1, <2>3, <3>2
  <2> QED BY <2>2, <2>3
<1>5. CASE NotifyAll
  <2>1. Waiting' = {}
    BY <1>5 DEF NotifyAll, Waiting
  <2> QED BY <2>1
<1>6. CASE Stop \/ Join \/ StatsSubmitted \/ StatsCompleted \/ StatsQueue \/ StatsReturn
           \/ UNCHANGED vars
  <2>1. /\ UNCHANGED <<tasks, wpc>> /\ (opc = "notify" => opc' = "notify")
        /\ (opc' = "notify" => opc = "notify")
    BY <1>6 DEF Stop, Join, StatsSubmitted, StatsCompleted, StatsQueue, StatsReturn, vars
  <2>2. Waiting' = Waiting /\ Count(wpc', "lock") = Count(wpc, "lock")
    BY <2>1 DEF Waiting
  <2> QED BY <1>0, <2>1, <2>2
<1>7. ASSUME NEW w \in Worker, Pop(w) PROVE Waiting' # {} => Len(tasks)' <= Count(wpc', "lock") + owed'
  <2>1. /\ tasks # <<>> /\ tasks' = Tail(tasks) /\ opc' = opc
        /\ wpc[w] = "lock" /\ wpc' = [wpc EXCEPT ![w] = "run"]
    BY <1>7 DEF Pop
  <2>2. Len(tasks') = Len(tasks) - 1
    BY <1>0, <2>1
  <2>3. Count(wpc', "lock") = Count(wpc, "lock") - 1
    BY <1>0, <1>2, <2>1 DEF Places
  <2>4. Waiting' = Waiting
    BY <1>0, <2>1 DEF Waiting, TypeOK
  <2> QED BY <1>0, <2>1, <2>2, <2>3, <2>4
<1>8. ASSUME NEW w \in Worker, Exit(w) \/ FindsNothing(w) \/ Sleep(w)
      PROVE  Waiting' # {} => Len(tasks)' <= Count(wpc', "lock") + owed'
  <2>1. tasks = <<>> /\ tasks' = tasks
    BY <1>0, <1>8 DEF Exit, FindsNothing, Sleep, MutexHeld
  <2>2. Count(wpc', "lock") \in Nat
    <3>1. \A S : S \in SUBSET Worker => Cardinality(S) \in Nat
      BY WorkersFinite, FS_Subset, FS_CardinalityType
    <3> QED BY <3>1 DEF Count
  <2> QED BY <2>1, <2>2
<1>9. ASSUME NEW w \in Worker, Complete(w) \/ SpuriousWakeUp(w)
      PROVE  Waiting' # {} => Len(tasks)' <= Count(wpc', "lock") + owed'
  <2>1. /\ tasks' = tasks /\ opc' = opc /\ wpc[w] \in {"run", "waiting"}
        /\ wpc' = [wpc EXCEPT ![w] = "lock"]
    BY <1>9 DEF Complete, SpuriousWakeUp
  <2>2. Count(wpc', "lock") = Count(wpc, "lock") + 1
    BY <1>2, <2>1 DEF Places
  <2>3. Waiting' \subseteq Waiting
    BY <1>0, <2>1 DEF Waiting, TypeOK
  <2> QED BY <1>0, <2>1, <2>2, <2>3
<1> QED BY <1>3, <1>4, <1>5, <1>6, <1>7, <1>8, <1>9 DEF Next, Owner, Joined, workerLoop

(***************************************************************************)
(* The theorems.                                                           *)
(***************************************************************************)
LEMMA InitInv == Init => IInv
<1> SUFFICES ASSUME Init PROVE IInv
  OBVIOUS
<1>1. TypeOK
  <2>1. snap \in [submitted : 0..MaxTasks, completed : 0..MaxTasks, queue_current : 0..MaxTasks]
    BY WorkersFinite DEF Init, NoStats
  <2>2. tasks \in Seq(1..MaxTasks) /\ taken \in Seq(1..MaxTasks)
    BY DEF Init
  <2>3. /\ wpc \in [Worker -> {"lock", "sleep", "waiting", "run", "exited"}]
        /\ task \in [Worker -> 0..MaxTasks]
    BY WorkersFinite DEF Init
  <2> QED BY <2>1, <2>2, <2>3, WorkersFinite DEF Init, TypeOK
<1>2. Count(wpc, "run") = 0
  BY CountType DEF Init
<1>3. Ledger
  BY <1>2 DEF Init, Ledger
<1>4. MutexHeld /\ Shutdown /\ Snapshot /\ StatsAddUp
  BY DEF Init, MutexHeld, Shutdown, Snapshot, StatsAddUp
<1>5. WorkConserving
  BY DEF Init, WorkConserving, Waiting
<1> QED BY <1>1, <1>3, <1>4, <1>5 DEF IInv

LEMMA InvStep == IInv /\ [Next]_vars => IInv'
BY TypeStep, LedgerStep, MutexStep, ShutdownStep, SnapshotStep, WorkStep DEF IInv

(* The types, with the counters never above what was submitted.             *)
THEOREM TypeCorrect == Spec => []TypeOK
<1>1. IInv => TypeOK
  BY DEF IInv
<1> QED BY <1>1, InitInv, InvStep, PTL DEF Spec

(* No worker sleeps while there is a task for it, whatever the order of     *)
(* submissions, spurious wake-ups and statistics calls.                     *)
THEOREM WorkCorrect == Spec => []WorkConserving
<1>1. IInv => WorkConserving
  BY DEF IInv
<1> QED BY <1>1, InitInv, InvStep, PTL DEF Spec

(* When the destructor has joined its threads, every task has been taken in *)
(* the order of submission and executed.                                    *)
THEOREM DrainCorrect == Spec => []DrainedWhenJoined
<1>1. ASSUME IInv PROVE DrainedWhenJoined
  <2> SUFFICES ASSUME opc = "joined"
               PROVE  /\ taken = [n \in 1..submitted |-> n] /\ tasks = <<>>
                      /\ completed = submitted
    BY DEF DrainedWhenJoined
  <2>1. \A w \in Worker : wpc[w] = "exited"
    BY <1>1 DEF IInv, Shutdown
  <2>2. tasks = <<>>
    BY <1>1, <2>1, WorkersFinite DEF IInv, Shutdown
  <2>3. Count(wpc, "run") = 0
    BY <2>1, CountType
  <2>4. /\ Len(taken) = submitted /\ completed = Len(taken)
        /\ \A i \in 1..Len(taken) : taken[i] = i
    BY <1>1, <2>2, <2>3, Bounds DEF IInv, Ledger
  <2>5. taken = [n \in 1..Len(taken) |-> taken[n]]
    BY <1>1 DEF IInv, TypeOK
  <2> QED BY <2>2, <2>4, <2>5
<1> QED BY <1>1, InitInv, InvStep, PTL DEF Spec

(* The three numbers of a snapshot, read at three times, add up.            *)
THEOREM StatsCorrect == Spec => []StatsAddUp
<1>1. IInv => StatsAddUp
  BY DEF IInv
<1> QED BY <1>1, InitInv, InvStep, PTL DEF Spec
=============================================================================
