----------------------------- MODULE ThreadPool -----------------------------
(***************************************************************************)
(* The worker pool: a mutex, a condition variable and a FIFO of tasks      *)
(* (src/src/common/ThreadPool.cpp).  Its owner is the server's IO thread,  *)
(* the only one that submits, reads the statistics and, when run() is left *)
(* by an exception, destroys the pool.                                     *)
(*                                                                         *)
(* A critical section is one step, except the worker's wait: it evaluates  *)
(* the predicate under the mutex and only then releases it and sleeps.     *)
(* A sleeping worker may wake spuriously.  Tasks are numbered in the order *)
(* of their submission, and their bodies do not throw.                     *)
(***************************************************************************)
EXTENDS Integers, Sequences, FiniteSets

CONSTANTS
  Worker,     \* the threads; at least one, whatever worker_count says
  NoWorker,   \* nobody holds the mutex
  MaxTasks    \* bound: tasks submitted

ASSUME ThreadPoolAssumption ==
  Worker # {} /\ IsFiniteSet(Worker) /\ NoWorker \notin Worker /\ MaxTasks \in Nat

VARIABLES
  mu,         \* the worker that keeps the mutex from its predicate to its sleep, or NoWorker
  tasks,      \* tasks_
  stop,       \* stop_
  submitted,  \* submitted_
  completed,  \* completed_
  peak,       \* queue_peak_
  wpc,        \* a worker's place: "lock", "sleep", "waiting", "run" or "exited"
  task,       \* the task it runs
  taken,      \* history: the tasks taken from the queue, in order
  opc,        \* the owner's place
  snap        \* the Stats the owner fills in

vars == <<mu, tasks, stop, submitted, completed, peak, wpc, task, taken, opc, snap>>

queueVars == <<tasks, stop, submitted, completed, peak, taken>>

NoStats == [submitted |-> 0, completed |-> 0, queue_current |-> 0]

TypeOK ==
  /\ mu \in Worker \cup {NoWorker}
  /\ tasks \in Seq(1..MaxTasks)
  /\ stop \in BOOLEAN
  /\ submitted \in 0..MaxTasks /\ completed \in 0..MaxTasks /\ peak \in 0..MaxTasks
  /\ wpc \in [Worker -> {"lock", "sleep", "waiting", "run", "exited"}]
  /\ task \in [Worker -> 0..MaxTasks]
  /\ taken \in Seq(1..MaxTasks)
  /\ opc \in {"idle", "notify", "stats", "stats2", "stats3", "notify_all", "join", "joined"}
  /\ snap \in [submitted : 0..MaxTasks, completed : 0..MaxTasks, queue_current : 0..MaxTasks]

Init ==
  /\ mu = NoWorker /\ tasks = <<>> /\ stop = FALSE
  /\ submitted = 0 /\ completed = 0 /\ peak = 0
  /\ wpc = [w \in Worker |-> "lock"] /\ task = [w \in Worker |-> 0]
  /\ taken = <<>> /\ opc = "idle" /\ snap = NoStats

-----------------------------------------------------------------------------
(* submit(): push under the mutex, notify after its release. *)
Submit ==
  /\ opc = "idle" /\ mu = NoWorker /\ submitted < MaxTasks
  /\ tasks' = Append(tasks, submitted + 1)
  /\ submitted' = submitted + 1
  /\ peak' = IF Len(tasks) + 1 > peak THEN Len(tasks) + 1 ELSE peak
  /\ opc' = "notify"
  /\ UNCHANGED <<mu, stop, completed, wpc, task, taken, snap>>

Waiting == {w \in Worker : wpc[w] = "waiting"}

(* Variant of NotifyOne: only the first task of an empty queue wakes a worker. *)
NotifyOneIfFirst ==
  /\ opc = "notify" /\ opc' = "idle"
  /\ IF Len(tasks) # 1 \/ Waiting = {} THEN UNCHANGED wpc
     ELSE \E w \in Waiting : wpc' = [wpc EXCEPT ![w] = "lock"]
  /\ UNCHANGED <<mu, queueVars, task, snap>>

NotifyOne ==
  /\ opc = "notify" /\ opc' = "idle"
  /\ IF Waiting = {} THEN UNCHANGED wpc
     ELSE \E w \in Waiting : wpc' = [wpc EXCEPT ![w] = "lock"]
  /\ UNCHANGED <<mu, queueVars, task, snap>>

(* The destructor: stop_ under the mutex, notify_all, join every worker.    *)
StopUnlocked ==                          \* variant: stop_ set without the mutex
  /\ opc = "idle" /\ stop' = TRUE /\ opc' = "notify_all"
  /\ UNCHANGED <<mu, tasks, submitted, completed, peak, wpc, task, taken, snap>>

Stop ==
  /\ opc = "idle" /\ mu = NoWorker /\ stop' = TRUE /\ opc' = "notify_all"
  /\ UNCHANGED <<mu, tasks, submitted, completed, peak, wpc, task, taken, snap>>

NotifyAll ==
  /\ opc = "notify_all" /\ opc' = "join"
  /\ wpc' = [w \in Worker |-> IF w \in Waiting THEN "lock" ELSE wpc[w]]
  /\ UNCHANGED <<mu, queueVars, task, snap>>

Join ==
  /\ opc = "join" /\ \A w \in Worker : wpc[w] = "exited"
  /\ opc' = "joined"
  /\ UNCHANGED <<mu, queueVars, wpc, task, snap>>

(* stats(): two relaxed loads, then the queue's length under the mutex.     *)
StatsSubmitted ==
  /\ opc = "idle" /\ opc' = "stats2"
  /\ snap' = [NoStats EXCEPT !.submitted = submitted]
  /\ UNCHANGED <<mu, queueVars, wpc, task>>

StatsCompleted ==
  /\ opc = "stats2" /\ opc' = "stats3"
  /\ snap' = [snap EXCEPT !.completed = completed]
  /\ UNCHANGED <<mu, queueVars, wpc, task>>

StatsQueue ==
  /\ opc = "stats3" /\ mu = NoWorker /\ opc' = "stats"
  /\ snap' = [snap EXCEPT !.queue_current = Len(tasks)]
  /\ UNCHANGED <<mu, queueVars, wpc, task>>

StatsReturn ==
  /\ opc = "stats" /\ opc' = "idle" /\ snap' = NoStats
  /\ UNCHANGED <<mu, queueVars, wpc, task>>

Owner ==
  \/ Submit \/ NotifyOne \/ Stop \/ NotifyAll \/ Join
  \/ StatsSubmitted \/ StatsCompleted \/ StatsQueue \/ StatsReturn

-----------------------------------------------------------------------------
(* workerLoop. *)
Pop(w) ==
  /\ wpc[w] = "lock" /\ mu = NoWorker /\ tasks # <<>>
  /\ task' = [task EXCEPT ![w] = Head(tasks)]
  /\ taken' = Append(taken, Head(tasks))
  /\ tasks' = Tail(tasks)
  /\ wpc' = [wpc EXCEPT ![w] = "run"]
  /\ UNCHANGED <<mu, stop, submitted, completed, peak, opc, snap>>

ExitAtOnce(w) ==                         \* variant: leaves queued tasks behind
  /\ wpc[w] = "lock" /\ mu = NoWorker /\ stop
  /\ wpc' = [wpc EXCEPT ![w] = "exited"]
  /\ UNCHANGED <<mu, queueVars, task, opc, snap>>

Exit(w) ==
  /\ wpc[w] = "lock" /\ mu = NoWorker /\ stop /\ tasks = <<>>
  /\ wpc' = [wpc EXCEPT ![w] = "exited"]
  /\ UNCHANGED <<mu, queueVars, task, opc, snap>>

(* The predicate is false; the mutex is kept until the worker sleeps.       *)
FindsNothing(w) ==
  /\ wpc[w] = "lock" /\ mu = NoWorker /\ ~ stop /\ tasks = <<>>
  /\ mu' = w /\ wpc' = [wpc EXCEPT ![w] = "sleep"]
  /\ UNCHANGED <<queueVars, task, opc, snap>>

Sleep(w) ==
  /\ wpc[w] = "sleep"
  /\ mu' = NoWorker /\ wpc' = [wpc EXCEPT ![w] = "waiting"]
  /\ UNCHANGED <<queueVars, task, opc, snap>>

SpuriousWakeUp(w) ==
  /\ wpc[w] = "waiting"
  /\ wpc' = [wpc EXCEPT ![w] = "lock"]
  /\ UNCHANGED <<mu, queueVars, task, opc, snap>>

CompletesTwice(w) ==                     \* variant: counts a task when it starts, too
  /\ wpc[w] = "run" /\ completed' = completed + 2
  /\ wpc' = [wpc EXCEPT ![w] = "lock"] /\ task' = [task EXCEPT ![w] = 0]
  /\ UNCHANGED <<mu, tasks, stop, submitted, peak, taken, opc, snap>>

Complete(w) ==
  /\ wpc[w] = "run"
  /\ completed' = completed + 1
  /\ wpc' = [wpc EXCEPT ![w] = "lock"] /\ task' = [task EXCEPT ![w] = 0]
  /\ UNCHANGED <<mu, tasks, stop, submitted, peak, taken, opc, snap>>

workerLoop(w) == Pop(w) \/ Exit(w) \/ FindsNothing(w) \/ Sleep(w) \/ Complete(w)

Joined == opc = "joined" /\ UNCHANGED vars

Next ==
  \/ Owner \/ Joined
  \/ \E w \in Worker : workerLoop(w) \/ SpuriousWakeUp(w)

Spec == Init /\ [][Next]_vars

(* The threads run, a worker that wants the mutex gets it in the end, and    *)
(* the owner finishes the call it is in.  Nothing is assumed of spurious    *)
(* wake-ups or of new calls.                                                *)
Fairness ==
  /\ \A w \in Worker : SF_vars(workerLoop(w))
  /\ WF_vars(NotifyOne) /\ WF_vars(NotifyAll) /\ WF_vars(Join)

LiveSpec == Spec /\ Fairness

-----------------------------------------------------------------------------
(* No worker sleeps that could work: while some worker waits, as many are    *)
(* on their way to the queue as there are tasks in it, but for a task whose *)
(* notify_one is still to come.                                             *)
WorkConserving ==
  Waiting # {} =>
    Len(tasks) <= Cardinality({w \in Worker : wpc[w] = "lock"}) + (IF opc = "notify" THEN 1 ELSE 0)

(* The pool is destroyed only when every task submitted has been executed,  *)
(* each once, and they were taken first in, first out (ThreadPool.h:48).    *)
DrainedWhenJoined ==
  opc = "joined" =>
    /\ taken = [n \in 1..submitted |-> n] /\ tasks = <<>>
    /\ completed = submitted

(* A Stats snapshot never counts a task twice, although its three values     *)
(* are read at three different times.                                       *)
StatsAddUp == opc = "stats" => snap.completed + snap.queue_current <= snap.submitted

(* Every task submitted is executed, and the destructor returns: no worker  *)
(* sleeps through a notification that was meant for it.                     *)
WorkEnds ==
  /\ \A n \in 1..MaxTasks : submitted >= n ~> completed >= n
  /\ stop ~> opc = "joined"
=============================================================================
