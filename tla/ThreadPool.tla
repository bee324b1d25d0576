----------------------------- MODULE ThreadPool -----------------------------
(***************************************************************************)
(* The thread pool that runs the platform's background work: snapshots,    *)
(* data loading, network callbacks, memory moves, JIT compilation.         *)
(*                                                                         *)
(* enqueue puts a task in a FIFO under the queue mutex and, in an elastic  *)
(* pool, adds a thread when fewer workers are idle than tasks are queued;  *)
(* the condition variable is notified after the mutex was released.  Tasks *)
(* may enqueue tasks and wait for them, so a running task need not end.    *)
(*                                                                         *)
(* A critical section is one step.  The one exception is the moment        *)
(* between a worker's evaluation of the wait predicate and its going to    *)
(* sleep: the mutex is held, but the destructor does not take it.          *)
(***************************************************************************)
EXTENDS Integers, Sequences, FiniteSets

CONSTANTS
  Clients,         \* threads outside the pool that enqueue
  Destructor,      \* the thread in ~ThreadPool
  elastic,         \* ThreadPool::elastic
  InitialThreads,  \* initialNumberOfThreads
  MaxTasks         \* bound: tasks enqueued in a behaviour

ASSUME PoolAssumption ==
  /\ elastic \in BOOLEAN
  /\ InitialThreads \in Nat
  /\ MaxTasks \in Nat
  /\ Clients \cap Nat = {}
  /\ Destructor \notin Clients \cup Nat

(* An enqueue adds at most one thread. *)
Threads == 1 .. InitialThreads + MaxTasks
Tasks == 1 .. MaxTasks

VARIABLES
  pc,           \* where each thread of the pool is; "none" before addThread
  tasks,        \* ThreadPool::tasks
  idle_workers, \* ThreadPool::idle_workers
  terminate,    \* ThreadPool::terminate
  threads,      \* workers.size()
  enqueued,     \* tasks enqueued so far
  started,      \* tasks some worker has taken
  notifying,    \* threads between an unlock and their notify_all
  dtor          \* progress of ~ThreadPool

vars == <<pc, tasks, idle_workers, terminate, threads, enqueued, started, notifying, dtor>>

Init ==
  /\ pc = [w \in Threads |-> IF w <= InitialThreads THEN "top" ELSE "none"]
  /\ tasks = <<>>
  /\ idle_workers = 0
  /\ terminate = FALSE
  /\ threads = InitialThreads
  /\ enqueued = 0
  /\ started = {}
  /\ notifying = {}
  /\ dtor = "no"

-----------------------------------------------------------------------------
(* queue_mutex is free: only a worker about to sleep keeps it over a step. *)
MutexFree == \A w \in Threads : pc[w] # "blocking"

(* Variant: a thread is added only when nobody is idle. *)
addThread_when_none_idle ==
  IF elastic /\ idle_workers = 0
    THEN /\ threads' = threads + 1
         /\ pc' = [pc EXCEPT ![threads + 1] = "top"]
    ELSE UNCHANGED <<threads, pc>>

(* if (elastic && idle_workers < tasks.size()) addThread(), with the new task
   already in the queue. *)
addThread ==
  IF elastic /\ idle_workers < Len(tasks) + 1
    THEN /\ threads' = threads + 1
         /\ pc' = [pc EXCEPT ![threads + 1] = "top"]
    ELSE UNCHANGED <<threads, pc>>

(* By a client, or by a task that is running. *)
enqueue(a) ==
  /\ a \in Clients \/ (a \in Threads /\ pc[a] = "running")
  /\ a \notin notifying
  /\ MutexFree /\ ~terminate
  /\ enqueued < MaxTasks
  /\ tasks' = Append(tasks, enqueued + 1)
  /\ enqueued' = enqueued + 1
  /\ addThread
  /\ notifying' = notifying \cup {a}
  /\ UNCHANGED <<idle_workers, terminate, started, dtor>>

(* Variant: enqueue returns without a notification. *)
notify_all_none(a) ==
  /\ a \in notifying
  /\ notifying' = notifying \ {a}
  /\ UNCHANGED <<pc, tasks, idle_workers, terminate, threads, enqueued, started, dtor>>

(* is_terminated_or_not_empty.notify_all(), after the unlock. *)
notify_all(a) ==
  /\ a \in notifying
  /\ notifying' = notifying \ {a}
  /\ pc' = [w \in Threads |-> IF pc[w] = "waiting" THEN "woken" ELSE pc[w]]
  /\ UNCHANGED <<tasks, idle_workers, terminate, threads, enqueued, started, dtor>>

-----------------------------------------------------------------------------
(* A worker thread.  It takes the mutex when it comes to the top of its loop,
   where it becomes idle, and when it was woken. *)
Locks(w) == pc[w] \in {"top", "woken"} /\ MutexFree

(* idle_workers once w counts itself in. *)
IdleWith(w) == IF pc[w] = "top" THEN idle_workers + 1 ELSE idle_workers

(* The predicate is false ... *)
wait_predicate(w) ==
  /\ Locks(w) /\ ~terminate /\ tasks = <<>>
  /\ idle_workers' = IdleWith(w)
  /\ pc' = [pc EXCEPT ![w] = "blocking"]
  /\ UNCHANGED <<tasks, terminate, threads, enqueued, started, notifying, dtor>>

(* ... and the worker goes to sleep, which releases the mutex. *)
wait_block(w) ==
  /\ pc[w] = "blocking"
  /\ pc' = [pc EXCEPT ![w] = "waiting"]
  /\ UNCHANGED <<tasks, idle_workers, terminate, threads, enqueued, started, notifying, dtor>>

(* A condition variable may wake a waiter for no reason. *)
spurious_wakeup(w) ==
  /\ pc[w] = "waiting"
  /\ pc' = [pc EXCEPT ![w] = "woken"]
  /\ UNCHANGED <<tasks, idle_workers, terminate, threads, enqueued, started, notifying, dtor>>

take_task(w) ==
  /\ Locks(w) /\ tasks # <<>>
  /\ idle_workers' = IdleWith(w) - 1
  /\ started' = started \cup {Head(tasks)}
  /\ tasks' = Tail(tasks)
  /\ pc' = [pc EXCEPT ![w] = "running"]
  /\ UNCHANGED <<terminate, threads, enqueued, notifying, dtor>>

task_ends(w) ==
  /\ pc[w] = "running" /\ w \notin notifying
  /\ pc' = [pc EXCEPT ![w] = "top"]
  /\ UNCHANGED <<tasks, idle_workers, terminate, threads, enqueued, started, notifying, dtor>>

(* if (terminate && tasks.empty()) break; *)
thread_exits(w) ==
  /\ Locks(w) /\ terminate /\ tasks = <<>>
  /\ idle_workers' = IdleWith(w) - 1
  /\ pc' = [pc EXCEPT ![w] = "exited"]
  /\ UNCHANGED <<tasks, terminate, threads, enqueued, started, notifying, dtor>>

-----------------------------------------------------------------------------
(* Variant: the sleeping workers are not notified. *)
set_terminate_silent ==
  /\ dtor = "no" /\ notifying \cap Clients = {}
  /\ terminate' = TRUE
  /\ dtor' = "join"
  /\ UNCHANGED <<pc, tasks, idle_workers, threads, enqueued, started, notifying>>

(* ~ThreadPool.  No client is inside enqueue when it is called, and no task
   enqueues once terminate is set: whoever still uses a pool under destruction
   is outside the contract of any object. *)
set_terminate ==
  /\ dtor = "no" /\ notifying \cap Clients = {}
  /\ terminate' = TRUE
  /\ notifying' = notifying \cup {Destructor}
  /\ dtor' = "join"
  /\ UNCHANGED <<pc, tasks, idle_workers, threads, enqueued, started>>

join ==
  /\ dtor = "join" /\ Destructor \notin notifying
  /\ \A w \in Threads : w <= threads => pc[w] = "exited"
  /\ dtor' = "joined"
  /\ UNCHANGED <<pc, tasks, idle_workers, terminate, threads, enqueued, started, notifying>>

-----------------------------------------------------------------------------
(* The steps of a worker thread that do not depend on the task it runs. *)
WorkerStep(w) == wait_predicate(w) \/ wait_block(w) \/ take_task(w) \/ thread_exits(w)

Next ==
  \/ \E a \in Clients \cup Threads : enqueue(a)
  \/ \E a \in Clients \cup Threads \cup {Destructor} : notify_all(a)
  \/ \E w \in Threads : WorkerStep(w) \/ spurious_wakeup(w) \/ task_ends(w)
  \/ set_terminate
  \/ join

Spec == Init /\ [][Next]_vars

(* Threads run: a worker takes its steps, an enqueue gets to its notify_all and
   the destructor to its join.  Nothing is said of tasks, which may wait for ever. *)
FairSpec ==
  /\ Spec
  /\ \A w \in Threads : WF_vars(WorkerStep(w))
  /\ \A a \in Clients \cup Threads \cup {Destructor} : WF_vars(notify_all(a))
  /\ WF_vars(join)

-----------------------------------------------------------------------------
(* Properties *)

IdlePc == {"blocking", "waiting", "woken"}
PcValues == {"none", "top", "running", "exited"} \cup IdlePc

Idle == {w \in Threads : pc[w] \in IdlePc}

(* Threads of the pool that are not inside a task. *)
Free == {w \in Threads : pc[w] \in {"top"} \cup IdlePc}

(* The type of the pool's state: a task is in the queue, or was started. *)
TypeOK ==
  /\ pc \in [Threads -> PcValues]
  /\ tasks \in Seq(Tasks)
  /\ idle_workers \in Int
  /\ terminate \in BOOLEAN
  /\ threads \in InitialThreads .. InitialThreads + enqueued
  /\ enqueued \in 0 .. MaxTasks
  /\ started \in SUBSET Tasks
  /\ notifying \in SUBSET (Clients \cup Threads \cup {Destructor})
  /\ dtor \in {"no", "join", "joined"}
  /\ \A w \in Threads : pc[w] = "none" <=> w > threads

(* idle_workers counts the workers inside wait(): the number enqueue compares
   with the queue when it decides whether to add a thread. *)
IdleCounted == idle_workers = Cardinality(Idle)

(* An elastic pool always has a thread for every queued task, even if all the
   tasks that run now wait for tasks in the queue. *)
ThreadPerTask == elastic => Len(tasks) <= Cardinality(Free)

(* No wakeup of a task is lost: while tasks are queued, no worker sleeps
   unless the notify_all of an enqueue is still to come. *)
NoSleepOverWork ==
  (tasks # <<>> /\ notifying = {}) => \A w \in Threads : pc[w] # "waiting"

(* Every task of an elastic pool is started, whatever the other tasks do. *)
EveryTaskStarts == \A t \in Tasks : (enqueued >= t) ~> (t \in started)

(* Destruction of the pool returns, its workers see terminate and leave, when
   the tasks end.  The exception must be made: the destructor sets terminate and
   notifies without the mutex, and a worker that is between its predicate and
   its sleep when it does may miss both. *)
DestructionReturns ==
  \/ <>[](\E w \in Threads : pc[w] = "running")
  \/ <>(Destructor \in notifying /\ \E w \in Threads : pc[w] = "blocking")
  \/ terminate ~> (dtor = "joined")

=============================================================================
