------------------------- MODULE ThreadPool_proofs -------------------------
(***************************************************************************)
(* Proofs about ThreadPool, for any number of clients, threads and tasks.  *)
(***************************************************************************)
EXTENDS ThreadPool, TLAPS

(* The time a leaf may take, so that no proof depends on the speed of the machine. *)
USE SMTT(60)

(* Every step keeps the types. *)
LEMMA TypeStep ==
  ASSUME TypeOK, [Next]_vars
  PROVE  TypeOK'
PROOF
  <1> USE PoolAssumption DEF TypeOK, PcValues, IdlePc, Tasks
  <1>1. ASSUME NEW a \in Clients \cup Threads, enqueue(a)
        PROVE  TypeOK'
    <2>1. threads + 1 \in Threads
      BY <1>1 DEF enqueue, Threads
    <2>2. CASE UNCHANGED <<threads, pc>>
      BY <1>1, <2>2 DEF enqueue
    <2>3. CASE threads' = threads + 1 /\ pc' = [pc EXCEPT ![threads + 1] = "top"]
      <3>1. \A w \in Threads : pc'[w] = "none" <=> w > threads'
        BY <2>1, <2>3 DEF Threads
      <3> QED
        BY <1>1, <2>1, <2>3, <3>1 DEF enqueue
    <2> QED
      BY Zenon, <1>1, <2>2, <2>3 DEF enqueue, addThread
  <1>2. ASSUME NEW a \in Clients \cup Threads \cup {Destructor}, notify_all(a)
        PROVE  TypeOK'
    BY Zenon, <1>2 DEF notify_all
  <1>3. ASSUME NEW w \in Threads, wait_predicate(w)
        PROVE  TypeOK'
    BY <1>3 DEF wait_predicate, Locks, IdleWith
  <1>4. ASSUME NEW w \in Threads, wait_block(w)
        PROVE  TypeOK'
    BY Zenon, <1>4 DEF wait_block
  <1>5. ASSUME NEW w \in Threads, take_task(w)
        PROVE  TypeOK'
    <2>1. Head(tasks) \in Tasks /\ Tail(tasks) \in Seq(Tasks)
      BY <1>5 DEF take_task
    <2>2. pc' \in [Threads -> PcValues] /\ \A x \in Threads : pc'[x] = "none" <=> x > threads
      BY Zenon, <1>5 DEF take_task, Locks
    <2>3. idle_workers' \in Int
      BY <1>5 DEF take_task, IdleWith
    <2> QED
      BY ZenonT(30), <1>5, <2>1, <2>2, <2>3 DEF take_task
  <1>6. ASSUME NEW w \in Threads, thread_exits(w)
        PROVE  TypeOK'
    BY <1>6 DEF thread_exits, Locks, IdleWith
  <1>7. ASSUME NEW w \in Threads, spurious_wakeup(w)
        PROVE  TypeOK'
    BY Zenon, <1>7 DEF spurious_wakeup
  <1>8. ASSUME NEW w \in Threads, task_ends(w)
        PROVE  TypeOK'
    BY Zenon, <1>8 DEF task_ends
  <1>9. CASE set_terminate
    BY Zenon, <1>9 DEF set_terminate
  <1>10. CASE join
    BY Zenon, <1>10 DEF join
  <1>11. CASE UNCHANGED vars
    BY Zenon, <1>11 DEF vars
  <1> QED
    BY Zenon, <1>1, <1>2, <1>3, <1>4, <1>5, <1>6, <1>7, <1>8, <1>9, <1>10, <1>11 DEF Next, WorkerStep

(* The state of the pool keeps its type in every behaviour. *)
THEOREM TypeCorrect == Spec => []TypeOK
PROOF
  <1>1. Init => TypeOK
    <2> SUFFICES ASSUME Init
                 PROVE  TypeOK
      BY Zenon
    <2> USE PoolAssumption DEF Init
    <2>1. pc \in [Threads -> PcValues] /\ \A w \in Threads : pc[w] = "none" <=> w > threads
      BY DEF PcValues, Threads
    <2>2. tasks \in Seq(Tasks) /\ enqueued \in 0 .. MaxTasks
          /\ threads \in InitialThreads .. InitialThreads + enqueued
      OBVIOUS
    <2>3. idle_workers \in Int
      OBVIOUS
    <2>4. terminate \in BOOLEAN /\ started \in SUBSET Tasks
      BY ZenonT(30)
    <2>5. notifying \in SUBSET (Clients \cup Threads \cup {Destructor}) /\ dtor \in {"no", "join", "joined"}
      BY Zenon
    <2> HIDE DEF Init
    <2> QED
      BY Zenon, <2>1, <2>2, <2>3, <2>4, <2>5 DEF TypeOK
  <1>2. TypeOK /\ [Next]_vars => TypeOK'
    BY Zenon, TypeStep
  <1> QED
    BY <1>1, <1>2, PTL DEF Spec

(* The predicate of a worker that is about to sleep was false: the queue is
   empty, because enqueue needs the mutex that worker still holds. *)
WakeInv == NoSleepOverWork /\ \A w \in Threads : pc[w] = "blocking" => tasks = <<>>

(* No step puts a worker to sleep over a queued task. *)
LEMMA WakeStep ==
  ASSUME TypeOK, WakeInv, [Next]_vars
  PROVE  WakeInv'
PROOF
  <1>ty. pc \in [Threads -> PcValues] /\ tasks \in Seq(Tasks) /\ threads \in Nat
    BY PoolAssumption DEF TypeOK
  <1>1. ASSUME NEW a \in Clients \cup Threads, enqueue(a)
        PROVE  WakeInv'
    <2>1. notifying' # {} /\ MutexFree
      BY Zenon, <1>1 DEF enqueue
    <2>2. \A w \in Threads : pc'[w] # "blocking"
      BY Zenon, <1>1, <2>1, <1>ty DEF enqueue, addThread, MutexFree
    <2> QED
      BY Zenon, <2>1, <2>2 DEF WakeInv, NoSleepOverWork
  <1>2. ASSUME NEW a \in Clients \cup Threads \cup {Destructor}, notify_all(a)
        PROVE  WakeInv'
    BY Zenon, <1>2, <1>ty DEF notify_all, WakeInv, NoSleepOverWork
  <1>3. ASSUME NEW w \in Threads, wait_predicate(w)
        PROVE  WakeInv'
    BY Zenon, <1>3, <1>ty DEF wait_predicate, Locks, IdleWith, WakeInv, NoSleepOverWork
  <1>4. ASSUME NEW w \in Threads, wait_block(w)
        PROVE  WakeInv'
    BY Zenon, <1>4, <1>ty DEF wait_block, WakeInv, NoSleepOverWork
  <1>5. ASSUME NEW w \in Threads, take_task(w)
        PROVE  WakeInv'
    BY Zenon, <1>5, <1>ty DEF take_task, Locks, IdleWith, WakeInv, NoSleepOverWork
  <1>6. ASSUME NEW w \in Threads, thread_exits(w)
        PROVE  WakeInv'
    BY Zenon, <1>6, <1>ty DEF thread_exits, Locks, IdleWith, WakeInv, NoSleepOverWork
  <1>7. ASSUME NEW w \in Threads, spurious_wakeup(w)
        PROVE  WakeInv'
    BY Zenon, <1>7, <1>ty DEF spurious_wakeup, WakeInv, NoSleepOverWork
  <1>8. ASSUME NEW w \in Threads, task_ends(w)
        PROVE  WakeInv'
    BY Zenon, <1>8, <1>ty DEF task_ends, WakeInv, NoSleepOverWork
  <1>9. CASE set_terminate
    BY Zenon, <1>9, <1>ty DEF set_terminate, WakeInv, NoSleepOverWork
  <1>10. CASE join
    BY Zenon, <1>10, <1>ty DEF join, WakeInv, NoSleepOverWork
  <1>11. CASE UNCHANGED vars
    BY Zenon, <1>11 DEF vars, WakeInv, NoSleepOverWork
  <1> QED
    BY Zenon, <1>1, <1>2, <1>3, <1>4, <1>5, <1>6, <1>7, <1>8, <1>9, <1>10, <1>11 DEF Next, WorkerStep

(* No enqueued task is slept over: the notify_all after the unlock reaches
   every worker that found the queue empty. *)
THEOREM NoLostWakeup == Spec => []NoSleepOverWork
PROOF
  <1>1. Init => WakeInv
    BY Zenon DEF Init, WakeInv, NoSleepOverWork
  <1>2. TypeOK /\ WakeInv /\ [Next]_vars => WakeInv'
    BY Zenon, WakeStep
  <1>3. WakeInv => NoSleepOverWork
    BY Zenon DEF WakeInv
  <1> QED
    BY <1>1, <1>2, <1>3, TypeCorrect, PTL DEF Spec

INSTANCE FiniteSetTheorems

(* The pool has finitely many threads, so their sets can be counted. *)
LEMMA ThreadsFinite ==
  /\ IsFiniteSet(Threads) /\ IsFiniteSet(Idle) /\ IsFiniteSet(Free)
  /\ Cardinality(Idle) \in Nat /\ Cardinality(Free) \in Nat /\ Cardinality(Idle) <= Cardinality(Free)
PROOF
  <1>1. IsFiniteSet(Threads)
    BY PoolAssumption, FS_Interval DEF Threads
  <1>2. IsFiniteSet(Free) /\ IsFiniteSet(Idle)
    BY Zenon, <1>1, FS_Subset DEF Free, Idle
  <1>3. Idle \subseteq Free
    BY Zenon DEF Idle, Free
  <1> QED
    BY Zenon, <1>1, <1>2, <1>3, FS_Subset, FS_CardinalityType

(* Every step keeps the count of idle workers right, and in an elastic pool a thread for every task. *)
LEMMA CountStep ==
  ASSUME TypeOK, IdleCounted, ThreadPerTask, [Next]_vars
  PROVE  IdleCounted' /\ ThreadPerTask'
PROOF
  <1>ty. pc \in [Threads -> PcValues] /\ tasks \in Seq(Tasks) /\ idle_workers \in Int /\ threads \in Nat
    BY PoolAssumption DEF TypeOK
  <1>fin. IsFiniteSet(Idle) /\ IsFiniteSet(Free)
          /\ Cardinality(Idle) \in Nat /\ Cardinality(Free) \in Nat /\ Cardinality(Idle) <= Cardinality(Free)
    BY Zenon, ThreadsFinite
  <1>1. ASSUME NEW a \in Clients \cup Threads, enqueue(a)
        PROVE  IdleCounted' /\ ThreadPerTask'
    <2>1. Len(tasks') = Len(tasks) + 1 /\ Len(tasks) \in Nat /\ idle_workers' = idle_workers
      BY <1>1, <1>ty, PoolAssumption DEF enqueue, TypeOK, Tasks
    <2>2. CASE ~(elastic /\ idle_workers < Len(tasks) + 1)
      <3>1. UNCHANGED pc
        BY Zenon, <1>1, <2>2 DEF enqueue, addThread
      <3>2. Idle' = Idle /\ Free' = Free
        BY Zenon, <3>1 DEF Idle, Free
      <3> QED
        BY <2>1, <2>2, <3>2, <1>fin, <1>ty DEF IdleCounted, ThreadPerTask
    <2>3. CASE elastic /\ idle_workers < Len(tasks) + 1
      <3>1. threads + 1 \in Threads /\ pc[threads + 1] = "none" /\ pc' = [pc EXCEPT ![threads + 1] = "top"]
        BY <1>1, <2>3, PoolAssumption DEF enqueue, addThread, TypeOK, Threads
      <3>2. Idle' = Idle /\ Free' = Free \cup {threads + 1} /\ threads + 1 \notin Free
        BY Zenon, <3>1, <1>ty DEF Idle, Free, IdlePc
      <3>3. Cardinality(Free') = Cardinality(Free) + 1
        BY ZenonT(30), <3>2, <1>fin, FS_AddElement
      <3> QED
        BY <2>1, <3>2, <3>3, <1>fin DEF IdleCounted, ThreadPerTask
    <2> QED
      BY Zenon, <2>2, <2>3
  <1>2. ASSUME NEW a \in Clients \cup Threads \cup {Destructor}, notify_all(a)
        PROVE  IdleCounted' /\ ThreadPerTask'
    <2>1. Idle' = Idle /\ Free' = Free /\ idle_workers' = idle_workers
      BY Zenon, <1>2, <1>ty DEF notify_all, Idle, Free, IdlePc
    <2>2. tasks' = tasks
      BY Zenon, <1>2 DEF notify_all
    <2> QED
      BY Zenon, <2>1, <2>2 DEF IdleCounted, ThreadPerTask
  <1>3. ASSUME NEW w \in Threads, wait_predicate(w)
        PROVE  IdleCounted' /\ ThreadPerTask'
    <2>1. tasks' = <<>> /\ Len(<<>>) = 0
      BY Zenon, <1>3 DEF wait_predicate
    <2>2. Free' = Free
      BY Zenon, <1>3, <1>ty DEF wait_predicate, Locks, Free, IdlePc
    <2>3. CASE pc[w] = "woken"
      <3>1. Idle' = Idle /\ idle_workers' = idle_workers
        BY Zenon, <1>3, <2>3, <1>ty DEF wait_predicate, IdleWith, Idle, IdlePc
      <3> QED
        BY <2>1, <2>2, <3>1, <1>fin DEF IdleCounted, ThreadPerTask
    <2>4. CASE pc[w] = "top"
      <3>1. Idle' = Idle \cup {w} /\ w \notin Idle /\ idle_workers' = idle_workers + 1
        BY Zenon, <1>3, <2>4, <1>ty DEF wait_predicate, IdleWith, Idle, IdlePc
      <3>2. Cardinality(Idle') = Cardinality(Idle) + 1
        BY ZenonT(30), <3>1, <1>fin, FS_AddElement
      <3> QED
        BY <2>1, <2>2, <3>1, <3>2, <1>fin DEF IdleCounted, ThreadPerTask
    <2> QED
      BY Zenon, <1>3, <2>3, <2>4 DEF wait_predicate, Locks
  <1>4. ASSUME NEW w \in Threads, wait_block(w)
        PROVE  IdleCounted' /\ ThreadPerTask'
    <2>1. Idle' = Idle /\ Free' = Free /\ idle_workers' = idle_workers
      BY Zenon, <1>4, <1>ty DEF wait_block, Idle, Free, IdlePc
    <2>2. tasks' = tasks
      BY Zenon, <1>4 DEF wait_block
    <2> QED
      BY Zenon, <2>1, <2>2 DEF IdleCounted, ThreadPerTask
  <1>5. ASSUME NEW w \in Threads, take_task(w)
        PROVE  IdleCounted' /\ ThreadPerTask'
    <2>1. Len(tasks') = Len(tasks) - 1 /\ Len(tasks) \in Nat
      BY <1>5, <1>ty DEF take_task
    <2>2. Free' = Free \ {w} /\ w \in Free
      BY Zenon, <1>5, <1>ty DEF take_task, Locks, Free, IdlePc
    <2>3. Cardinality(Free') = Cardinality(Free) - 1
      BY ZenonT(30), <2>2, <1>fin, FS_RemoveElement
    <2>4. IdleCounted'
      <3>1. CASE pc[w] = "top"
        <4>1. Idle' = Idle /\ idle_workers' = idle_workers
          BY <1>5, <3>1, <1>ty DEF take_task, Locks, IdleWith, Idle, IdlePc
        <4> QED
          BY Zenon, <4>1 DEF IdleCounted
      <3>2. CASE pc[w] = "woken"
        <4>1. Idle' = Idle \ {w} /\ w \in Idle /\ idle_workers' = idle_workers - 1
          BY Zenon, <1>5, <3>2, <1>ty DEF take_task, Locks, IdleWith, Idle, IdlePc
        <4>2. Cardinality(Idle') = Cardinality(Idle) - 1
          BY ZenonT(30), <4>1, <1>fin, FS_RemoveElement
        <4> QED
          BY Zenon, <4>1, <4>2 DEF IdleCounted
      <3> QED
        BY Zenon, <1>5, <3>1, <3>2 DEF take_task, Locks, IdleWith
    <2> QED
      BY <2>1, <2>3, <2>4, <1>fin DEF ThreadPerTask
  <1>6. ASSUME NEW w \in Threads, thread_exits(w)
        PROVE  IdleCounted' /\ ThreadPerTask'
    <2>1. tasks' = <<>> /\ Len(<<>>) = 0 /\ Free' \subseteq Free
      BY Zenon, <1>6, <1>ty DEF thread_exits, Locks, Free, IdlePc
    <2>2. Cardinality(Free') \in Nat
      BY Zenon, <2>1, <1>fin, FS_Subset, FS_CardinalityType
    <2>3. IdleCounted'
      <3>1. CASE pc[w] = "top"
        <4>1. Idle' = Idle /\ idle_workers' = idle_workers
          BY <1>6, <3>1, <1>ty DEF thread_exits, Locks, IdleWith, Idle, IdlePc
        <4> QED
          BY Zenon, <4>1 DEF IdleCounted
      <3>2. CASE pc[w] = "woken"
        <4>1. Idle' = Idle \ {w} /\ w \in Idle /\ idle_workers' = idle_workers - 1
          BY Zenon, <1>6, <3>2, <1>ty DEF thread_exits, Locks, IdleWith, Idle, IdlePc
        <4>2. Cardinality(Idle') = Cardinality(Idle) - 1
          BY ZenonT(30), <4>1, <1>fin, FS_RemoveElement
        <4> QED
          BY Zenon, <4>1, <4>2 DEF IdleCounted
      <3> QED
        BY Zenon, <1>6, <3>1, <3>2 DEF thread_exits, Locks, IdleWith
    <2> QED
      BY <2>1, <2>2, <2>3 DEF ThreadPerTask
  <1>7. ASSUME NEW w \in Threads, spurious_wakeup(w)
        PROVE  IdleCounted' /\ ThreadPerTask'
    <2>1. Idle' = Idle /\ Free' = Free /\ idle_workers' = idle_workers
      BY Zenon, <1>7, <1>ty DEF spurious_wakeup, Idle, Free, IdlePc
    <2>2. tasks' = tasks
      BY Zenon, <1>7 DEF spurious_wakeup
    <2> QED
      BY Zenon, <2>1, <2>2 DEF IdleCounted, ThreadPerTask
  <1>8. ASSUME NEW w \in Threads, task_ends(w)
        PROVE  IdleCounted' /\ ThreadPerTask'
    <2>1. tasks' = tasks /\ idle_workers' = idle_workers /\ Len(tasks) \in Nat
      BY <1>8, <1>ty DEF task_ends
    <2>2. Idle' = Idle /\ Free' = Free \cup {w} /\ w \notin Free
      BY Zenon, <1>8, <1>ty DEF task_ends, Idle, Free, IdlePc
    <2>3. Cardinality(Free') = Cardinality(Free) + 1
      BY ZenonT(30), <2>2, <1>fin, FS_AddElement
    <2> QED
      BY <2>1, <2>2, <2>3, <1>fin DEF IdleCounted, ThreadPerTask
  <1>9. CASE set_terminate
    <2>1. Idle' = Idle /\ Free' = Free /\ idle_workers' = idle_workers
      BY Zenon, <1>9, <1>ty DEF set_terminate, Idle, Free, IdlePc
    <2>2. tasks' = tasks
      BY Zenon, <1>9 DEF set_terminate
    <2> QED
      BY Zenon, <2>1, <2>2 DEF IdleCounted, ThreadPerTask
  <1>10. CASE join
    <2>1. Idle' = Idle /\ Free' = Free /\ idle_workers' = idle_workers
      BY Zenon, <1>10, <1>ty DEF join, Idle, Free, IdlePc
    <2>2. tasks' = tasks
      BY Zenon, <1>10 DEF join
    <2> QED
      BY Zenon, <2>1, <2>2 DEF IdleCounted, ThreadPerTask
  <1>11. CASE UNCHANGED vars
    BY Zenon, <1>11 DEF vars, IdleCounted, ThreadPerTask, Idle, Free
  <1> QED
    BY Zenon, <1>1, <1>2, <1>3, <1>4, <1>5, <1>6, <1>7, <1>8, <1>9, <1>10, <1>11 DEF Next, WorkerStep

(* A new pool has nobody idle and nothing queued. *)
LEMMA CountInit == Init => IdleCounted /\ ThreadPerTask
PROOF
  <1> SUFFICES ASSUME Init
               PROVE  IdleCounted /\ ThreadPerTask
    BY Zenon
  <1>1. Idle = {} /\ idle_workers = 0
    BY Zenon DEF Init, Idle, IdlePc
  <1>2. Len(tasks) = 0
    BY Zenon DEF Init
  <1> QED
    BY Zenon, <1>1, <1>2, ThreadsFinite, FS_EmptySet DEF IdleCounted, ThreadPerTask

(* idle_workers is the number of workers inside wait(), in every behaviour. *)
THEOREM IdleAlwaysCounted == Spec => []IdleCounted
PROOF
  <1>1. Init => IdleCounted /\ ThreadPerTask
    BY Zenon, CountInit
  <1>2. TypeOK /\ IdleCounted /\ ThreadPerTask /\ [Next]_vars => IdleCounted' /\ ThreadPerTask'
    BY Zenon, CountStep
  <1> QED
    BY <1>1, <1>2, TypeCorrect, PTL DEF Spec

(* The elastic pool never has more queued tasks than threads outside tasks,
   however many tasks, and however many of them wait for others. *)
THEOREM ElasticSuffices == Spec => []ThreadPerTask
PROOF
  <1>1. Init => IdleCounted /\ ThreadPerTask
    BY Zenon, CountInit
  <1>2. TypeOK /\ IdleCounted /\ ThreadPerTask /\ [Next]_vars => IdleCounted' /\ ThreadPerTask'
    BY Zenon, CountStep
  <1> QED
    BY <1>1, <1>2, TypeCorrect, PTL DEF Spec

=============================================================================
