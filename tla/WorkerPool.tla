----------------------------- MODULE WorkerPool -----------------------------
(***************************************************************************)
(* The life of the OLTP workers: the pool creates them, they load their    *)
(* data and meet at pre_barrier, run transactions, meet at post_barrier    *)
(* where worker 0 takes a snapshot, and are joined by shutdown().  The     *)
(* client is one thread that calls the pool's functions in some order.     *)
(*                                                                         *)
(* The build keeps its assertions: pause and change of affinity of a       *)
(* running worker end the process.                                         *)
(***************************************************************************)
EXTENDS Naturals, FiniteSets

CONSTANTS
  NumWorkers,  \* workers init() creates
  MaxPlugged,  \* bound: calls of add_worker
  MaxRounds,   \* bound: calls of init
  MaxSnapshots \* bound: snapshots the client takes

ASSUME WorkerPoolAssumption ==
  /\ NumWorkers \in Nat \ {0}
  /\ MaxPlugged \in Nat /\ MaxRounds \in Nat \ {0} /\ MaxSnapshots \in Nat

Ids == 0 .. MaxRounds * NumWorkers + MaxPlugged - 1
Client == "client"
Worker0 == "worker 0"
Callers == {Client, Worker0}  \* of snapshot()

VARIABLES
  cpc,            \* where the client is
  worker_counter, \* the next worker's id
  pool,           \* WorkerPool::workers, as ids
  wpc,            \* where each worker's thread is
  terminate,      \* Worker::terminate
  pause,          \* Worker::pause
  pre_barrier,
  post_barrier,
  pausing,        \* the callers that are inside snapshot()
  left,           \* the workers pause() has yet to look at, for each caller
  round,          \* number of init() so far
  snapshots,      \* number of snapshots of the client
  hot,            \* workers of add_worker
  early,          \* history: a worker reached pre_barrier before it was in the pool
  unsafe,         \* history: the client took a snapshot of running workers
  started,        \* history: start_workers() has opened the barrier (this round)
  dead            \* an assertion failed

vars == <<cpc, worker_counter, pool, wpc, terminate, pause, pre_barrier, post_barrier,
          pausing, left, round, snapshots, hot, early, unsafe, started, dead>>
histories == <<early, unsafe>>
flags == <<terminate, pause>>
barriers == <<pre_barrier, post_barrier>>
snap == <<pausing, left>>
clientVars == <<cpc, worker_counter, pool, round, snapshots, hot, started>>

Running(w) == wpc[w] = "run"
(* Worker::state is READY, PRE_RUN, RUNNING, POST_RUN or TERMINATED, as wpc tells. *)
MustPause(w) == wpc[w] \in {"load", "run"} /\ ~terminate[w]

Init ==
  /\ cpc = "none"
  /\ worker_counter = 0
  /\ pool = {}
  /\ wpc = [w \in Ids |-> "none"]
  /\ terminate = [w \in Ids |-> FALSE]
  /\ pause = [w \in Ids |-> FALSE]
  /\ pre_barrier = 0 /\ post_barrier = 0
  /\ pausing = {} /\ left = [a \in Callers |-> {}]
  /\ round = 0 /\ snapshots = 0
  /\ hot = {}
  /\ early = FALSE /\ unsafe = FALSE /\ started = FALSE
  /\ dead = FALSE

-----------------------------------------------------------------------------
(* The client *)

init ==
  /\ cpc = "none" /\ round < MaxRounds
  /\ round' = round + 1
  /\ pre_barrier' = 0 /\ post_barrier' = 0
  /\ started' = FALSE
  /\ cpc' = "create"
  /\ UNCHANGED <<worker_counter, pool, wpc, flags, snap, snapshots, hot, histories, dead>>

(* create_worker: the thread runs ... *)
create_thread ==
  /\ cpc = "create" /\ Cardinality(pool) < NumWorkers
  /\ wpc' = [wpc EXCEPT ![worker_counter] = "boot"]
  /\ worker_counter' = worker_counter + 1
  /\ cpc' = "emplace"
  /\ UNCHANGED <<pool, flags, barriers, snap, round, snapshots, hot, histories, started, dead>>

(* ... before the pool knows the worker. *)
emplace_worker ==
  /\ cpc = "emplace"
  /\ pool' = pool \cup {worker_counter - 1}
  /\ cpc' = "create"
  /\ UNCHANGED <<worker_counter, wpc, flags, barriers, snap, round, snapshots, hot, histories, started, dead>>

(* init() returns when all workers have loaded. *)
init_returns ==
  /\ cpc = "create" /\ Cardinality(pool) = NumWorkers
  /\ pre_barrier = Cardinality(pool)
  /\ cpc' = "ready"
  /\ UNCHANGED <<worker_counter, pool, wpc, flags, barriers, snap, round, snapshots, hot, histories, started, dead>>

(* start_workers: wait, count the barrier up under pre_m, ... *)
start_workers ==
  /\ cpc = "ready" /\ ~started /\ pre_barrier = Cardinality(pool)
  /\ pre_barrier' = pre_barrier + 1
  /\ started' = TRUE
  /\ cpc' = "notify"
  /\ UNCHANGED <<worker_counter, pool, wpc, flags, post_barrier, snap, round, snapshots, hot, histories, dead>>

(* Variant: start_workers notifies one of the sleepers. *)
notify_one ==
  /\ cpc = "notify"
  /\ IF \E w \in Ids : wpc[w] = "asleep"
       THEN \E w \in Ids : wpc[w] = "asleep" /\ wpc' = [wpc EXCEPT ![w] = "check"]
       ELSE UNCHANGED wpc
  /\ cpc' = "ready"
  /\ UNCHANGED <<worker_counter, pool, flags, barriers, snap, round, snapshots, hot, histories, started, dead>>

(* ... and wake the sleepers. *)
notify_all ==
  /\ cpc = "notify"
  /\ wpc' = [w \in Ids |-> IF wpc[w] = "asleep" THEN "check" ELSE wpc[w]]
  /\ cpc' = "ready"
  /\ UNCHANGED <<worker_counter, pool, flags, barriers, snap, round, snapshots, hot, histories, started, dead>>

(* add_worker: a hot-plugged worker takes part in no barrier. *)
add_worker ==
  /\ cpc = "ready" /\ Cardinality(hot) < MaxPlugged
  /\ hot' = hot \cup {worker_counter}
  /\ wpc' = [wpc EXCEPT ![worker_counter] = "boot"]
  /\ worker_counter' = worker_counter + 1
  /\ cpc' = "plug"
  /\ UNCHANGED <<pool, flags, barriers, snap, round, snapshots, histories, started, dead>>

add_worker_emplace ==
  /\ cpc = "plug"
  /\ pool' = pool \cup {worker_counter - 1}
  /\ cpc' = "ready"
  /\ UNCHANGED <<worker_counter, wpc, flags, barriers, snap, round, snapshots, hot, histories, started, dead>>

(* remove_worker leaves the worker in the pool. *)
remove_worker(w) ==
  /\ cpc = "ready" /\ w \in pool \cap hot
  /\ terminate' = [terminate EXCEPT ![w] = TRUE]
  /\ UNCHANGED <<cpc, worker_counter, pool, wpc, pause, barriers, snap, round, snapshots, hot, histories, started, dead>>

(* shutdown: every worker is told to end, and joined; nobody is notified. *)
shutdown ==
  /\ cpc = "ready"
  /\ terminate' = [w \in Ids |-> terminate[w] \/ w \in pool]
  /\ cpc' = "join"
  /\ UNCHANGED <<worker_counter, pool, wpc, pause, barriers, snap, round, snapshots, hot, histories, started, dead>>

join ==
  /\ cpc = "join"
  /\ \A w \in pool : wpc[w] = "terminated"
  /\ pool' = {}
  /\ cpc' = "none"
  /\ UNCHANGED <<worker_counter, wpc, flags, barriers, snap, round, snapshots, hot, histories, started, dead>>

-----------------------------------------------------------------------------
(* TransactionManager::snapshot: pause(), the snapshot, resume() *)

(* pause(): every worker is told, ... *)
PauseAll(a) ==
  /\ pause' = [w \in Ids |-> pause[w] \/ w \in pool]
  /\ pausing' = pausing \cup {a}
  /\ left' = [left EXCEPT ![a] = pool]

snapshot ==
  /\ cpc = "ready" /\ snapshots < MaxSnapshots
  /\ PauseAll(Client)
  /\ snapshots' = snapshots + 1
  /\ unsafe' = (unsafe \/ \E w \in pool : Running(w) \/ (started /\ wpc[w] \in {"check", "asleep"}))
  /\ cpc' = "snapshot"
  /\ UNCHANGED <<worker_counter, pool, wpc, terminate, barriers, round, hot, early, started, dead>>

(* ... then each is looked at; one that must pause is waited for, and no worker
   ever says it has. *)
pause_next(a, w) ==
  /\ a \in pausing /\ w \in left[a]
  /\ ~MustPause(w)
  /\ left' = [left EXCEPT ![a] = @ \ {w}]
  /\ UNCHANGED <<clientVars, pausing, wpc, flags, barriers, histories, dead>>

pause_forever(a, w) ==
  /\ a \in pausing /\ w \in left[a]
  /\ MustPause(w)
  /\ pausing' = pausing \ {a}
  /\ left' = [left EXCEPT ![a] = {}]
  /\ IF a = Client
       THEN cpc' = "stuck" /\ UNCHANGED wpc
       ELSE wpc' = [wpc EXCEPT ![0] = "stuck"] /\ UNCHANGED cpc
  /\ UNCHANGED <<worker_counter, pool, round, snapshots, hot, started, flags, barriers, histories, dead>>

(* The snapshot is taken and every flag is down again; worker 0 counts the
   barrier up. *)
resume(a) ==
  /\ a \in pausing /\ left[a] = {}
  /\ pause' = [w \in Ids |-> pause[w] /\ w \notin pool]
  /\ pausing' = pausing \ {a}
  /\ IF a = Client
       THEN cpc' = "ready" /\ UNCHANGED <<wpc, post_barrier>>
       ELSE /\ wpc' = [wpc EXCEPT ![0] = "post"]
            /\ post_barrier' = post_barrier + 1
            /\ UNCHANGED cpc
  /\ UNCHANGED <<left, worker_counter, pool, round, snapshots, hot, started, terminate, pre_barrier, histories, dead>>

-----------------------------------------------------------------------------
(* Worker::run *)

workerOnly == <<clientVars, flags, snap, histories, dead>>

(* The memory pools; a hot-plugged worker runs at once. *)
boot(w) ==
  /\ wpc[w] = "boot"
  /\ wpc' = [wpc EXCEPT ![w] = IF w \in hot THEN "run" ELSE "load"]
  /\ UNCHANGED <<workerOnly, barriers>>

(* pre_run, then the barrier is counted up. *)
pre_run(w) ==
  /\ wpc[w] = "load"
  /\ wpc' = [wpc EXCEPT ![w] = "check"]
  /\ pre_barrier' = pre_barrier + 1
  /\ early' = (early \/ w \notin pool)
  /\ UNCHANGED <<clientVars, flags, snap, unsafe, dead, post_barrier>>

(* Variant: any count beyond the pool's size opens the barrier. *)
BarrierOpen_ge(w) == pre_barrier >= Cardinality(pool) \/ terminate[w]

(* The count start_workers() leaves, or the end. *)
BarrierOpen(w) == pre_barrier = Cardinality(pool) + 1 \/ terminate[w]

(* The wait on pre_cv, under pre_m, after the warm-up transaction. *)
pre_wait(w) ==
  /\ wpc[w] = "check"
  /\ wpc' = [wpc EXCEPT ![w] = IF BarrierOpen(w) THEN "run" ELSE "asleep"]
  /\ UNCHANGED <<workerOnly, barriers>>

spurious_wakeup(w) ==
  /\ wpc[w] = "asleep"
  /\ wpc' = [wpc EXCEPT ![w] = "check"]
  /\ UNCHANGED <<workerOnly, barriers>>

(* The loop ends when the worker is told to end or its iterations are used up. *)
Leave(w) ==
  /\ wpc' = [wpc EXCEPT ![w] = IF w \in hot THEN "terminated" ELSE IF w = 0 THEN "wait" ELSE "post"]
  /\ post_barrier' = IF w \in hot THEN post_barrier ELSE post_barrier + 1
  /\ UNCHANGED <<workerOnly, pre_barrier>>

loop_end(w) == Running(w) /\ terminate[w] /\ Leave(w)
iterations_end(w) == Running(w) /\ Leave(w)

(* A running worker that is told to pause fails an assertion. *)
pause_assert(w) ==
  /\ Running(w) /\ pause[w]
  /\ dead' = TRUE
  /\ UNCHANGED <<clientVars, wpc, flags, snap, histories, barriers>>

(* Variant: worker 0 does not wait for the others. *)
post_snapshot_early(w) ==
  /\ wpc[w] = "wait"
  /\ PauseAll(Worker0)
  /\ wpc' = [wpc EXCEPT ![w] = "snapshot"]
  /\ UNCHANGED <<clientVars, terminate, barriers, histories, dead>>

(* Worker 0 waits until all have arrived and takes the snapshot. *)
post_snapshot(w) ==
  /\ wpc[w] = "wait" /\ post_barrier = Cardinality(pool)
  /\ PauseAll(Worker0)
  /\ wpc' = [wpc EXCEPT ![w] = "snapshot"]
  /\ UNCHANGED <<clientVars, terminate, barriers, histories, dead>>

(* Everybody waits for the snapshot. *)
post_run(w) ==
  /\ wpc[w] = "post" /\ post_barrier = Cardinality(pool) + 1
  /\ wpc' = [wpc EXCEPT ![w] = "terminated"]
  /\ UNCHANGED <<workerOnly, barriers>>

-----------------------------------------------------------------------------
worker(w) ==
  \/ boot(w) \/ pre_run(w) \/ pre_wait(w) \/ loop_end(w) \/ pause_assert(w)
  \/ post_snapshot(w) \/ post_run(w)

snapshotting(a) ==
  (\E w \in Ids : pause_next(a, w) \/ pause_forever(a, w)) \/ resume(a)

client ==
  create_thread \/ emplace_worker \/ init_returns \/ notify_all \/ add_worker_emplace \/ join

Next ==
  /\ ~dead
  /\ \/ init \/ start_workers \/ add_worker \/ shutdown \/ snapshot \/ client
     \/ \E w \in Ids : worker(w) \/ spurious_wakeup(w) \/ iterations_end(w) \/ remove_worker(w)
     \/ \E a \in Callers : snapshotting(a)

(* Threads are scheduled; what the client calls, and when, is its own business. *)
Fairness ==
  /\ WF_vars(~dead /\ client)
  /\ \A w \in Ids : WF_vars(~dead /\ worker(w))
  /\ \A a \in Callers : WF_vars(~dead /\ snapshotting(a))

Spec == Init /\ [][Next]_vars /\ Fairness

-----------------------------------------------------------------------------
(* Properties *)

WorkerPc == {"none", "boot", "load", "check", "asleep", "run", "wait", "snapshot", "post",
             "stuck", "terminated"}

(* Every variable keeps the type of its declaration. *)
TypeOK ==
  /\ cpc \in {"none", "create", "emplace", "ready", "notify", "plug", "snapshot", "stuck", "join"}
  /\ worker_counter \in 0 .. Cardinality(Ids)
  /\ pool \subseteq Ids /\ hot \subseteq Ids
  /\ wpc \in [Ids -> WorkerPc]
  /\ terminate \in [Ids -> BOOLEAN] /\ pause \in [Ids -> BOOLEAN]
  /\ pre_barrier \in 0 .. NumWorkers + 1 /\ post_barrier \in 0 .. NumWorkers + 1
  /\ pausing \subseteq Callers /\ left \in [Callers -> SUBSET Ids]
  /\ round \in 0 .. MaxRounds /\ snapshots \in 0 .. MaxSnapshots
  /\ early \in BOOLEAN /\ unsafe \in BOOLEAN /\ started \in BOOLEAN /\ dead \in BOOLEAN

(* No transaction of a benchmark worker runs while another one still loads its
   data, unless a worker was so fast that it reached the barrier before
   create_worker had put it into the pool, or the workers are told to end. *)
LoadedBeforeRun ==
  ~early => \A w, v \in pool \ hot :
              Running(w) /\ ~terminate[w] => started /\ wpc[v] \notin {"boot", "load"}

(* Worker 0 takes the closing snapshot when no worker runs transactions, unless
   workers were hot-plugged or one was too fast for the barrier. *)
ClosingSnapshotAlone ==
  hot = {} /\ ~early /\ Worker0 \in pausing => \A w \in Ids : ~Running(w)

(* No worker meets the assertion against pausing, and no snapshot waits for a
   worker to pause, unless the client itself takes one of running workers,
   workers were hot-plugged, or one was too fast for the barrier. *)
NobodyPaused ==
  dead \/ cpc = "stuck" \/ wpc[0] = "stuck" => unsafe \/ early \/ hot # {}

(* Once start_workers() has opened the barrier every worker gets to run, unless
   workers are hot-plugged: the barrier compares with the size of the pool. *)
EveryWorkerStarts ==
  \A w \in Ids :
    (started /\ w \in pool) ~> (Running(w) \/ wpc[w] \in {"wait", "post", "snapshot", "stuck", "terminated"}
                                \/ hot # {} \/ dead)

(* shutdown() returns in the first round if the workers were started, none was
   hot-plugged and none was too fast for the barrier.  (Without start_workers() the sleepers are not notified; a
   hot-plugged worker is never counted by post_barrier; and in later rounds no
   worker has the id 0.) *)
ShutdownReturns ==
  (cpc = "join" /\ started /\ hot = {} /\ ~early /\ round = 1) ~> (cpc = "none" \/ dead)

(* The invariant of the pool: types, and no snapshot, neither the client's nor
   worker 0's closing one, meets a running worker. *)
PoolInv == TypeOK /\ ClosingSnapshotAlone /\ NobodyPaused

(* The life of the workers goes on: start_workers() starts all of them and
   shutdown() returns. *)
LifeGoesOn == EveryWorkerStarts /\ ShutdownReturns
=============================================================================
