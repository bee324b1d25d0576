------------------------- MODULE WorkerPool_proofs -------------------------
(***************************************************************************)
(* Proofs about WorkerPool, for any number of workers, hot-plugged ones,   *)
(* rounds and snapshots.                                                   *)
(***************************************************************************)
EXTENDS WorkerPool, TLAPS

(* The time a leaf may take, so that no proof depends on the speed of the machine. *)
USE SMTT(60)

-----------------------------------------------------------------------------
(* The inductive invariant *)

(* The workers of the pool, and the one that runs before the pool knows it. *)
Members == pool \cup (IF cpc \in {"emplace", "plug"} THEN {worker_counter - 1} ELSE {})

(* Those that take part in the barriers. *)
Crew == Members \ hot

Loading == {"boot", "load"}
Waiting == {"check", "asleep"}
Over == {"wait", "snapshot", "post", "stuck", "terminated"}
PastLoading == {"run"} \cup Waiting \cup Over

(* The workers of C that are at one of the places in P. *)
Among(C, f, P) == {w \in C : f[w] \in P}

Creating == cpc \in {"create", "emplace"}

(* Ids are given out in order; the thread of one who left the pool has ended. *)
Known ==
  /\ Members \subseteq 0 .. worker_counter - 1
  /\ hot \subseteq 0 .. worker_counter - 1
  /\ \A w \in Ids : wpc[w] = "none" <=> w >= worker_counter
  /\ \A w \in Ids : w \notin Members => wpc[w] \in {"none", "terminated"}

(* How many ids were given out. *)
Bounded ==
  /\ Cardinality(hot) <= MaxPlugged
  /\ Cardinality(Crew) <= NumWorkers
  /\ cpc = "none" => worker_counter <= Cardinality(hot) + round * NumWorkers
  /\ cpc # "none" => /\ round >= 1
                     /\ worker_counter <= Cardinality(hot) + (round - 1) * NumWorkers + Cardinality(Crew)

(* What the barriers count. *)
Started == IF started THEN 1 ELSE 0
Closed == IF 0 \in Members /\ wpc[0] \in {"post", "terminated"} THEN 1 ELSE 0
Counted ==
  cpc # "none" =>
    /\ pre_barrier = Cardinality(Among(Crew, wpc, PastLoading)) + Started
    /\ post_barrier = Cardinality(Among(Crew, wpc, Over)) + Closed

(* What the place of the client says of the pool. *)
Seating ==
  /\ cpc = "none" => pool = {}
  /\ Creating => pool \cap hot = {} /\ ~started
  /\ cpc = "emplace" => worker_counter - 1 \notin hot \cup pool /\ Cardinality(pool) < NumWorkers
  /\ cpc = "plug" => worker_counter - 1 \in hot \ pool
  /\ cpc \in {"ready", "notify", "plug", "snapshot", "stuck", "join"} => worker_counter >= 1
  /\ 0 \notin hot

(* Only shutdown() ends a worker of init(), and only worker 0 waits or takes snapshots. *)
Roles ==
  /\ cpc # "join" => \A w \in Crew : ~terminate[w]
  /\ \A w \in Ids : w >= worker_counter => ~terminate[w] /\ ~pause[w]
  /\ Client \in pausing <=> cpc = "snapshot"
  /\ Worker0 \in pausing <=> wpc[0] = "snapshot"
  /\ \A a \in Callers : left[a] \subseteq pool /\ (a \notin pausing => left[a] = {})
  /\ \A w \in Ids : wpc[w] \in {"wait", "snapshot", "stuck"} => w = 0
  /\ \A w \in Ids : wpc[w] \in Waiting \cup {"load"} => w \notin hot
  /\ \A w \in Ids : pause[w] => w \in pool /\ (pausing # {} \/ cpc = "stuck" \/ wpc[0] = "stuck")

(* The order the barriers enforce. *)
Order ==
  /\ ~Creating => \A w \in Crew : wpc[w] \notin Loading
  /\ ~early /\ cpc = "emplace" => wpc[worker_counter - 1] \in Loading
  /\ ~early => \A w \in Crew : ~terminate[w] /\ wpc[w] \notin Loading \cup Waiting => started
  /\ hot = {} /\ ~early /\ wpc[0] = "snapshot" => \A w \in Members : wpc[w] \in Over
  /\ hot = {} /\ ~unsafe /\ cpc = "snapshot" =>
       \A w \in pool : ~Running(w) /\ (started => wpc[w] \notin Waiting)

LifeInv == TypeOK /\ Known /\ Bounded /\ Counted /\ Seating /\ Roles /\ Order /\ NobodyPaused

-----------------------------------------------------------------------------
(* Counting *)

(* The workers init() has created after r rounds fit. *)
LEMMA RoundFacts ==
  ASSUME NEW r \in 1 .. MaxRounds
  PROVE  /\ (r - 1) * NumWorkers \in Nat
         /\ (r - 1) * NumWorkers + NumWorkers = r * NumWorkers
         /\ r * NumWorkers <= MaxRounds * NumWorkers
PROOF
  BY WorkerPoolAssumption

(* A step that moves no worker in or out of P. *)
LEMMA AmongSame ==
  ASSUME NEW C, NEW f, NEW g, NEW P, \A w \in C : f[w] \in P <=> g[w] \in P
  PROVE  Among(C, g, P) = Among(C, f, P)
PROOF
  BY Zenon DEF Among

-----------------------------------------------------------------------------
(* Every step keeps the invariant *)

(* While init() creates workers, those that were not too fast wait for start_workers(). *)
LEMMA NoneBeyondBarrier ==
  ASSUME LifeInv, Creating, ~early, NEW w \in Crew
  PROVE  wpc[w] \in Loading \cup Waiting
PROOF
  BY Zenon DEF LifeInv, Roles, Order, Seating, Creating

(* The types, in parts. *)
ClientTypes ==
  /\ cpc \in {"none", "create", "emplace", "ready", "notify", "plug", "snapshot", "stuck", "join"}
  /\ worker_counter \in 0 .. Cardinality(Ids)
  /\ pool \subseteq Ids /\ hot \subseteq Ids
  /\ round \in 0 .. MaxRounds /\ snapshots \in 0 .. MaxSnapshots
WorkerTypes ==
  /\ wpc \in [Ids -> WorkerPc] /\ terminate \in [Ids -> BOOLEAN] /\ pause \in [Ids -> BOOLEAN]
  /\ pausing \subseteq Callers /\ left \in [Callers -> SUBSET Ids]
BarrierTypes == pre_barrier \in 0 .. NumWorkers + 1 /\ post_barrier \in 0 .. NumWorkers + 1
HistoryTypes == early \in BOOLEAN /\ unsafe \in BOOLEAN /\ started \in BOOLEAN /\ dead \in BOOLEAN

-----------------------------------------------------------------------------
(* The theorems *)

INSTANCE FiniteSetTheorems

(* The ids are finitely many, and 0 is one. *)
LEMMA IdsFacts ==
  /\ MaxRounds * NumWorkers \in Nat \ {0}
  /\ Ids \subseteq Nat /\ 0 \in Ids
  /\ IsFiniteSet(Ids) /\ Cardinality(Ids) = MaxRounds * NumWorkers + MaxPlugged
PROOF
  <1>1. MaxRounds * NumWorkers \in Nat \ {0}
    BY WorkerPoolAssumption
  <1>2. Ids \subseteq Nat /\ 0 \in Ids
    BY <1>1, WorkerPoolAssumption DEF Ids
  <1>3. IsFiniteSet(Ids) /\ Cardinality(Ids) = MaxRounds * NumWorkers + MaxPlugged
    <2> DEFINE n == MaxRounds * NumWorkers + MaxPlugged
    <2>1. n \in Nat \ {0}
      BY <1>1, WorkerPoolAssumption
    <2>2. Ids = 0 .. n - 1
      BY <1>1, WorkerPoolAssumption DEF Ids
    <2> HIDE DEF n
    <2>3. IsFiniteSet(0 .. n - 1) /\ Cardinality(0 .. n - 1) = n
      BY <2>1, FS_Interval
    <2> QED
      BY Zenon, <2>2, <2>3 DEF n
  <1> QED
    BY Zenon, <1>1, <1>2, <1>3

(* The ids that were given out are ids. *)
LEMMA GivenOut ==
  ASSUME TypeOK, Known
  PROVE  0 .. worker_counter - 1 \subseteq Ids /\ Members \subseteq Ids
PROOF
  <1> DEFINE n == MaxRounds * NumWorkers
  <1>1. n \in Nat /\ MaxPlugged \in Nat /\ Ids = 0 .. n + MaxPlugged - 1 /\ Cardinality(Ids) = n + MaxPlugged
    BY Zenon, IdsFacts, WorkerPoolAssumption DEF Ids
  <1>2. worker_counter \in 0 .. Cardinality(Ids) /\ Members \subseteq 0 .. worker_counter - 1
    BY Zenon DEF TypeOK, Known
  <1> HIDE DEF n
  <1> QED
    BY <1>1, <1>2

(* A set of workers can be counted. *)
LEMMA SomeIds ==
  ASSUME NEW S \in SUBSET Ids
  PROVE  IsFiniteSet(S) /\ Cardinality(S) \in Nat
PROOF
  BY Zenon, IdsFacts, FS_Subset, FS_CardinalityType

(* Adding a worker. *)
LEMMA OneMore ==
  ASSUME NEW S \in SUBSET Ids, NEW x, x \notin S
  PROVE  Cardinality(S \cup {x}) = Cardinality(S) + 1
PROOF
  BY Zenon, SomeIds, FS_AddElement

(* Among is a part, and a part of the same size is everything. *)
LEMMA AmongBound ==
  ASSUME NEW C \in SUBSET Ids, NEW f, NEW P
  PROVE  /\ Among(C, f, P) \in SUBSET Ids
         /\ Cardinality(Among(C, f, P)) \in Nat /\ Cardinality(C) \in Nat
         /\ Cardinality(Among(C, f, P)) <= Cardinality(C)
         /\ Cardinality(Among(C, f, P)) = Cardinality(C) => \A w \in C : f[w] \in P
PROOF
  <1>1. Among(C, f, P) \in SUBSET C
    BY Zenon DEF Among
  <1>2. IsFiniteSet(C) /\ Cardinality(C) \in Nat
    BY Zenon, SomeIds
  <1>3. Among(C, f, P) \in SUBSET Ids
    BY Zenon, <1>1
  <1>4. Cardinality(Among(C, f, P)) \in Nat
    BY Zenon, <1>3, SomeIds
  <1>5. /\ Cardinality(Among(C, f, P)) <= Cardinality(C)
        /\ Cardinality(C) = Cardinality(Among(C, f, P)) => C = Among(C, f, P)
    BY ZenonT(30), <1>1, <1>2, FS_Subset
  <1>6. C = Among(C, f, P) => \A w \in C : f[w] \in P
    BY Zenon DEF Among
  <1> QED
    BY Zenon, <1>2, <1>3, <1>4, <1>5, <1>6

(* A step that moves one worker into P. *)
LEMMA AmongMore ==
  ASSUME NEW C \in SUBSET Ids, NEW f, NEW g, NEW P, NEW x \in C,
         f[x] \notin P, g[x] \in P, \A w \in C : w # x => g[w] = f[w]
  PROVE  Cardinality(Among(C, g, P)) = Cardinality(Among(C, f, P)) + 1
PROOF
  <1>1. Among(C, g, P) = Among(C, f, P) \cup {x} /\ x \notin Among(C, f, P)
    BY Zenon DEF Among
  <1>2. Among(C, f, P) \in SUBSET Ids
    BY Zenon, AmongBound
  <1> QED
    BY Zenon, <1>1, <1>2, OneMore

(* Nobody. *)
LEMMA AmongNobody ==
  ASSUME NEW f, NEW P
  PROVE  Cardinality(Among({}, f, P)) = 0 /\ Cardinality({}) = 0
PROOF
  <1>1. Among({}, f, P) = {}
    BY DEF Among
  <1> QED
    BY Zenon, <1>1, FS_EmptySet

(* Every step gives ids out in order. *)
LEMMA KnownStep ==
  ASSUME LifeInv, [Next]_vars
  PROVE  Known'
PROOF
  <1>ty. /\ cpc \in {"none", "create", "emplace", "ready", "notify", "plug", "snapshot", "stuck", "join"}
         /\ worker_counter \in Nat /\ pool \subseteq Ids /\ hot \subseteq Ids /\ Ids \subseteq Nat
         /\ wpc \in [Ids -> WorkerPc] /\ 0 \in Ids
    BY IdsFacts DEF LifeInv, TypeOK
  <1>k. Known /\ Seating /\ Roles
    BY Zenon DEF LifeInv
  <1>1. CASE init
    BY Zenon, <1>1, <1>ty, <1>k DEF init, Known, Members, Seating, WorkerPc
  <1>2. CASE create_thread
    BY <1>2, <1>ty, <1>k DEF create_thread, Known, Members, Seating, WorkerPc
  <1>3. CASE emplace_worker
    BY Zenon, <1>3, <1>ty, <1>k DEF emplace_worker, Known, Members, Seating, WorkerPc
  <1>4. CASE init_returns
    BY Zenon, <1>4, <1>ty, <1>k DEF init_returns, Known, Members, Seating, WorkerPc
  <1>5. CASE start_workers
    BY Zenon, <1>5, <1>ty, <1>k DEF start_workers, Known, Members, Seating, WorkerPc
  <1>6. CASE notify_all
    BY Zenon, <1>6, <1>ty, <1>k DEF notify_all, Known, Members, Seating, WorkerPc
  <1>7. CASE add_worker
    BY <1>7, <1>ty, <1>k DEF add_worker, Known, Members, Seating, WorkerPc
  <1>8. CASE add_worker_emplace
    BY Zenon, <1>8, <1>ty, <1>k DEF add_worker_emplace, Known, Members, Seating, WorkerPc
  <1>9. CASE shutdown
    BY Zenon, <1>9, <1>ty, <1>k DEF shutdown, Known, Members, Seating, WorkerPc
  <1>10. CASE join
    BY Zenon, <1>10, <1>ty, <1>k DEF join, Known, Members, Seating, WorkerPc
  <1>11. CASE snapshot
    BY Zenon, <1>11, <1>ty, <1>k DEF snapshot, Known, Members, Seating, WorkerPc
  <1>12. ASSUME NEW w \in Ids, remove_worker(w)
        PROVE  Known'
    BY Zenon, <1>12, <1>ty, <1>k DEF remove_worker, Known, Members, Seating, WorkerPc
  <1>13. ASSUME NEW w \in Ids, boot(w)
        PROVE  Known'
    BY Zenon, <1>13, <1>ty, <1>k DEF boot, workerOnly, clientVars, Known, Members, WorkerPc
  <1>14. ASSUME NEW w \in Ids, pre_run(w)
        PROVE  Known'
    BY Zenon, <1>14, <1>ty, <1>k DEF pre_run, workerOnly, clientVars, Known, Members, WorkerPc
  <1>15. ASSUME NEW w \in Ids, pre_wait(w)
        PROVE  Known'
    BY Zenon, <1>15, <1>ty, <1>k DEF pre_wait, workerOnly, clientVars, Known, Members, WorkerPc
  <1>16. ASSUME NEW w \in Ids, spurious_wakeup(w)
        PROVE  Known'
    BY Zenon, <1>16, <1>ty, <1>k DEF spurious_wakeup, workerOnly, clientVars, Known, Members, WorkerPc
  <1>17. ASSUME NEW w \in Ids, Running(w), Leave(w)
        PROVE  Known'
    BY Zenon, <1>17, <1>ty, <1>k DEF Leave, Running, workerOnly, clientVars, Known, Members, WorkerPc
  <1>18. ASSUME NEW w \in Ids, pause_assert(w)
        PROVE  Known'
    BY Zenon, <1>18, <1>ty, <1>k DEF pause_assert, workerOnly, clientVars, Known, Members, WorkerPc
  <1>19. ASSUME NEW w \in Ids, post_snapshot(w)
        PROVE  Known'
    BY Zenon, <1>19, <1>ty, <1>k DEF post_snapshot, workerOnly, clientVars, Known, Members, WorkerPc
  <1>20. ASSUME NEW w \in Ids, post_run(w)
        PROVE  Known'
    BY Zenon, <1>20, <1>ty, <1>k DEF post_run, workerOnly, clientVars, Known, Members, WorkerPc
  <1>21. ASSUME NEW a \in Callers, NEW w \in Ids, pause_next(a, w)
        PROVE  Known'
    BY Zenon, <1>21, <1>ty, <1>k DEF pause_next, workerOnly, clientVars, Known, Members, WorkerPc
  <1>22. ASSUME NEW a \in Callers, NEW w \in Ids, pause_forever(a, w)
        PROVE  Known'
    BY Zenon, <1>22, <1>ty, <1>k DEF pause_forever, Known, Members, WorkerPc, Roles, Callers, Client, Worker0
  <1>23. ASSUME NEW a \in Callers, resume(a)
        PROVE  Known'
    BY Zenon, <1>23, <1>ty, <1>k DEF resume, Known, Members, WorkerPc, Roles, Callers, Client, Worker0
  <1>24. CASE UNCHANGED vars
    BY Zenon, <1>24, <1>ty, <1>k DEF vars, Known, Members, Seating, WorkerPc
  <1> QED
    BY ZenonT(60), <1>1, <1>2, <1>3, <1>4, <1>5, <1>6, <1>7, <1>8, <1>9, <1>10, <1>11, <1>12,
       <1>13, <1>14, <1>15, <1>16, <1>17, <1>18, <1>19, <1>20, <1>21, <1>22, <1>23, <1>24
       DEF Next, worker, snapshotting, client, loop_end, iterations_end

(* No step gives out more ids than there are. *)
LEMMA BoundedStep ==
  ASSUME LifeInv, [Next]_vars
  PROVE  Bounded'
PROOF
  <1>ty. /\ cpc \in {"none", "create", "emplace", "ready", "notify", "plug", "snapshot", "stuck", "join"}
         /\ worker_counter \in Nat /\ pool \subseteq Ids /\ hot \subseteq Ids /\ Ids \subseteq Nat
         /\ wpc \in [Ids -> WorkerPc] /\ 0 \in Ids
    BY IdsFacts DEF LifeInv, TypeOK
  <1>k. Known /\ Seating /\ Roles /\ Bounded /\ Members \subseteq Ids /\ Crew \subseteq Ids
    BY GivenOut DEF LifeInv, Crew
  <1>r. round \in 0 .. MaxRounds /\ Cardinality(hot) \in Nat /\ Cardinality(Crew) \in Nat
    BY Zenon, <1>ty, <1>k, SomeIds DEF LifeInv, TypeOK
  <1>1. CASE init
    <2>1. /\ Crew' = Crew /\ Crew = {} /\ hot' = hot /\ worker_counter' = worker_counter
          /\ round' = round + 1 /\ round' \in 1 .. MaxRounds /\ cpc = "none" /\ cpc' # "none"
      BY <1>1, <1>ty, <1>k, <1>r, WorkerPoolAssumption DEF init, Crew, Members, Seating
    <2>2. Cardinality(Crew') = 0 /\ round' - 1 = round
      BY <2>1, <1>r, FS_EmptySet
    <2> QED
      BY <2>1, <2>2, <1>k, <1>r, WorkerPoolAssumption DEF Bounded
  <1>2. CASE create_thread
    <2>0. Members = pool /\ Members' = pool \cup {worker_counter} /\ worker_counter \notin Members \cup hot
      BY <1>2, <1>ty, <1>k DEF create_thread, Members, Known
    <2>1. /\ Crew' = Crew \cup {worker_counter} /\ worker_counter \notin Crew /\ Crew = pool
          /\ hot' = hot /\ worker_counter' = worker_counter + 1 /\ round' = round
          /\ Cardinality(pool) < NumWorkers /\ cpc # "none" /\ cpc' # "none"
      BY Zenon, <1>2, <2>0, <1>k DEF create_thread, Crew, Seating, Creating
    <2>2. Cardinality(Crew') = Cardinality(Crew) + 1
      BY Zenon, <2>1, <1>k, OneMore
    <2>3. round \in 1 .. MaxRounds
      BY <2>1, <1>k, <1>r, WorkerPoolAssumption DEF Bounded
    <2>4. (round - 1) * NumWorkers \in Nat
      BY Zenon, <2>3, RoundFacts
    <2> QED
      BY <2>1, <2>2, <2>3, <2>4, <1>k, <1>r, <1>ty, WorkerPoolAssumption DEF Bounded
  <1>3. CASE emplace_worker
    <2>1. /\ Crew' = Crew /\ hot' = hot /\ worker_counter' = worker_counter /\ round' = round
          /\ cpc' = "none" <=> cpc = "none"
      BY Zenon, <1>3, <1>ty, <1>k DEF emplace_worker, Crew, Members, Roles
    <2> QED
      BY Zenon, <2>1, <1>k DEF Bounded
  <1>4. CASE init_returns
    <2>1. /\ Crew' = Crew /\ hot' = hot /\ worker_counter' = worker_counter /\ round' = round
          /\ cpc' = "none" <=> cpc = "none"
      BY Zenon, <1>4, <1>ty, <1>k DEF init_returns, Crew, Members, Roles
    <2> QED
      BY Zenon, <2>1, <1>k DEF Bounded
  <1>5. CASE start_workers
    <2>1. /\ Crew' = Crew /\ hot' = hot /\ worker_counter' = worker_counter /\ round' = round
          /\ cpc' = "none" <=> cpc = "none"
      BY Zenon, <1>5, <1>ty, <1>k DEF start_workers, Crew, Members, Roles
    <2> QED
      BY Zenon, <2>1, <1>k DEF Bounded
  <1>6. CASE notify_all
    <2>1. /\ Crew' = Crew /\ hot' = hot /\ worker_counter' = worker_counter /\ round' = round
          /\ cpc' = "none" <=> cpc = "none"
      BY Zenon, <1>6, <1>ty, <1>k DEF notify_all, Crew, Members, Roles
    <2> QED
      BY Zenon, <2>1, <1>k DEF Bounded
  <1>7. CASE add_worker
    <2>1. /\ Crew' = Crew /\ hot' = hot \cup {worker_counter} /\ worker_counter \notin hot
          /\ worker_counter' = worker_counter + 1 /\ round' = round
          /\ Cardinality(hot) < MaxPlugged /\ cpc # "none" /\ cpc' # "none"
      BY <1>7, <1>ty, <1>k DEF add_worker, Crew, Members, Known
    <2>2. Cardinality(hot') = Cardinality(hot) + 1
      BY Zenon, <2>1, <1>ty, OneMore
    <2>3. round \in 1 .. MaxRounds
      BY <2>1, <1>k, <1>r, WorkerPoolAssumption DEF Bounded
    <2>4. (round - 1) * NumWorkers \in Nat
      BY Zenon, <2>3, RoundFacts
    <2> QED
      BY <2>1, <2>2, <2>3, <2>4, <1>k, <1>r, <1>ty, WorkerPoolAssumption DEF Bounded
  <1>8. CASE add_worker_emplace
    <2>1. /\ Crew' = Crew /\ hot' = hot /\ worker_counter' = worker_counter /\ round' = round
          /\ cpc' = "none" <=> cpc = "none"
      BY Zenon, <1>8, <1>ty, <1>k DEF add_worker_emplace, Crew, Members, Roles
    <2> QED
      BY Zenon, <2>1, <1>k DEF Bounded
  <1>9. CASE shutdown
    <2>1. /\ Crew' = Crew /\ hot' = hot /\ worker_counter' = worker_counter /\ round' = round
          /\ cpc' = "none" <=> cpc = "none"
      BY Zenon, <1>9, <1>ty, <1>k DEF shutdown, Crew, Members, Roles
    <2> QED
      BY Zenon, <2>1, <1>k DEF Bounded
  <1>10. CASE join
    <2>1. Crew' = {} /\ hot' = hot /\ worker_counter' = worker_counter /\ round' = round /\ cpc # "none" /\ cpc' = "none"
      BY Zenon, <1>10, <1>ty, <1>k DEF join, Crew, Members
    <2>2. Cardinality(Crew') = 0
      BY Zenon, <2>1, FS_EmptySet
    <2>3. round \in 1 .. MaxRounds
      BY <2>1, <1>k, <1>r, WorkerPoolAssumption DEF Bounded
    <2>4. (round - 1) * NumWorkers \in Nat /\ (round - 1) * NumWorkers + NumWorkers = round * NumWorkers
      BY Zenon, <2>3, RoundFacts
    <2> QED
      BY <2>1, <2>2, <2>4, <1>k, <1>r, <1>ty, WorkerPoolAssumption DEF Bounded
  <1>11. CASE snapshot
    <2>1. /\ Crew' = Crew /\ hot' = hot /\ worker_counter' = worker_counter /\ round' = round
          /\ cpc' = "none" <=> cpc = "none"
      BY Zenon, <1>11, <1>ty, <1>k DEF snapshot, PauseAll, Crew, Members, Roles
    <2> QED
      BY Zenon, <2>1, <1>k DEF Bounded
  <1>12. ASSUME NEW w \in Ids, remove_worker(w)
        PROVE  Bounded'
    <2>1. /\ Crew' = Crew /\ hot' = hot /\ worker_counter' = worker_counter /\ round' = round
          /\ cpc' = "none" <=> cpc = "none"
      BY Zenon, <1>12, <1>ty, <1>k DEF remove_worker, Crew, Members, Roles
    <2> QED
      BY Zenon, <2>1, <1>k DEF Bounded
  <1>13. ASSUME NEW w \in Ids, boot(w)
        PROVE  Bounded'
    <2>1. /\ Crew' = Crew /\ hot' = hot /\ worker_counter' = worker_counter /\ round' = round
          /\ cpc' = "none" <=> cpc = "none"
      BY Zenon, <1>13, <1>ty, <1>k DEF boot, workerOnly, clientVars, Crew, Members, Roles
    <2> QED
      BY Zenon, <2>1, <1>k DEF Bounded
  <1>14. ASSUME NEW w \in Ids, pre_run(w)
        PROVE  Bounded'
    <2>1. /\ Crew' = Crew /\ hot' = hot /\ worker_counter' = worker_counter /\ round' = round
          /\ cpc' = "none" <=> cpc = "none"
      BY Zenon, <1>14, <1>ty, <1>k DEF pre_run, workerOnly, clientVars, Crew, Members, Roles
    <2> QED
      BY Zenon, <2>1, <1>k DEF Bounded
  <1>15. ASSUME NEW w \in Ids, pre_wait(w)
        PROVE  Bounded'
    <2>1. /\ Crew' = Crew /\ hot' = hot /\ worker_counter' = worker_counter /\ round' = round
          /\ cpc' = "none" <=> cpc = "none"
      BY Zenon, <1>15, <1>ty, <1>k DEF pre_wait, workerOnly, clientVars, Crew, Members, Roles
    <2> QED
      BY Zenon, <2>1, <1>k DEF Bounded
  <1>16. ASSUME NEW w \in Ids, spurious_wakeup(w)
        PROVE  Bounded'
    <2>1. /\ Crew' = Crew /\ hot' = hot /\ worker_counter' = worker_counter /\ round' = round
          /\ cpc' = "none" <=> cpc = "none"
      BY Zenon, <1>16, <1>ty, <1>k DEF spurious_wakeup, workerOnly, clientVars, Crew, Members, Roles
    <2> QED
      BY Zenon, <2>1, <1>k DEF Bounded
  <1>17. ASSUME NEW w \in Ids, Running(w), Leave(w)
        PROVE  Bounded'
    <2>1. /\ Crew' = Crew /\ hot' = hot /\ worker_counter' = worker_counter /\ round' = round
          /\ cpc' = "none" <=> cpc = "none"
      BY Zenon, <1>17, <1>ty, <1>k DEF Leave, Running, workerOnly, clientVars, Crew, Members, Roles
    <2> QED
      BY Zenon, <2>1, <1>k DEF Bounded
  <1>18. ASSUME NEW w \in Ids, pause_assert(w)
        PROVE  Bounded'
    <2>1. /\ Crew' = Crew /\ hot' = hot /\ worker_counter' = worker_counter /\ round' = round
          /\ cpc' = "none" <=> cpc = "none"
      BY Zenon, <1>18, <1>ty, <1>k DEF pause_assert, workerOnly, clientVars, Crew, Members, Roles
    <2> QED
      BY Zenon, <2>1, <1>k DEF Bounded
  <1>19. ASSUME NEW w \in Ids, post_snapshot(w)
        PROVE  Bounded'
    <2>1. /\ Crew' = Crew /\ hot' = hot /\ worker_counter' = worker_counter /\ round' = round
          /\ cpc' = "none" <=> cpc = "none"
      BY Zenon, <1>19, <1>ty, <1>k DEF post_snapshot, PauseAll, workerOnly, clientVars, Crew, Members, Roles
    <2> QED
      BY Zenon, <2>1, <1>k DEF Bounded
  <1>20. ASSUME NEW w \in Ids, post_run(w)
        PROVE  Bounded'
    <2>1. /\ Crew' = Crew /\ hot' = hot /\ worker_counter' = worker_counter /\ round' = round
          /\ cpc' = "none" <=> cpc = "none"
      BY Zenon, <1>20, <1>ty, <1>k DEF post_run, workerOnly, clientVars, Crew, Members, Roles
    <2> QED
      BY Zenon, <2>1, <1>k DEF Bounded
  <1>21. ASSUME NEW a \in Callers, NEW w \in Ids, pause_next(a, w)
        PROVE  Bounded'
    <2>1. /\ Crew' = Crew /\ hot' = hot /\ worker_counter' = worker_counter /\ round' = round
          /\ cpc' = "none" <=> cpc = "none"
      BY Zenon, <1>21, <1>ty, <1>k DEF pause_next, workerOnly, clientVars, Crew, Members, Roles
    <2> QED
      BY Zenon, <2>1, <1>k DEF Bounded
  <1>22. ASSUME NEW a \in Callers, NEW w \in Ids, pause_forever(a, w)
        PROVE  Bounded'
    <2>1. /\ Crew' = Crew /\ hot' = hot /\ worker_counter' = worker_counter /\ round' = round
          /\ cpc' = "none" <=> cpc = "none"
      BY Zenon, <1>22, <1>ty, <1>k DEF pause_forever, Callers, Client, Worker0, Crew, Members, Roles
    <2> QED
      BY Zenon, <2>1, <1>k DEF Bounded
  <1>23. ASSUME NEW a \in Callers, resume(a)
        PROVE  Bounded'
    <2>1. /\ Crew' = Crew /\ hot' = hot /\ worker_counter' = worker_counter /\ round' = round
          /\ cpc' = "none" <=> cpc = "none"
      BY Zenon, <1>23, <1>ty, <1>k DEF resume, Callers, Client, Worker0, Crew, Members, Roles
    <2> QED
      BY Zenon, <2>1, <1>k DEF Bounded
  <1>24. CASE UNCHANGED vars
    <2>1. /\ Crew' = Crew /\ hot' = hot /\ worker_counter' = worker_counter /\ round' = round
          /\ cpc' = "none" <=> cpc = "none"
      BY Zenon, <1>24, <1>ty, <1>k DEF vars, Crew, Members, Roles
    <2> QED
      BY Zenon, <2>1, <1>k DEF Bounded
  <1> QED
    BY Zenon, <1>1, <1>2, <1>3, <1>4, <1>5, <1>6, <1>7, <1>8, <1>9, <1>10, <1>11, <1>12,
       <1>13, <1>14, <1>15, <1>16, <1>17, <1>18, <1>19, <1>20, <1>21, <1>22, <1>23, <1>24
       DEF Next, worker, snapshotting, client, loop_end, iterations_end

(* There is an id left for the next worker. *)
LEMMA NewId ==
  ASSUME LifeInv, \/ cpc = "create" /\ Cardinality(pool) < NumWorkers
                  \/ cpc = "ready" /\ Cardinality(hot) < MaxPlugged
  PROVE  worker_counter \in Ids
PROOF
  <1> DEFINE n == MaxRounds * NumWorkers
  <1> DEFINE m == (round - 1) * NumWorkers
  <1>1. n \in Nat /\ MaxPlugged \in Nat /\ NumWorkers \in Nat /\ Ids = 0 .. n + MaxPlugged - 1
    BY Zenon, IdsFacts, WorkerPoolAssumption DEF Ids
  <1>2. round \in 1 .. MaxRounds
    BY WorkerPoolAssumption DEF LifeInv, TypeOK, Bounded
  <1>3. m \in Nat /\ m + NumWorkers <= n
    BY Zenon, <1>2, RoundFacts
  <1>4. pool \subseteq Ids /\ hot \subseteq Ids /\ Crew \subseteq Ids
    BY Zenon, GivenOut DEF LifeInv, TypeOK, Crew
  <1>5. Cardinality(hot) \in Nat /\ Cardinality(Crew) \in Nat /\ Cardinality(pool) \in Nat
    BY Zenon, <1>4, SomeIds
  <1>6. /\ worker_counter \in Nat /\ worker_counter <= Cardinality(hot) + m + Cardinality(Crew)
        /\ Cardinality(hot) <= MaxPlugged /\ Cardinality(Crew) <= NumWorkers
    BY DEF LifeInv, TypeOK, Bounded
  <1>7. cpc = "create" => Crew = pool
    BY Zenon DEF LifeInv, Seating, Creating, Crew, Members
  <1> HIDE DEF n, m
  <1> QED
    BY <1>1, <1>3, <1>5, <1>6, <1>7

(* Every step keeps what the barriers count. *)
LEMMA CountedStep ==
  ASSUME LifeInv, [Next]_vars
  PROVE  Counted'
PROOF
  <1>ty. /\ cpc \in {"none", "create", "emplace", "ready", "notify", "plug", "snapshot", "stuck", "join"}
         /\ worker_counter \in Nat /\ pool \subseteq Ids /\ hot \subseteq Ids /\ Ids \subseteq Nat
         /\ wpc \in [Ids -> WorkerPc] /\ 0 \in Ids
    BY IdsFacts DEF LifeInv, TypeOK
  <1>k. Known /\ Seating /\ Roles /\ Counted /\ Members \subseteq Ids /\ Crew \subseteq Ids
    BY GivenOut DEF LifeInv, Crew
  <1>1. CASE init
    <2>1. /\ Crew' = {} /\ Members' = {} /\ pre_barrier' = 0 /\ post_barrier' = 0 /\ started' = FALSE
      BY Zenon, <1>1, <1>ty, <1>k DEF init, Crew, Members, Seating
    <2>2. Cardinality(Among({}, wpc', PastLoading)) = 0 /\ Cardinality(Among({}, wpc', Over)) = 0
      BY Zenon, AmongNobody
    <2> QED
      BY <2>1, <2>2 DEF Counted, Started, Closed
  <1>2. CASE create_thread
    <2>1. /\ Members' = Members \cup {worker_counter} /\ Crew' = Crew \cup {worker_counter}
          /\ worker_counter \notin Crew /\ worker_counter \notin Members /\ cpc # "none"
          /\ pre_barrier' = pre_barrier /\ post_barrier' = post_barrier /\ started' = started
      <3>1. Members = pool /\ Members' = pool \cup {worker_counter} /\ worker_counter \notin Members \cup hot
        BY <1>2, <1>ty, <1>k DEF create_thread, Members, Known
      <3> QED
        BY Zenon, <1>2, <3>1 DEF create_thread, barriers, Crew
    <2>2. worker_counter \in Ids
      BY Zenon, <1>2, NewId DEF create_thread
    <2>3. /\ wpc'[worker_counter] = "boot" /\ wpc[worker_counter] = "none"
          /\ \A v \in Ids : v # worker_counter => wpc'[v] = wpc[v]
      BY <1>2, <2>2, <1>ty, <1>k DEF create_thread, Known
    <2>4. /\ Among(Crew', wpc', PastLoading) = Among(Crew, wpc, PastLoading)
          /\ Among(Crew', wpc', Over) = Among(Crew, wpc, Over)
      <3>1. "boot" \notin PastLoading /\ "boot" \notin Over
        BY Zenon DEF PastLoading, Waiting, Over
      <3>2. \A v \in Crew : v # worker_counter => wpc'[v] = wpc[v]
        BY Zenon, <2>3, <1>k
      <3>3. wpc'[worker_counter] \notin PastLoading /\ wpc'[worker_counter] \notin Over
        BY Zenon, <2>3, <3>1
      <3>4. Among(Crew \cup {worker_counter}, wpc', PastLoading) = Among(Crew, wpc, PastLoading)
        BY Zenon, <2>1, <3>2, <3>3 DEF Among
      <3>5. Among(Crew \cup {worker_counter}, wpc', Over) = Among(Crew, wpc, Over)
        BY Zenon, <2>1, <3>2, <3>3 DEF Among
      <3> QED
        BY Zenon, <2>1, <3>4, <3>5
    <2>5. Closed' = Closed /\ Started' = Started
      BY Zenon, <2>1, <2>2, <2>3, <1>ty, <1>k DEF Closed, Started
    <2> QED
      BY Zenon, <2>1, <2>4, <2>5, <1>k DEF Counted
  <1>3. CASE emplace_worker
    <2>1. /\ Crew' = Crew /\ Members' = Members /\ (cpc' # "none" => cpc # "none") /\ wpc' = wpc
          /\ pre_barrier' = pre_barrier /\ post_barrier' = post_barrier /\ started' = started
      BY Zenon, <1>3, <1>ty, <1>k DEF emplace_worker, barriers, Crew, Members
    <2> QED
      BY Zenon, <2>1, <1>k DEF Counted, Started, Closed
  <1>4. CASE init_returns
    <2>1. /\ Crew' = Crew /\ Members' = Members /\ (cpc' # "none" => cpc # "none") /\ wpc' = wpc
          /\ pre_barrier' = pre_barrier /\ post_barrier' = post_barrier /\ started' = started
      BY Zenon, <1>4, <1>ty, <1>k DEF init_returns, barriers, Crew, Members
    <2> QED
      BY Zenon, <2>1, <1>k DEF Counted, Started, Closed
  <1>5. CASE start_workers
    <2>1. /\ Crew' = Crew /\ Members' = Members /\ cpc # "none" /\ wpc' = wpc
          /\ pre_barrier' = pre_barrier + 1 /\ post_barrier' = post_barrier /\ ~started /\ started'
      BY Zenon, <1>5, <1>ty, <1>k DEF start_workers, Crew, Members
    <2>2. Cardinality(Among(Crew, wpc, PastLoading)) \in Nat
      BY Zenon, <1>k, AmongBound
    <2>3. Closed' = Closed /\ Started = 0 /\ Started' = 1
      BY Zenon, <2>1 DEF Closed, Started
    <2> QED
      BY <2>1, <2>2, <2>3, <1>k DEF Counted
  <1>6. CASE notify_all
    <2>1. /\ Crew' = Crew /\ Members' = Members /\ (cpc' # "none" => cpc # "none")
          /\ pre_barrier' = pre_barrier /\ post_barrier' = post_barrier /\ started' = started
      BY Zenon, <1>6, <1>ty, <1>k DEF notify_all, barriers, Crew, Members
    <2>2. /\ \A v \in Crew : wpc[v] \in PastLoading <=> wpc'[v] \in PastLoading
          /\ \A v \in Crew : wpc[v] \in Over <=> wpc'[v] \in Over
          /\ wpc[0] \in {"post", "terminated"} <=> wpc'[0] \in {"post", "terminated"}
      BY Zenon, <1>6, <1>ty, <1>k DEF notify_all, PastLoading, Waiting, Over, WorkerPc
    <2>3. /\ Among(Crew', wpc', PastLoading) = Among(Crew, wpc, PastLoading)
          /\ Among(Crew', wpc', Over) = Among(Crew, wpc, Over)
      BY <2>1, <2>2, AmongSame
    <2> QED
      BY Zenon, <2>1, <2>2, <2>3, <1>k DEF Counted, Started, Closed
  <1>7. CASE add_worker
    <2>1. /\ Members' = Members \cup {worker_counter} /\ Crew' = Crew
          /\ worker_counter \notin Members /\ worker_counter # 0 /\ cpc # "none"
          /\ pre_barrier' = pre_barrier /\ post_barrier' = post_barrier /\ started' = started
      <3>1. Members = pool /\ Members' = pool \cup {worker_counter} /\ worker_counter \notin Members \cup hot
        BY <1>7, <1>ty, <1>k DEF add_worker, Members, Known
      <3> QED
        BY <1>7, <3>1, <1>k, <1>ty DEF add_worker, barriers, Crew, Seating
    <2>2. \A v \in Ids : v # worker_counter => wpc'[v] = wpc[v]
      BY Zenon, <1>7, <1>ty DEF add_worker
    <2>3. /\ Among(Crew', wpc', PastLoading) = Among(Crew, wpc, PastLoading)
          /\ Among(Crew', wpc', Over) = Among(Crew, wpc, Over)
      <3>1. \A v \in Crew : wpc'[v] = wpc[v]
        BY Zenon, <2>1, <2>2, <1>k DEF Crew
      <3> QED
        BY <2>1, <3>1, AmongSame
    <2>4. Closed' = Closed /\ Started' = Started
      BY Zenon, <2>1, <2>2, <1>ty, <1>k DEF Closed, Started
    <2> QED
      BY Zenon, <2>1, <2>3, <2>4, <1>k DEF Counted
  <1>8. CASE add_worker_emplace
    <2>1. /\ Crew' = Crew /\ Members' = Members /\ (cpc' # "none" => cpc # "none") /\ wpc' = wpc
          /\ pre_barrier' = pre_barrier /\ post_barrier' = post_barrier /\ started' = started
      BY Zenon, <1>8, <1>ty, <1>k DEF add_worker_emplace, barriers, Crew, Members
    <2> QED
      BY Zenon, <2>1, <1>k DEF Counted, Started, Closed
  <1>9. CASE shutdown
    <2>1. /\ Crew' = Crew /\ Members' = Members /\ (cpc' # "none" => cpc # "none") /\ wpc' = wpc
          /\ pre_barrier' = pre_barrier /\ post_barrier' = post_barrier /\ started' = started
      BY Zenon, <1>9, <1>ty, <1>k DEF shutdown, barriers, Crew, Members
    <2> QED
      BY Zenon, <2>1, <1>k DEF Counted, Started, Closed
  <1>10. CASE join
    BY Zenon, <1>10 DEF join, Counted
  <1>11. CASE snapshot
    <2>1. /\ Crew' = Crew /\ Members' = Members /\ (cpc' # "none" => cpc # "none") /\ wpc' = wpc
          /\ pre_barrier' = pre_barrier /\ post_barrier' = post_barrier /\ started' = started
      BY Zenon, <1>11, <1>ty, <1>k DEF snapshot, PauseAll, barriers, Crew, Members
    <2> QED
      BY Zenon, <2>1, <1>k DEF Counted, Started, Closed
  <1>12. ASSUME NEW w \in Ids, remove_worker(w)
        PROVE  Counted'
    <2>1. /\ Crew' = Crew /\ Members' = Members /\ (cpc' # "none" => cpc # "none") /\ wpc' = wpc
          /\ pre_barrier' = pre_barrier /\ post_barrier' = post_barrier /\ started' = started
      BY Zenon, <1>12, <1>ty, <1>k DEF remove_worker, barriers, Crew, Members
    <2> QED
      BY Zenon, <2>1, <1>k DEF Counted, Started, Closed
  <1>13. ASSUME NEW w \in Ids, boot(w)
        PROVE  Counted'
    <2>1. /\ Crew' = Crew /\ Members' = Members /\ (cpc' # "none" => cpc # "none")
          /\ pre_barrier' = pre_barrier /\ post_barrier' = post_barrier /\ started' = started
      BY Zenon, <1>13, <1>ty, <1>k DEF boot, workerOnly, clientVars, barriers, Crew, Members
    <2>2. /\ \A v \in Crew : wpc[v] \in PastLoading <=> wpc'[v] \in PastLoading
          /\ \A v \in Crew : wpc[v] \in Over <=> wpc'[v] \in Over
          /\ wpc[0] \in {"post", "terminated"} <=> wpc'[0] \in {"post", "terminated"}
      BY Zenon, <1>13, <1>ty, <1>k DEF boot, workerOnly, clientVars, PastLoading, Waiting, Over, WorkerPc, Crew
    <2>3. /\ Among(Crew', wpc', PastLoading) = Among(Crew, wpc, PastLoading)
          /\ Among(Crew', wpc', Over) = Among(Crew, wpc, Over)
      BY <2>1, <2>2, AmongSame
    <2> QED
      BY Zenon, <2>1, <2>2, <2>3, <1>k DEF Counted, Started, Closed
  <1>14. ASSUME NEW w \in Ids, pre_run(w)
        PROVE  Counted'
    <2>1. /\ Crew' = Crew /\ Members' = Members /\ cpc' = cpc /\ w \in Crew
          /\ pre_barrier' = pre_barrier + 1 /\ post_barrier' = post_barrier /\ started' = started
      BY Zenon, <1>14, <1>ty, <1>k DEF pre_run, workerOnly, clientVars, barriers, Crew, Members, Known, Roles
    <2>2. /\ wpc[w] = "load" /\ wpc'[w] = "check" /\ \A v \in Ids : v # w => wpc'[v] = wpc[v]
      BY Zenon, <1>14, <1>ty DEF pre_run
    <2>3. Cardinality(Among(Crew', wpc', PastLoading)) = Cardinality(Among(Crew, wpc, PastLoading)) + 1
      <3>1. "load" \notin PastLoading /\ "check" \in PastLoading
        BY Zenon DEF PastLoading, Waiting, Over
      <3>2. \A v \in Crew : v # w => wpc'[v] = wpc[v]
        BY Zenon, <2>2, <1>k
      <3> QED
        BY <2>1, <2>2, <3>1, <3>2, <1>k, AmongMore
    <2>4. Among(Crew', wpc', Over) = Among(Crew, wpc, Over)
      <3>1. \A v \in Crew : wpc[v] \in Over <=> wpc'[v] \in Over
        BY Zenon, <2>2, <1>k DEF Over
      <3> QED
        BY Zenon, <2>1, <3>1, AmongSame
    <2>5. Closed' = Closed /\ Started' = Started
      BY Zenon, <2>1, <2>2, <1>ty DEF Closed, Started
    <2>6. Cardinality(Among(Crew, wpc, PastLoading)) \in Nat /\ Started \in Nat
      BY Zenon, <1>k, AmongBound DEF Started
    <2> QED
      BY <2>1, <2>3, <2>4, <2>5, <2>6, <1>k DEF Counted
  <1>15. ASSUME NEW w \in Ids, pre_wait(w)
        PROVE  Counted'
    <2>1. /\ Crew' = Crew /\ Members' = Members /\ (cpc' # "none" => cpc # "none")
          /\ pre_barrier' = pre_barrier /\ post_barrier' = post_barrier /\ started' = started
      BY Zenon, <1>15, <1>ty, <1>k DEF pre_wait, workerOnly, clientVars, barriers, Crew, Members
    <2>2. /\ \A v \in Crew : wpc[v] \in PastLoading <=> wpc'[v] \in PastLoading
          /\ \A v \in Crew : wpc[v] \in Over <=> wpc'[v] \in Over
          /\ wpc[0] \in {"post", "terminated"} <=> wpc'[0] \in {"post", "terminated"}
      BY Zenon, <1>15, <1>ty, <1>k DEF pre_wait, workerOnly, clientVars, PastLoading, Waiting, Over, WorkerPc
    <2>3. /\ Among(Crew', wpc', PastLoading) = Among(Crew, wpc, PastLoading)
          /\ Among(Crew', wpc', Over) = Among(Crew, wpc, Over)
      BY Zenon, <2>1, <2>2, AmongSame
    <2> QED
      BY Zenon, <2>1, <2>2, <2>3, <1>k DEF Counted, Started, Closed
  <1>16. ASSUME NEW w \in Ids, spurious_wakeup(w)
        PROVE  Counted'
    <2>1. /\ Crew' = Crew /\ Members' = Members /\ (cpc' # "none" => cpc # "none")
          /\ pre_barrier' = pre_barrier /\ post_barrier' = post_barrier /\ started' = started
      BY Zenon, <1>16, <1>ty, <1>k DEF spurious_wakeup, workerOnly, clientVars, barriers, Crew, Members
    <2>2. /\ \A v \in Crew : wpc[v] \in PastLoading <=> wpc'[v] \in PastLoading
          /\ \A v \in Crew : wpc[v] \in Over <=> wpc'[v] \in Over
          /\ wpc[0] \in {"post", "terminated"} <=> wpc'[0] \in {"post", "terminated"}
      BY Zenon, <1>16, <1>ty, <1>k DEF spurious_wakeup, workerOnly, clientVars, PastLoading, Waiting, Over, WorkerPc
    <2>3. /\ Among(Crew', wpc', PastLoading) = Among(Crew, wpc, PastLoading)
          /\ Among(Crew', wpc', Over) = Among(Crew, wpc, Over)
      BY Zenon, <2>1, <2>2, AmongSame
    <2> QED
      BY Zenon, <2>1, <2>2, <2>3, <1>k DEF Counted, Started, Closed
  <1>17. ASSUME NEW w \in Ids, Running(w), Leave(w)
        PROVE  Counted'
    <2>1. /\ Crew' = Crew /\ Members' = Members /\ cpc' = cpc /\ hot' = hot
          /\ pre_barrier' = pre_barrier /\ started' = started
      BY Zenon, <1>17, <1>ty, <1>k DEF Leave, Running, workerOnly, clientVars, barriers, Crew, Members
    <2>2. wpc[w] = "run" /\ \A v \in Ids : v # w => wpc'[v] = wpc[v]
      BY Zenon, <1>17, <1>ty DEF Leave, Running
    <2>3. wpc'[w] \in PastLoading /\ wpc'[w] \in Over /\ "run" \in PastLoading /\ "run" \notin Over
      BY Zenon, <1>17, <1>ty DEF Leave, PastLoading, Over
    <2>4. Among(Crew', wpc', PastLoading) = Among(Crew, wpc, PastLoading)
      <3>1. \A v \in Crew : wpc[v] \in PastLoading <=> wpc'[v] \in PastLoading
        BY Zenon, <2>2, <2>3, <1>k
      <3> QED
        BY Zenon, <2>1, <3>1, AmongSame
    <2>5. Closed' = Closed /\ Started' = Started
      BY Zenon, <1>17, <2>1, <2>2, <1>ty, <1>k DEF Closed, Started, Leave, Seating
    <2>6. CASE w \in hot
      <3>1. \A v \in Crew : wpc[v] \in Over <=> wpc'[v] \in Over
        BY Zenon, <2>2, <2>6, <1>k DEF Crew
      <3>2. Among(Crew', wpc', Over) = Among(Crew, wpc, Over)
        BY Zenon, <2>1, <3>1, AmongSame
      <3>3. post_barrier' = post_barrier
        BY Zenon, <1>17, <2>6 DEF Leave
      <3> QED
        BY Zenon, <2>1, <2>4, <2>5, <3>2, <3>3, <1>k DEF Counted
    <2>7. CASE w \notin hot
      <3>1. w \in Crew
        BY Zenon, <2>2, <2>7, <1>k DEF Crew, Known
      <3>2. Cardinality(Among(Crew', wpc', Over)) = Cardinality(Among(Crew, wpc, Over)) + 1
        <4>1. \A v \in Crew : v # w => wpc'[v] = wpc[v]
          BY Zenon, <2>2, <1>k
        <4> QED
          BY <2>1, <2>2, <2>3, <3>1, <4>1, <1>k, AmongMore
      <3>3. post_barrier' = post_barrier + 1
        BY Zenon, <1>17, <2>7 DEF Leave
      <3>4. Cardinality(Among(Crew, wpc, Over)) \in Nat /\ Closed \in Nat
        BY Zenon, <1>k, AmongBound DEF Closed
      <3> QED
        BY <2>1, <2>4, <2>5, <3>2, <3>3, <3>4, <1>k DEF Counted
    <2> QED
      BY Zenon, <2>6, <2>7
  <1>18. ASSUME NEW w \in Ids, pause_assert(w)
        PROVE  Counted'
    <2>1. /\ Crew' = Crew /\ Members' = Members /\ (cpc' # "none" => cpc # "none") /\ wpc' = wpc
          /\ pre_barrier' = pre_barrier /\ post_barrier' = post_barrier /\ started' = started
      BY Zenon, <1>18, <1>ty, <1>k DEF pause_assert, workerOnly, clientVars, barriers, Crew, Members
    <2> QED
      BY Zenon, <2>1, <1>k DEF Counted, Started, Closed
  <1>19. ASSUME NEW w \in Ids, post_snapshot(w)
        PROVE  Counted'
    <2>1. /\ Crew' = Crew /\ Members' = Members /\ (cpc' # "none" => cpc # "none")
          /\ pre_barrier' = pre_barrier /\ post_barrier' = post_barrier /\ started' = started
      BY Zenon, <1>19, <1>ty, <1>k DEF post_snapshot, PauseAll, workerOnly, clientVars, barriers, Crew, Members, Roles
    <2>2. /\ \A v \in Crew : wpc[v] \in PastLoading <=> wpc'[v] \in PastLoading
          /\ \A v \in Crew : wpc[v] \in Over <=> wpc'[v] \in Over
          /\ wpc[0] \in {"post", "terminated"} <=> wpc'[0] \in {"post", "terminated"}
      BY Zenon, <1>19, <1>ty, <1>k DEF post_snapshot, PauseAll, workerOnly, clientVars, PastLoading, Waiting, Over, WorkerPc, Roles
    <2>3. /\ Among(Crew', wpc', PastLoading) = Among(Crew, wpc, PastLoading)
          /\ Among(Crew', wpc', Over) = Among(Crew, wpc, Over)
      BY Zenon, <2>1, <2>2, AmongSame
    <2> QED
      BY Zenon, <2>1, <2>2, <2>3, <1>k DEF Counted, Started, Closed
  <1>20. ASSUME NEW w \in Ids, post_run(w)
        PROVE  Counted'
    <2>1. /\ Crew' = Crew /\ Members' = Members /\ (cpc' # "none" => cpc # "none")
          /\ pre_barrier' = pre_barrier /\ post_barrier' = post_barrier /\ started' = started
      BY Zenon, <1>20, <1>ty, <1>k DEF post_run, workerOnly, clientVars, barriers, Crew, Members
    <2>2. /\ \A v \in Crew : wpc[v] \in PastLoading <=> wpc'[v] \in PastLoading
          /\ \A v \in Crew : wpc[v] \in Over <=> wpc'[v] \in Over
          /\ wpc[0] \in {"post", "terminated"} <=> wpc'[0] \in {"post", "terminated"}
      BY Zenon, <1>20, <1>ty, <1>k DEF post_run, workerOnly, clientVars, PastLoading, Waiting, Over, WorkerPc
    <2>3. /\ Among(Crew', wpc', PastLoading) = Among(Crew, wpc, PastLoading)
          /\ Among(Crew', wpc', Over) = Among(Crew, wpc, Over)
      BY Zenon, <2>1, <2>2, AmongSame
    <2> QED
      BY Zenon, <2>1, <2>2, <2>3, <1>k DEF Counted, Started, Closed
  <1>21. ASSUME NEW a \in Callers, NEW w \in Ids, pause_next(a, w)
        PROVE  Counted'
    <2>1. /\ Crew' = Crew /\ Members' = Members /\ (cpc' # "none" => cpc # "none") /\ wpc' = wpc
          /\ pre_barrier' = pre_barrier /\ post_barrier' = post_barrier /\ started' = started
      BY Zenon, <1>21, <1>ty, <1>k DEF pause_next, workerOnly, clientVars, barriers, Crew, Members
    <2> QED
      BY Zenon, <2>1, <1>k DEF Counted, Started, Closed
  <1>22. ASSUME NEW a \in Callers, NEW w \in Ids, pause_forever(a, w)
        PROVE  Counted'
    <2>1. /\ Crew' = Crew /\ Members' = Members /\ (cpc' # "none" => cpc # "none")
          /\ pre_barrier' = pre_barrier /\ post_barrier' = post_barrier /\ started' = started
      BY Zenon, <1>22, <1>ty, <1>k DEF pause_forever, Callers, Client, Worker0, barriers, Crew, Members, Roles
    <2>2. /\ \A v \in Crew : wpc[v] \in PastLoading <=> wpc'[v] \in PastLoading
          /\ \A v \in Crew : wpc[v] \in Over <=> wpc'[v] \in Over
          /\ wpc[0] \in {"post", "terminated"} <=> wpc'[0] \in {"post", "terminated"}
      BY Zenon, <1>22, <1>ty, <1>k DEF pause_forever, Callers, Client, Worker0, PastLoading, Waiting, Over, WorkerPc, Roles
    <2>3. /\ Among(Crew', wpc', PastLoading) = Among(Crew, wpc, PastLoading)
          /\ Among(Crew', wpc', Over) = Among(Crew, wpc, Over)
      BY <2>1, <2>2, AmongSame
    <2> QED
      BY Zenon, <2>1, <2>2, <2>3, <1>k DEF Counted, Started, Closed
  <1>23. ASSUME NEW a \in Callers, resume(a)
        PROVE  Counted'
    <2>1. /\ Crew' = Crew /\ Members' = Members /\ (cpc' # "none" => cpc # "none")
          /\ pre_barrier' = pre_barrier /\ started' = started
      BY Zenon, <1>23, <1>ty, <1>k DEF resume, Callers, Client, Worker0, barriers, Crew, Members, Roles
    <2>2. CASE a = Client
      <3>1. wpc' = wpc /\ post_barrier' = post_barrier
        BY Zenon, <1>23, <2>2 DEF resume
      <3> QED
        BY Zenon, <2>1, <3>1, <1>k DEF Counted, Started, Closed
    <2>3. CASE a # Client
      <3>1. /\ wpc[0] = "snapshot" /\ wpc'[0] = "post" /\ \A v \in Ids : v # 0 => wpc'[v] = wpc[v]
            /\ post_barrier' = post_barrier + 1
        BY Zenon, <1>23, <2>3, <1>ty, <1>k DEF resume, Callers, Client, Worker0, Roles
      <3>2. 0 \in Members
        BY Zenon, <3>1, <1>ty, <1>k DEF Known
      <3>3. Closed = 0 /\ Closed' = 1 /\ Started' = Started
        BY Zenon, <2>1, <3>1, <3>2 DEF Closed, Started
      <3>4. /\ \A v \in Crew : wpc[v] \in PastLoading <=> wpc'[v] \in PastLoading
            /\ \A v \in Crew : wpc[v] \in Over <=> wpc'[v] \in Over
        BY Zenon, <3>1, <1>k DEF PastLoading, Over
      <3>5. /\ Among(Crew', wpc', PastLoading) = Among(Crew, wpc, PastLoading)
            /\ Among(Crew', wpc', Over) = Among(Crew, wpc, Over)
        BY <2>1, <3>4, AmongSame
      <3>6. Cardinality(Among(Crew, wpc, Over)) \in Nat
        BY Zenon, <1>k, AmongBound
      <3> QED
        BY <2>1, <3>1, <3>3, <3>5, <3>6, <1>k DEF Counted
    <2> QED
      BY Zenon, <2>2, <2>3
  <1>24. CASE UNCHANGED vars
    <2>1. /\ Crew' = Crew /\ Members' = Members /\ (cpc' # "none" => cpc # "none") /\ wpc' = wpc
          /\ pre_barrier' = pre_barrier /\ post_barrier' = post_barrier /\ started' = started
      BY Zenon, <1>24, <1>ty, <1>k DEF vars, barriers, Crew, Members
    <2> QED
      BY Zenon, <2>1, <1>k DEF Counted, Started, Closed
  <1> QED
    BY Zenon, <1>1, <1>2, <1>3, <1>4, <1>5, <1>6, <1>7, <1>8, <1>9, <1>10, <1>11, <1>12,
       <1>13, <1>14, <1>15, <1>16, <1>17, <1>18, <1>19, <1>20, <1>21, <1>22, <1>23, <1>24
       DEF Next, worker, snapshotting, client, loop_end, iterations_end

(* Every step keeps the client's view of the pool. *)
LEMMA SeatingStep ==
  ASSUME LifeInv, [Next]_vars
  PROVE  Seating'
PROOF
  <1>ty. /\ cpc \in {"none", "create", "emplace", "ready", "notify", "plug", "snapshot", "stuck", "join"}
         /\ worker_counter \in Nat /\ pool \subseteq Ids /\ hot \subseteq Ids /\ Ids \subseteq Nat
         /\ wpc \in [Ids -> WorkerPc] /\ 0 \in Ids
    BY IdsFacts DEF LifeInv, TypeOK
  <1>k. Known /\ Seating /\ Roles
    BY Zenon DEF LifeInv
  <1>1. CASE init
    BY Zenon, <1>1, <1>ty, <1>k DEF init, Seating, Creating
  <1>2. CASE create_thread
    <2>1. worker_counter' - 1 = worker_counter /\ worker_counter \notin hot \cup pool
      BY <1>2, <1>ty, <1>k DEF create_thread, Known, Members
    <2> QED
      BY Zenon, <1>2, <2>1, <1>k DEF create_thread, Seating, Creating
  <1>3. CASE emplace_worker
    BY Zenon, <1>3, <1>ty, <1>k DEF emplace_worker, Seating, Creating
  <1>4. CASE init_returns
    <2>1. pool # {}
      BY Zenon, <1>4, FS_EmptySet, WorkerPoolAssumption DEF init_returns
    <2>2. worker_counter >= 1
      <3>1. PICK v \in pool : v \in Members
        BY Zenon, <2>1 DEF Members
      <3> QED
        BY <3>1, <1>ty, <1>k DEF Known
    <2> QED
      BY Zenon, <1>4, <2>2, <1>k DEF init_returns, Seating, Creating
  <1>5. CASE start_workers
    BY Zenon, <1>5, <1>ty, <1>k DEF start_workers, Seating, Creating
  <1>6. CASE notify_all
    BY Zenon, <1>6, <1>ty, <1>k DEF notify_all, Seating, Creating
  <1>7. CASE add_worker
    <2>1. /\ worker_counter' - 1 = worker_counter /\ worker_counter \notin hot \cup pool
          /\ worker_counter >= 1 /\ worker_counter' >= 1
      BY <1>7, <1>ty, <1>k DEF add_worker, Known, Members, Seating
    <2> QED
      BY <1>7, <2>1, <1>k DEF add_worker, Seating, Creating
  <1>8. CASE add_worker_emplace
    BY Zenon, <1>8, <1>ty, <1>k DEF add_worker_emplace, Seating, Creating
  <1>9. CASE shutdown
    BY Zenon, <1>9, <1>ty, <1>k DEF shutdown, Seating, Creating
  <1>10. CASE join
    BY Zenon, <1>10, <1>ty, <1>k DEF join, Seating, Creating
  <1>11. CASE snapshot
    BY Zenon, <1>11, <1>ty, <1>k DEF snapshot, PauseAll, Seating, Creating
  <1>12. ASSUME NEW w \in Ids, remove_worker(w)
        PROVE  Seating'
    BY Zenon, <1>12, <1>ty, <1>k DEF remove_worker, Seating, Creating
  <1>13. ASSUME NEW w \in Ids, boot(w)
        PROVE  Seating'
    BY Zenon, <1>13, <1>ty, <1>k DEF boot, workerOnly, clientVars, Seating, Creating
  <1>14. ASSUME NEW w \in Ids, pre_run(w)
        PROVE  Seating'
    BY Zenon, <1>14, <1>ty, <1>k DEF pre_run, workerOnly, clientVars, Seating, Creating
  <1>15. ASSUME NEW w \in Ids, pre_wait(w)
        PROVE  Seating'
    BY Zenon, <1>15, <1>ty, <1>k DEF pre_wait, workerOnly, clientVars, Seating, Creating
  <1>16. ASSUME NEW w \in Ids, spurious_wakeup(w)
        PROVE  Seating'
    BY Zenon, <1>16, <1>ty, <1>k DEF spurious_wakeup, workerOnly, clientVars, Seating, Creating
  <1>17. ASSUME NEW w \in Ids, Running(w), Leave(w)
        PROVE  Seating'
    BY Zenon, <1>17, <1>ty, <1>k DEF Leave, Running, workerOnly, clientVars, Seating, Creating
  <1>18. ASSUME NEW w \in Ids, pause_assert(w)
        PROVE  Seating'
    BY Zenon, <1>18, <1>ty, <1>k DEF pause_assert, workerOnly, clientVars, Seating, Creating
  <1>19. ASSUME NEW w \in Ids, post_snapshot(w)
        PROVE  Seating'
    BY Zenon, <1>19, <1>ty, <1>k DEF post_snapshot, PauseAll, workerOnly, clientVars, Seating, Creating
  <1>20. ASSUME NEW w \in Ids, post_run(w)
        PROVE  Seating'
    BY Zenon, <1>20, <1>ty, <1>k DEF post_run, workerOnly, clientVars, Seating, Creating
  <1>21. ASSUME NEW a \in Callers, NEW w \in Ids, pause_next(a, w)
        PROVE  Seating'
    BY Zenon, <1>21, <1>ty, <1>k DEF pause_next, workerOnly, clientVars, Seating, Creating
  <1>22. ASSUME NEW a \in Callers, NEW w \in Ids, pause_forever(a, w)
        PROVE  Seating'
    BY Zenon, <1>22, <1>ty, <1>k DEF pause_forever, Callers, Client, Worker0, Seating, Creating, Roles
  <1>23. ASSUME NEW a \in Callers, resume(a)
        PROVE  Seating'
    BY Zenon, <1>23, <1>ty, <1>k DEF resume, Callers, Client, Worker0, Seating, Creating, Roles
  <1>24. CASE UNCHANGED vars
    BY Zenon, <1>24, <1>ty, <1>k DEF vars, Seating, Creating
  <1> QED
    BY Zenon, <1>1, <1>2, <1>3, <1>4, <1>5, <1>6, <1>7, <1>8, <1>9, <1>10, <1>11, <1>12,
       <1>13, <1>14, <1>15, <1>16, <1>17, <1>18, <1>19, <1>20, <1>21, <1>22, <1>23, <1>24
       DEF Next, worker, snapshotting, client, loop_end, iterations_end

(* Every step keeps the roles of the client, of worker 0 and of the others. *)
LEMMA RolesStep ==
  ASSUME LifeInv, [Next]_vars
  PROVE  Roles'
PROOF
  <1>ty. /\ cpc \in {"none", "create", "emplace", "ready", "notify", "plug", "snapshot", "stuck", "join"}
         /\ worker_counter \in Nat /\ pool \subseteq Ids /\ hot \subseteq Ids /\ Ids \subseteq Nat
         /\ wpc \in [Ids -> WorkerPc] /\ 0 \in Ids
    BY IdsFacts DEF LifeInv, TypeOK
  <1>t. /\ terminate \in [Ids -> BOOLEAN] /\ pause \in [Ids -> BOOLEAN]
        /\ pausing \subseteq Callers /\ left \in [Callers -> SUBSET Ids]
    BY Zenon DEF LifeInv, TypeOK
  <1>k. Known /\ Seating /\ Roles /\ Members \subseteq Ids
    BY GivenOut DEF LifeInv
  <1>1. CASE init
    BY Zenon, <1>1, <1>ty, <1>t, <1>k DEF init, flags, snap, Roles, Crew, Members, Waiting, Callers, Client, Worker0
  <1>2. CASE create_thread
    <2>1. worker_counter \in Ids
      BY Zenon, <1>2, NewId DEF create_thread
    <2>2. /\ Members' = Members \cup {worker_counter} /\ pool' = pool /\ worker_counter \notin hot
          /\ wpc[worker_counter] = "none" /\ ~terminate[worker_counter] /\ worker_counter' >= worker_counter
      BY <1>2, <2>1, <1>ty, <1>k DEF create_thread, Members, Known, Roles
    <2>3. /\ \A v \in Ids : wpc'[v] = IF v = worker_counter THEN "boot" ELSE wpc[v]
          /\ UNCHANGED <<terminate, pause, pausing, left, hot>>
          /\ cpc = "create" /\ cpc' = "emplace" /\ worker_counter' = worker_counter + 1
      BY Zenon, <1>2, <2>1, <1>ty DEF create_thread, flags, snap
    <2>4. \A v \in Crew' : ~terminate'[v]
      BY Zenon, <2>2, <2>3, <1>k DEF Roles, Crew
    <2>5. /\ (wpc'[0] = "snapshot" <=> wpc[0] = "snapshot") /\ (wpc'[0] = "stuck" <=> wpc[0] = "stuck")
          /\ \A v \in Ids : wpc'[v] \in {"wait", "snapshot", "stuck"} => v = 0
          /\ \A v \in Ids : wpc'[v] \in Waiting \cup {"load"} => v \notin hot'
      BY Zenon, <2>2, <2>3, <1>ty, <1>k DEF Roles, Waiting
    <2>6. \A v \in Ids : v >= worker_counter' => ~terminate'[v] /\ ~pause'[v]
      BY <2>3, <1>ty, <1>k DEF Roles
    <2> QED
      BY Zenon, <2>2, <2>3, <2>4, <2>5, <2>6, <1>k DEF Roles
  <1>3. CASE emplace_worker
    BY Zenon, <1>3, <1>ty, <1>t, <1>k DEF emplace_worker, flags, snap, Roles, Crew, Members, Waiting, Callers, Client, Worker0
  <1>4. CASE init_returns
    BY Zenon, <1>4, <1>ty, <1>t, <1>k DEF init_returns, flags, snap, Roles, Crew, Members, Waiting, Callers, Client, Worker0
  <1>5. CASE start_workers
    BY Zenon, <1>5, <1>ty, <1>t, <1>k DEF start_workers, flags, snap, Roles, Crew, Members, Waiting, Callers, Client, Worker0
  <1>6. CASE notify_all
    BY Zenon, <1>6, <1>ty, <1>t, <1>k DEF notify_all, flags, snap, Roles, Crew, Members, Waiting, Callers, Client, Worker0
  <1>7. CASE add_worker
    <2>1. worker_counter \in Ids
      BY Zenon, <1>7, NewId DEF add_worker
    <2>2. /\ Crew' = Crew /\ pool' = pool /\ wpc[worker_counter] = "none"
          /\ worker_counter' >= worker_counter
      BY <1>7, <2>1, <1>ty, <1>k DEF add_worker, Crew, Members, Known
    <2>3. /\ \A v \in Ids : wpc'[v] = IF v = worker_counter THEN "boot" ELSE wpc[v]
          /\ UNCHANGED <<terminate, pause, pausing, left>> /\ hot' = hot \cup {worker_counter}
          /\ cpc = "ready" /\ cpc' = "plug" /\ worker_counter' = worker_counter + 1
      BY Zenon, <1>7, <2>1, <1>ty DEF add_worker, flags, snap
    <2>4. \A v \in Crew' : ~terminate'[v]
      BY Zenon, <2>2, <2>3, <1>k DEF Roles
    <2>5. /\ (wpc'[0] = "snapshot" <=> wpc[0] = "snapshot") /\ (wpc'[0] = "stuck" <=> wpc[0] = "stuck")
          /\ \A v \in Ids : wpc'[v] \in {"wait", "snapshot", "stuck"} => v = 0
          /\ \A v \in Ids : wpc'[v] \in Waiting \cup {"load"} => v \notin hot'
      BY Zenon, <2>2, <2>3, <1>ty, <1>k DEF Roles, Waiting
    <2>6. \A v \in Ids : v >= worker_counter' => ~terminate'[v] /\ ~pause'[v]
      BY <2>3, <1>ty, <1>k DEF Roles
    <2> QED
      BY Zenon, <2>2, <2>3, <2>4, <2>5, <2>6, <1>k DEF Roles
  <1>8. CASE add_worker_emplace
    BY Zenon, <1>8, <1>ty, <1>t, <1>k DEF add_worker_emplace, flags, snap, Roles, Crew, Members, Waiting, Callers, Client, Worker0
  <1>9. CASE shutdown
    <2>1. \A v \in Ids : v >= worker_counter => v \notin pool
      BY <1>ty, <1>k DEF Known, Members
    <2>2. \A v \in Ids : v >= worker_counter => ~terminate'[v]
      BY Zenon, <1>9, <2>1, <1>ty, <1>t, <1>k DEF shutdown, Roles
    <2> QED
      BY Zenon, <1>9, <2>2, <1>ty, <1>t, <1>k DEF shutdown, flags, snap, Roles, Callers, Client, Worker0
  <1>10. CASE join
    <2>1. \A v \in Ids : wpc[v] \in {"none", "terminated"}
      BY Zenon, <1>10, <1>ty, <1>k DEF join, Known, Members
    <2>2. pausing = {} /\ (\A v \in Ids : ~pause[v]) /\ (\A a \in Callers : left[a] = {})
      <3>1. cpc = "join" /\ wpc[0] \in {"none", "terminated"}
        BY Zenon, <1>10, <2>1, <1>ty DEF join
      <3>2. Client \notin pausing /\ Worker0 \notin pausing
        BY Zenon, <3>1, <1>k DEF Roles
      <3>3. pausing = {}
        BY Zenon, <3>2, <1>t DEF Callers
      <3> QED
        BY Zenon, <3>1, <3>3, <1>k DEF Roles
    <2>3. Members' = {} /\ Crew' = {}
      BY Zenon, <1>10 DEF join, Members, Crew
    <2> QED
      BY Zenon, <1>10, <2>1, <2>2, <2>3, <1>ty, <1>t, <1>k DEF join, flags, snap, Roles, Waiting, Callers, Client, Worker0
  <1>11. CASE snapshot
    <2>1. Members' = Members /\ Crew' = Crew /\ \A v \in Ids : v >= worker_counter => v \notin pool
      BY <1>11, <1>ty, <1>k DEF snapshot, Members, Crew, Known
    <2>2. \A v \in Ids : pause'[v] <=> pause[v] \/ v \in pool
      BY Zenon, <1>11, <1>t DEF snapshot, PauseAll
    <2>3. /\ pausing' = pausing \cup {Client} /\ left'[Client] = pool /\ left'[Worker0] = left[Worker0]
          /\ UNCHANGED <<worker_counter, pool, wpc, terminate, hot>> /\ cpc = "ready" /\ cpc' = "snapshot"
      BY Zenon, <1>11, <1>t DEF snapshot, PauseAll, Callers, Client, Worker0
    <2> QED
      BY Zenon, <2>1, <2>2, <2>3, <1>ty, <1>t, <1>k DEF Roles, Callers, Client, Worker0
  <1>12. ASSUME NEW w \in Ids, remove_worker(w)
        PROVE  Roles'
    <2>1. w < worker_counter
      BY <1>12, <1>ty, <1>k DEF remove_worker, Known
    <2>2. \A v \in Ids : terminate'[v] => terminate[v] \/ v = w
      BY Zenon, <1>12, <1>t DEF remove_worker
    <2>3. Members' = Members /\ Crew' = Crew /\ w \notin Crew /\ UNCHANGED <<cpc, worker_counter, pool, wpc, pause, pausing, left, hot>>
      BY Zenon, <1>12 DEF remove_worker, Members, Crew, snap
    <2> QED
      <3>1. \A v \in Ids : v >= worker_counter => ~terminate'[v] /\ ~pause[v]
        BY <2>1, <2>2, <1>ty, <1>k DEF Roles
      <3>2. cpc # "join" => \A v \in Crew : ~terminate'[v]
        BY Zenon, <2>2, <2>3, <1>k DEF Roles, Crew
      <3> QED
        BY Zenon, <2>3, <3>1, <3>2, <1>k DEF Roles
  <1>13. ASSUME NEW w \in Ids, boot(w)
        PROVE  Roles'
    BY Zenon, <1>13, <1>ty, <1>t, <1>k DEF boot, workerOnly, clientVars, flags, snap, Roles, Crew, Members, Waiting, Callers, Client, Worker0
  <1>14. ASSUME NEW w \in Ids, pre_run(w)
        PROVE  Roles'
    BY Zenon, <1>14, <1>ty, <1>t, <1>k DEF pre_run, workerOnly, clientVars, flags, snap, Roles, Crew, Members, Waiting, Callers, Client, Worker0
  <1>15. ASSUME NEW w \in Ids, pre_wait(w)
        PROVE  Roles'
    BY Zenon, <1>15, <1>ty, <1>t, <1>k DEF pre_wait, workerOnly, clientVars, flags, snap, Roles, Crew, Members, Waiting, Callers, Client, Worker0
  <1>16. ASSUME NEW w \in Ids, spurious_wakeup(w)
        PROVE  Roles'
    BY Zenon, <1>16, <1>ty, <1>t, <1>k DEF spurious_wakeup, workerOnly, clientVars, flags, snap, Roles, Crew, Members, Waiting, Callers, Client, Worker0
  <1>17. ASSUME NEW w \in Ids, Running(w), Leave(w)
        PROVE  Roles'
    BY Zenon, <1>17, <1>ty, <1>t, <1>k DEF Leave, Running, workerOnly, clientVars, flags, snap, Roles, Crew, Members, Waiting, Callers, Client, Worker0
  <1>18. ASSUME NEW w \in Ids, pause_assert(w)
        PROVE  Roles'
    BY Zenon, <1>18, <1>ty, <1>t, <1>k DEF pause_assert, workerOnly, clientVars, flags, snap, Roles, Crew, Members, Waiting, Callers, Client, Worker0
  <1>19. ASSUME NEW w \in Ids, post_snapshot(w)
        PROVE  Roles'
    <2>1. Members' = Members /\ Crew' = Crew /\ \A v \in Ids : v >= worker_counter => v \notin pool
      BY <1>19, <1>ty, <1>k DEF post_snapshot, clientVars, Members, Crew, Known
    <2>2. \A v \in Ids : pause'[v] <=> pause[v] \/ v \in pool
      BY Zenon, <1>19, <1>t DEF post_snapshot, PauseAll
    <2>3. /\ pausing' = pausing \cup {Worker0} /\ left'[Worker0] = pool /\ left'[Client] = left[Client]
          /\ UNCHANGED <<cpc, worker_counter, pool, terminate, hot>>
          /\ w = 0 /\ wpc[0] = "wait" /\ wpc' = [wpc EXCEPT ![0] = "snapshot"]
      BY Zenon, <1>19, <1>ty, <1>t, <1>k DEF post_snapshot, PauseAll, clientVars, Callers, Client, Worker0, Roles
    <2> QED
      <3>1. \A v \in Ids : v # 0 => wpc'[v] = wpc[v]
        BY Zenon, <2>3, <1>ty
      <3>2. wpc'[0] = "snapshot" /\ Worker0 \in pausing' /\ (Client \in pausing' <=> cpc = "snapshot")
        BY Zenon, <2>3, <1>ty, <1>k DEF Roles, Client, Worker0
      <3>3. \A a \in Callers : left'[a] \subseteq pool /\ (a \notin pausing' => left'[a] = {})
        BY Zenon, <2>3, <1>k DEF Roles, Callers
      <3>4. /\ \A v \in Ids : wpc'[v] \in {"wait", "snapshot", "stuck"} => v = 0
            /\ \A v \in Ids : wpc'[v] \in Waiting \cup {"load"} => v \notin hot
        BY Zenon, <2>3, <3>1, <3>2, <1>k DEF Roles, Waiting
      <3>5. \A v \in Ids : v >= worker_counter => ~pause'[v]
        BY Zenon, <2>1, <2>2, <1>k DEF Roles
      <3>6. \A v \in Ids : pause'[v] => v \in pool
        BY Zenon, <2>2, <1>k DEF Roles
      <3> QED
        BY Zenon, <2>1, <2>3, <3>2, <3>3, <3>4, <3>5, <3>6, <1>k DEF Roles
  <1>20. ASSUME NEW w \in Ids, post_run(w)
        PROVE  Roles'
    BY Zenon, <1>20, <1>ty, <1>t, <1>k DEF post_run, workerOnly, clientVars, flags, snap, Roles, Crew, Members, Waiting, Callers, Client, Worker0
  <1>21. ASSUME NEW a \in Callers, NEW w \in Ids, pause_next(a, w)
        PROVE  Roles'
    BY Zenon, <1>21, <1>ty, <1>t, <1>k DEF pause_next, workerOnly, clientVars, flags, snap, Roles, Crew, Members, Waiting, Callers, Client, Worker0
  <1>22. ASSUME NEW a \in Callers, NEW w \in Ids, pause_forever(a, w)
        PROVE  Roles'
    <2>1. /\ UNCHANGED <<worker_counter, pool, hot, terminate, pause>>
          /\ a \in pausing /\ pausing' = pausing \ {a} /\ left' = [left EXCEPT ![a] = {}]
          /\ \/ a = Client /\ cpc' = "stuck" /\ wpc' = wpc
             \/ a = Worker0 /\ cpc' = cpc /\ wpc' = [wpc EXCEPT ![0] = "stuck"]
      BY Zenon, <1>22 DEF pause_forever, flags, Callers
    <2>2. 0 \in Ids /\ Client # Worker0 /\ a \in {Client, Worker0}
      <3>1. Client # Worker0
        BY Zenon DEF Client, Worker0
      <3> QED
        BY Zenon, <3>1, <1>22, <1>ty DEF Callers
    <2>3. /\ a = Client => cpc = "snapshot" /\ wpc' = wpc /\ cpc' = "stuck"
          /\ a = Worker0 => /\ wpc[0] = "snapshot" /\ cpc' = cpc /\ wpc'[0] = "stuck"
                           /\ \A v \in Ids : v # 0 => wpc'[v] = wpc[v]
      BY Zenon, <2>1, <2>2, <1>ty, <1>k DEF Roles
    <2>4. Crew' = Crew
      BY Zenon, <2>1, <2>2, <2>3 DEF Crew, Members
    <2>5. (cpc # "join" => \A v \in Crew : ~terminate[v])'
      BY Zenon, <2>1, <2>2, <2>3, <2>4, <1>k DEF Roles
    <2>6. (Client \in pausing <=> cpc = "snapshot")' /\ (Worker0 \in pausing <=> wpc[0] = "snapshot")'
      BY Zenon, <2>1, <2>2, <2>3, <1>k DEF Roles
    <2>7. (\A b \in Callers : left[b] \subseteq pool /\ (b \notin pausing => left[b] = {}))'
      BY Zenon, <2>1, <1>t, <1>k DEF Roles
    <2>8. /\ (\A v \in Ids : wpc[v] \in {"wait", "snapshot", "stuck"} => v = 0)'
          /\ (\A v \in Ids : wpc[v] \in Waiting \cup {"load"} => v \notin hot)'
      BY Zenon, <2>1, <2>2, <2>3, <1>k DEF Roles, Waiting
    <2>9. (\A v \in Ids : pause[v] => v \in pool /\ (pausing # {} \/ cpc = "stuck" \/ wpc[0] = "stuck"))'
      BY Zenon, <2>1, <2>2, <2>3, <1>k DEF Roles
    <2>10. (\A v \in Ids : v >= worker_counter => ~terminate[v] /\ ~pause[v])'
      BY Zenon, <2>1, <1>k DEF Roles
    <2> QED
      BY Zenon, <2>5, <2>6, <2>7, <2>8, <2>9, <2>10 DEF Roles
  <1>23. ASSUME NEW a \in Callers, resume(a)
        PROVE  Roles'
    BY Zenon, <1>23, <1>ty, <1>t, <1>k DEF resume, Callers, Client, Worker0, flags, snap, Roles, Crew, Members, Waiting, Callers, Client, Worker0
  <1>24. CASE UNCHANGED vars
    BY Zenon, <1>24, <1>ty, <1>t, <1>k DEF vars, flags, snap, Roles, Crew, Members, Waiting, Callers, Client, Worker0
  <1> QED
    BY Zenon, <1>1, <1>2, <1>3, <1>4, <1>5, <1>6, <1>7, <1>8, <1>9, <1>10, <1>11, <1>12,
       <1>13, <1>14, <1>15, <1>16, <1>17, <1>18, <1>19, <1>20, <1>21, <1>22, <1>23, <1>24
       DEF Next, worker, snapshotting, client, loop_end, iterations_end

(* The count that opens the first barrier is reached by start_workers() only,
   unless a worker was counted before it was in the pool. *)
LEMMA StartOpens ==
  ASSUME LifeInv, cpc # "none", ~early \/ cpc # "emplace", pre_barrier = Cardinality(pool) + 1
  PROVE  started
PROOF
  <1> SUFFICES ASSUME ~started PROVE FALSE
    BY Zenon
  <1> DEFINE A == Among(Crew, wpc, PastLoading)
  <1>1. Crew \subseteq Ids /\ pool \subseteq Ids
    BY Zenon, GivenOut DEF LifeInv, Crew, TypeOK
  <1>2. A \subseteq pool
    BY Zenon DEF LifeInv, Order, Seating, Among, Crew, Members, PastLoading, Loading, Waiting, Over
  <1>3. Cardinality(A) \in Nat /\ Cardinality(pool) \in Nat /\ IsFiniteSet(pool)
    BY Zenon, <1>1, AmongBound, SomeIds
  <1>4. pre_barrier = Cardinality(A)
    BY <1>3 DEF LifeInv, Counted, Started
  <1> HIDE DEF A
  <1>5. Cardinality(A) <= Cardinality(pool)
    BY ZenonT(30), <1>2, <1>3, FS_Subset
  <1> QED
    BY <1>3, <1>4, <1>5

(* When worker 0 finds post_barrier at the size of the pool, all have left their loops. *)
LEMMA AllArrived ==
  ASSUME LifeInv, hot = {}, ~early, wpc[0] = "wait", post_barrier = Cardinality(pool)
  PROVE  Members = pool /\ \A w \in Members : wpc[w] \in Over
PROOF
  <1>1. 0 \in Ids /\ Members \subseteq Ids
    BY Zenon, IdsFacts, GivenOut DEF LifeInv
  <1>2. 0 \in Members /\ Crew = Members
    BY Zenon, <1>1 DEF LifeInv, Known, Crew
  <1>3. ~Creating
    BY Zenon, <1>2, NoneBeyondBarrier DEF Loading, Waiting
  <1>4. Members = pool /\ cpc # "none"
    BY Zenon, <1>2, <1>3 DEF LifeInv, Seating, Creating, Members
  <1>5. /\ Cardinality(Among(Crew, wpc, Over)) \in Nat
        /\ Cardinality(Among(Crew, wpc, Over)) = Cardinality(Crew) => \A w \in Crew : wpc[w] \in Over
    BY Zenon, <1>1, <1>2, AmongBound
  <1>6. post_barrier = Cardinality(Among(Crew, wpc, Over))
    <2>1. Closed = 0
      BY Zenon DEF Closed
    <2>2. post_barrier = Cardinality(Among(Crew, wpc, Over)) + Closed
      BY Zenon, <1>4 DEF LifeInv, Counted
    <2> QED
      BY <2>1, <2>2, <1>5
  <1> QED
    BY Zenon, <1>2, <1>4, <1>5, <1>6

(* Every step keeps the order of loading, starting, running and snapshots. *)
LEMMA OrderStep ==
  ASSUME LifeInv, [Next]_vars
  PROVE  Order'
PROOF
  <1>ty. /\ cpc \in {"none", "create", "emplace", "ready", "notify", "plug", "snapshot", "stuck", "join"}
         /\ worker_counter \in Nat /\ pool \subseteq Ids /\ hot \subseteq Ids /\ Ids \subseteq Nat
         /\ wpc \in [Ids -> WorkerPc] /\ 0 \in Ids
    BY IdsFacts DEF LifeInv, TypeOK
  <1>k. Known /\ Seating /\ Roles /\ Order /\ Members \subseteq Ids /\ Crew \subseteq Ids
    BY GivenOut DEF LifeInv, Crew
  <1>t. terminate \in [Ids -> BOOLEAN] /\ early \in BOOLEAN /\ started \in BOOLEAN /\ unsafe \in BOOLEAN
    BY Zenon DEF LifeInv, TypeOK
  <1>1. CASE init
    <2>1. Members' = {} /\ Crew' = {} /\ wpc' = wpc /\ cpc' = "create"
      BY Zenon, <1>1, <1>k DEF init, Members, Crew, Seating
    <2> QED
      BY Zenon, <2>1 DEF Order, Creating
  <1>2. CASE create_thread
    <2>1. worker_counter \in Ids
      BY Zenon, <1>2, NewId DEF create_thread
    <2>2. /\ Members' = Members \cup {worker_counter} /\ Crew' = Crew \cup {worker_counter}
          /\ worker_counter \notin Members /\ worker_counter' - 1 = worker_counter /\ wpc[worker_counter] = "none"
          /\ cpc = "create" /\ cpc' = "emplace" /\ UNCHANGED <<hot, terminate, early, unsafe, started>>
      <3>1. Members = pool /\ Members' = pool \cup {worker_counter} /\ worker_counter \notin Members \cup hot
        BY <1>2, <1>ty, <1>k DEF create_thread, Members, Known
      <3> QED
        BY <1>2, <2>1, <3>1, <1>ty, <1>k DEF create_thread, flags, histories, Crew, Known
    <2>3. \A v \in Ids : wpc'[v] = IF v = worker_counter THEN "boot" ELSE wpc[v]
      BY Zenon, <1>2, <2>1, <1>ty DEF create_thread
    <2>4. ~early => \A v \in Crew : wpc[v] \in Loading \cup Waiting
      BY Zenon, <2>2, NoneBeyondBarrier DEF Creating
    <2>5. hot = {} /\ ~early => wpc'[0] # "snapshot"
      <3>1. 0 \notin Members => wpc[0] \in {"none", "terminated"}
        BY Zenon, <1>ty, <1>k DEF Known
      <3> QED
        BY Zenon, <2>3, <2>4, <3>1, <1>ty DEF Crew, Loading, Waiting
    <2>6. wpc'[worker_counter' - 1] \in Loading
      BY Zenon, <2>1, <2>2, <2>3 DEF Loading
    <2>7. ~early' => \A v \in Crew' : wpc'[v] \in Loading \cup Waiting
      BY Zenon, <2>1, <2>2, <2>3, <2>4, <1>k DEF Loading
    <2> QED
      BY Zenon, <2>2, <2>5, <2>6, <2>7 DEF Order, Creating
  <1>3. CASE emplace_worker
    BY Zenon, <1>3, <1>ty, <1>t, <1>k DEF emplace_worker, flags, histories, Order, Crew, Members, Creating, Loading, Waiting, Over, Running
  <1>4. CASE init_returns
    <2>1. /\ Members' = Members /\ Crew' = Crew /\ Members = pool /\ Crew = pool /\ ~started /\ wpc' = wpc
          /\ cpc' = "ready" /\ cpc # "none" /\ pre_barrier = Cardinality(Crew)
          /\ UNCHANGED <<hot, terminate, early, unsafe, started>>
      BY Zenon, <1>4, <1>k DEF init_returns, flags, histories, Members, Crew, Seating, Creating
    <2>2. /\ Cardinality(Among(Crew, wpc, PastLoading)) \in Nat
          /\ Cardinality(Among(Crew, wpc, PastLoading)) = Cardinality(Crew) => \A v \in Crew : wpc[v] \in PastLoading
      BY Zenon, <1>k, AmongBound
    <2>3. \A v \in Crew : wpc[v] \notin Loading
      BY <2>1, <2>2 DEF LifeInv, Counted, Started, PastLoading, Loading, Waiting, Over
    <2> QED
      BY Zenon, <2>1, <2>3, <1>k DEF Order, Creating
  <1>5. CASE start_workers
    BY Zenon, <1>5, <1>ty, <1>t, <1>k DEF start_workers, flags, histories, Order, Crew, Members, Creating, Loading, Waiting, Over, Running
  <1>6. CASE notify_all
    BY Zenon, <1>6, <1>ty, <1>t, <1>k DEF notify_all, flags, histories, Order, Crew, Members, Creating, Loading, Waiting, Over, Running
  <1>7. CASE add_worker
    BY <1>7, <1>ty, <1>t, <1>k DEF add_worker, flags, histories, Order, Crew, Members, Creating, Loading, Waiting, Over, Running
  <1>8. CASE add_worker_emplace
    BY Zenon, <1>8, <1>ty, <1>t, <1>k DEF add_worker_emplace, flags, histories, Order, Crew, Members, Creating, Loading, Waiting, Over, Running
  <1>9. CASE shutdown
    BY Zenon, <1>9, <1>ty, <1>t, <1>k DEF shutdown, flags, histories, Order, Crew, Members, Creating, Loading, Waiting, Over, Running
  <1>10. CASE join
    BY Zenon, <1>10, <1>ty, <1>t, <1>k DEF join, flags, histories, Order, Crew, Members, Creating, Loading, Waiting, Over, Running
  <1>11. CASE snapshot
    BY Zenon, <1>11, <1>ty, <1>t, <1>k DEF snapshot, PauseAll, flags, histories, Order, Crew, Members, Creating, Loading, Waiting, Over, Running
  <1>12. ASSUME NEW w \in Ids, remove_worker(w)
        PROVE  Order'
    BY Zenon, <1>12, <1>ty, <1>t, <1>k DEF remove_worker, flags, histories, Order, Crew, Members, Creating, Loading, Waiting, Over, Running
  <1>13. ASSUME NEW w \in Ids, boot(w)
        PROVE  Order'
    <2>1. \A v \in Ids : wpc'[v] = IF v = w THEN (IF w \in hot THEN "run" ELSE "load") ELSE wpc[v]
      BY Zenon, <1>13, <1>ty DEF boot
    <2>2. /\ Members' = Members /\ Crew' = Crew /\ wpc[w] = "boot" /\ w \in Members
          /\ UNCHANGED <<cpc, pool, hot, worker_counter, started, terminate, unsafe, early>>
      BY Zenon, <1>13, <1>ty, <1>k DEF boot, workerOnly, clientVars, flags, histories, Members, Crew, Known
    <2>3. (~Creating => \A v \in Crew : wpc[v] \notin Loading)'
      BY Zenon, <2>1, <2>2, <1>ty, <1>t, <1>k DEF Order, Crew, Creating, Loading
    <2>4. (~early /\ cpc = "emplace" => wpc[worker_counter - 1] \in Loading)'
      <3>1. cpc = "emplace" => worker_counter - 1 \in Members /\ worker_counter - 1 \notin hot
        BY Zenon, <1>k DEF Seating, Members
      <3> QED
        BY Zenon, <2>1, <2>2, <3>1, <1>ty, <1>k DEF Order, Loading
    <2>5. (~early => \A v \in Crew : ~terminate[v] /\ wpc[v] \notin Loading \cup Waiting => started)'
      BY Zenon, <2>1, <2>2, <1>ty, <1>k DEF Order, Crew, Loading, Waiting
    <2>6. (hot = {} /\ ~early /\ wpc[0] = "snapshot" => \A v \in Members : wpc[v] \in Over)'
      BY Zenon, <2>1, <2>2, <1>ty, <1>k DEF Order, Over
    <2>7. (hot = {} /\ ~unsafe /\ cpc = "snapshot" =>
             \A v \in pool : ~Running(v) /\ (started => wpc[v] \notin Waiting))'
      BY Zenon, <2>1, <2>2, <1>ty, <1>k DEF Order, Running, Waiting
    <2> QED
      BY Zenon, <2>3, <2>4, <2>5, <2>6, <2>7 DEF Order
  <1>14. ASSUME NEW w \in Ids, pre_run(w)
        PROVE  Order'
    <2>1. \A v \in Ids : wpc'[v] = IF v = w THEN "check" ELSE wpc[v]
      BY Zenon, <1>14, <1>ty DEF pre_run
    <2>2. /\ Members' = Members /\ Crew' = Crew /\ wpc[w] = "load" /\ w \in Members
          /\ UNCHANGED <<cpc, pool, hot, worker_counter, started, terminate, unsafe>>
      BY Zenon, <1>14, <1>ty, <1>k DEF pre_run, workerOnly, clientVars, flags, histories, Members, Crew, Known
    <2>3. (~early' => ~early /\ w \in pool) /\ w \notin hot
      BY Zenon, <1>14, <1>ty, <1>t, <1>k DEF pre_run, Roles
    <2> QED
      BY Zenon, <2>1, <2>2, <2>3, <1>ty, <1>t, <1>k DEF Seating, Order, Crew, Members, Creating, Loading, Waiting, Over, Running
  <1>15. ASSUME NEW w \in Ids, pre_wait(w)
        PROVE  Order'
    <2>1. \A v \in Ids : wpc'[v] = IF v = w THEN (IF BarrierOpen(w) THEN "run" ELSE "asleep") ELSE wpc[v]
      BY Zenon, <1>15, <1>ty DEF pre_wait
    <2>2. /\ Members' = Members /\ Crew' = Crew /\ wpc[w] = "check" /\ w \in Members
          /\ UNCHANGED <<cpc, pool, hot, worker_counter, started, terminate, unsafe, early>>
      BY Zenon, <1>15, <1>ty, <1>k DEF pre_wait, workerOnly, clientVars, flags, histories, Members, Crew, Known
    <2>3. w \in Crew /\ cpc # "none"
      BY Zenon, <2>2, <1>ty, <1>k DEF Roles, Crew, Waiting, Seating, Members
    <2>4. BarrierOpen(w) /\ ~terminate[w] /\ (~early \/ cpc # "emplace") => started
      BY Zenon, <2>3, StartOpens DEF BarrierOpen
    <2>5. cpc # "join" => ~terminate[w]
      BY Zenon, <2>3, <1>k DEF Roles
    <2> HIDE DEF BarrierOpen
    <2> QED
      BY Zenon, <2>1, <2>2, <2>3, <2>4, <2>5, <1>ty, <1>t, <1>k DEF Order, Crew, Members, Creating, Loading, Waiting, Over, Running
  <1>16. ASSUME NEW w \in Ids, spurious_wakeup(w)
        PROVE  Order'
    <2>1. \A v \in Ids : wpc'[v] = IF v = w THEN "check" ELSE wpc[v]
      BY Zenon, <1>16, <1>ty DEF spurious_wakeup
    <2>2. /\ Members' = Members /\ Crew' = Crew /\ wpc[w] = "asleep" /\ w \in Members
          /\ UNCHANGED <<cpc, pool, hot, worker_counter, started, terminate, unsafe, early>>
      BY Zenon, <1>16, <1>ty, <1>k DEF spurious_wakeup, workerOnly, clientVars, flags, histories, Members, Crew, Known
    <2>3. (~Creating => \A v \in Crew : wpc[v] \notin Loading)'
      BY Zenon, <2>1, <2>2, <1>ty, <1>k DEF Order, Crew, Creating, Loading
    <2>4. (~early /\ cpc = "emplace" => wpc[worker_counter - 1] \in Loading)'
      <3>1. cpc = "emplace" => worker_counter - 1 \in Members
        BY Zenon DEF Members
      <3> QED
        BY Zenon, <2>1, <2>2, <3>1, <1>ty, <1>k DEF Order, Loading
    <2>5. (~early => \A v \in Crew : ~terminate[v] /\ wpc[v] \notin Loading \cup Waiting => started)'
      BY Zenon, <2>1, <2>2, <1>ty, <1>k DEF Order, Crew, Loading, Waiting
    <2>6. (hot = {} /\ ~early /\ wpc[0] = "snapshot" => \A v \in Members : wpc[v] \in Over)'
      BY Zenon, <2>1, <2>2, <1>ty, <1>k DEF Order, Over
    <2>7. (hot = {} /\ ~unsafe /\ cpc = "snapshot" =>
             \A v \in pool : ~Running(v) /\ (started => wpc[v] \notin Waiting))'
      BY Zenon, <2>1, <2>2, <1>ty, <1>k DEF Order, Running, Waiting
    <2> QED
      BY Zenon, <2>3, <2>4, <2>5, <2>6, <2>7 DEF Order
  <1>17. ASSUME NEW w \in Ids, Running(w), Leave(w)
        PROVE  Order'
    BY <1>17, <1>ty, <1>t, <1>k DEF Leave, Running, workerOnly, clientVars, flags, histories, Order, Crew, Members, Creating, Loading, Waiting, Over, Running
  <1>18. ASSUME NEW w \in Ids, pause_assert(w)
        PROVE  Order'
    BY Zenon, <1>18, <1>ty, <1>t, <1>k DEF pause_assert, workerOnly, clientVars, flags, histories, Order, Crew, Members, Creating, Loading, Waiting, Over, Running
  <1>19. ASSUME NEW w \in Ids, post_snapshot(w)
        PROVE  Order'
    <2>1. \A v \in Ids : wpc'[v] = IF v = w THEN "snapshot" ELSE wpc[v]
      BY Zenon, <1>19, <1>ty DEF post_snapshot
    <2>2. /\ Members' = Members /\ Crew' = Crew /\ wpc[w] = "wait" /\ w \in Members
          /\ UNCHANGED <<cpc, pool, hot, worker_counter, started, terminate, unsafe, early>>
      BY Zenon, <1>19, <1>ty, <1>k DEF post_snapshot, PauseAll, workerOnly, clientVars, flags, histories, Members, Crew, Known
    <2>3. w = 0 /\ post_barrier = Cardinality(pool)
      BY Zenon, <1>19, <2>2, <1>k DEF post_snapshot, Roles
    <2>4. hot = {} /\ ~early => \A v \in Members : wpc[v] \in Over
      BY Zenon, <2>2, <2>3, AllArrived
    <2> QED
      BY <2>1, <2>2, <2>3, <2>4, <1>ty, <1>t, <1>k DEF Order, Crew, Members, Creating, Loading, Waiting, Over, Running
  <1>20. ASSUME NEW w \in Ids, post_run(w)
        PROVE  Order'
    BY Zenon, <1>20, <1>ty, <1>t, <1>k DEF post_run, workerOnly, clientVars, flags, histories, Order, Crew, Members, Creating, Loading, Waiting, Over, Running
  <1>21. ASSUME NEW a \in Callers, NEW w \in Ids, pause_next(a, w)
        PROVE  Order'
    BY Zenon, <1>21, <1>ty, <1>t, <1>k DEF pause_next, workerOnly, clientVars, flags, histories, Order, Crew, Members, Creating, Loading, Waiting, Over, Running
  <1>22. ASSUME NEW a \in Callers, NEW w \in Ids, pause_forever(a, w)
        PROVE  Order'
    <2>1. CASE a = Client
      <3>1. /\ cpc = "snapshot" /\ cpc' = "stuck" /\ wpc' = wpc /\ Members' = Members /\ Crew' = Crew
            /\ UNCHANGED <<pool, hot, worker_counter, started, terminate, early, unsafe>>
        BY Zenon, <1>22, <2>1, <1>k DEF pause_forever, flags, histories, Members, Crew, Roles, Client, Worker0
      <3> QED
        BY Zenon, <3>1, <1>k DEF Order, Creating
    <2>2. CASE a # Client
      <3>1. /\ wpc[0] = "snapshot" /\ \A v \in Ids : wpc'[v] = IF v = 0 THEN "stuck" ELSE wpc[v]
            /\ UNCHANGED <<cpc, pool, hot, worker_counter, started, terminate, early, unsafe>>
        BY Zenon, <1>22, <2>2, <1>ty, <1>k DEF pause_forever, flags, histories, Callers, Client, Worker0, Roles
      <3>2. Members' = Members /\ Crew' = Crew
        BY Zenon, <3>1 DEF Members, Crew
      <3> QED
        BY <3>1, <3>2, <1>ty, <1>t, <1>k DEF Order, Crew, Members, Creating, Loading, Waiting, Over, Running
    <2> QED
      BY Zenon, <2>1, <2>2
  <1>23. ASSUME NEW a \in Callers, resume(a)
        PROVE  Order'
    <2>1. CASE a = Client
      <3>1. /\ cpc = "snapshot" /\ cpc' = "ready" /\ wpc' = wpc /\ Members' = Members /\ Crew' = Crew
            /\ UNCHANGED <<pool, hot, worker_counter, started, terminate, early, unsafe>>
        BY Zenon, <1>23, <2>1, <1>k DEF resume, histories, Members, Crew, Roles, Client, Worker0
      <3> QED
        BY Zenon, <3>1, <1>k DEF Order, Creating
    <2>2. CASE a # Client
      <3>1. /\ wpc[0] = "snapshot" /\ \A v \in Ids : wpc'[v] = IF v = 0 THEN "post" ELSE wpc[v]
            /\ UNCHANGED <<cpc, pool, hot, worker_counter, started, terminate, early, unsafe>>
        BY Zenon, <1>23, <2>2, <1>ty, <1>k DEF resume, histories, Callers, Client, Worker0, Roles
      <3>2. Members' = Members /\ Crew' = Crew
        BY Zenon, <3>1 DEF Members, Crew
      <3> QED
        BY <3>1, <3>2, <1>ty, <1>t, <1>k DEF Order, Crew, Members, Creating, Loading, Waiting, Over, Running
    <2> QED
      BY Zenon, <2>1, <2>2
  <1>24. CASE UNCHANGED vars
    BY Zenon, <1>24, <1>ty, <1>t, <1>k DEF vars, flags, histories, Order, Crew, Members, Creating, Loading, Waiting, Over, Running
  <1> QED
    BY Zenon, <1>1, <1>2, <1>3, <1>4, <1>5, <1>6, <1>7, <1>8, <1>9, <1>10, <1>11, <1>12,
       <1>13, <1>14, <1>15, <1>16, <1>17, <1>18, <1>19, <1>20, <1>21, <1>22, <1>23, <1>24
       DEF Next, worker, snapshotting, client, loop_end, iterations_end

(* No step pauses a worker that runs, unless the client, a fast worker or a hot-plugged one is to blame. *)
LEMMA PausedStep ==
  ASSUME LifeInv, [Next]_vars
  PROVE  NobodyPaused'
PROOF
  <1>ty. /\ cpc \in {"none", "create", "emplace", "ready", "notify", "plug", "snapshot", "stuck", "join"}
         /\ worker_counter \in Nat /\ pool \subseteq Ids /\ hot \subseteq Ids /\ Ids \subseteq Nat
         /\ wpc \in [Ids -> WorkerPc] /\ 0 \in Ids
    BY IdsFacts DEF LifeInv, TypeOK
  <1>k. Known /\ Seating /\ Roles /\ Order /\ NobodyPaused
    BY Zenon DEF LifeInv
  <1>t. pausing \subseteq Callers
    BY Zenon DEF LifeInv, TypeOK
  <1>1. CASE init
    BY Zenon, <1>1, <1>ty, <1>k DEF init, histories, NobodyPaused
  <1>2. CASE create_thread
    <2>1. worker_counter \in Ids
      BY Zenon, <1>2, NewId DEF create_thread
    <2> QED
      BY Zenon, <1>2, <2>1, <1>ty, <1>k DEF create_thread, histories, NobodyPaused
  <1>3. CASE emplace_worker
    BY Zenon, <1>3, <1>ty, <1>k DEF emplace_worker, histories, NobodyPaused
  <1>4. CASE init_returns
    BY Zenon, <1>4, <1>ty, <1>k DEF init_returns, histories, NobodyPaused
  <1>5. CASE start_workers
    BY Zenon, <1>5, <1>ty, <1>k DEF start_workers, histories, NobodyPaused
  <1>6. CASE notify_all
    BY Zenon, <1>6, <1>ty, <1>k DEF notify_all, histories, NobodyPaused
  <1>7. CASE add_worker
    BY Zenon, <1>7, <1>ty, <1>k DEF add_worker, histories, NobodyPaused
  <1>8. CASE add_worker_emplace
    BY Zenon, <1>8, <1>ty, <1>k DEF add_worker_emplace, histories, NobodyPaused
  <1>9. CASE shutdown
    BY Zenon, <1>9, <1>ty, <1>k DEF shutdown, histories, NobodyPaused
  <1>10. CASE join
    BY Zenon, <1>10, <1>ty, <1>k DEF join, histories, NobodyPaused
  <1>11. CASE snapshot
    BY Zenon, <1>11, <1>ty, <1>k DEF snapshot, PauseAll, histories, NobodyPaused
  <1>12. ASSUME NEW w \in Ids, remove_worker(w)
        PROVE  NobodyPaused'
    BY Zenon, <1>12, <1>ty, <1>k DEF remove_worker, histories, NobodyPaused
  <1>13. ASSUME NEW w \in Ids, boot(w)
        PROVE  NobodyPaused'
    BY Zenon, <1>13, <1>ty, <1>k DEF boot, workerOnly, clientVars, histories, NobodyPaused
  <1>14. ASSUME NEW w \in Ids, pre_run(w)
        PROVE  NobodyPaused'
    BY Zenon, <1>14, <1>ty, <1>k DEF pre_run, workerOnly, clientVars, histories, NobodyPaused
  <1>15. ASSUME NEW w \in Ids, pre_wait(w)
        PROVE  NobodyPaused'
    BY Zenon, <1>15, <1>ty, <1>k DEF pre_wait, workerOnly, clientVars, histories, NobodyPaused
  <1>16. ASSUME NEW w \in Ids, spurious_wakeup(w)
        PROVE  NobodyPaused'
    BY Zenon, <1>16, <1>ty, <1>k DEF spurious_wakeup, workerOnly, clientVars, histories, NobodyPaused
  <1>17. ASSUME NEW w \in Ids, Running(w), Leave(w)
        PROVE  NobodyPaused'
    BY Zenon, <1>17, <1>ty, <1>k DEF Leave, Running, workerOnly, clientVars, histories, NobodyPaused
  <1>18. ASSUME NEW w \in Ids, pause_assert(w)
        PROVE  NobodyPaused'
    <2> SUFFICES ASSUME ~unsafe, ~early, hot = {}
                 PROVE  FALSE
      BY Zenon, <1>18 DEF pause_assert, histories, clientVars, NobodyPaused
    <2>1. w \in pool /\ w \in Members /\ wpc[w] = "run" /\ pausing # {}
      BY Zenon, <1>18, <1>k DEF pause_assert, Running, Roles, NobodyPaused, Members
    <2>2. CASE Client \in pausing
      BY Zenon, <2>1, <2>2, <1>k DEF Roles, Order, Running
    <2>3. CASE Worker0 \in pausing
      BY Zenon, <2>1, <2>3, <1>k DEF Roles, Order, Over
    <2> QED
      BY Zenon, <2>1, <2>2, <2>3, <1>t DEF Callers
  <1>19. ASSUME NEW w \in Ids, post_snapshot(w)
        PROVE  NobodyPaused'
    BY Zenon, <1>19, <1>ty, <1>k DEF post_snapshot, PauseAll, workerOnly, clientVars, histories, NobodyPaused
  <1>20. ASSUME NEW w \in Ids, post_run(w)
        PROVE  NobodyPaused'
    BY Zenon, <1>20, <1>ty, <1>k DEF post_run, workerOnly, clientVars, histories, NobodyPaused
  <1>21. ASSUME NEW a \in Callers, NEW w \in Ids, pause_next(a, w)
        PROVE  NobodyPaused'
    BY Zenon, <1>21, <1>ty, <1>k DEF pause_next, workerOnly, clientVars, histories, NobodyPaused
  <1>22. ASSUME NEW a \in Callers, NEW w \in Ids, pause_forever(a, w)
        PROVE  NobodyPaused'
    <2> SUFFICES ASSUME ~unsafe, ~early, hot = {}
                 PROVE  FALSE
      BY Zenon, <1>22 DEF pause_forever, histories, NobodyPaused
    <2>1. w \in pool /\ w \in Members /\ w \in Crew /\ wpc[w] \in {"load", "run"} /\ a \in pausing
      BY Zenon, <1>22, <1>k DEF pause_forever, MustPause, Roles, Members, Crew
    <2>2. CASE a = Client
      BY Zenon, <2>1, <2>2, <1>k DEF Roles, Order, Running, Creating, Loading
    <2>3. CASE a = Worker0
      BY Zenon, <2>1, <2>3, <1>k DEF Roles, Order, Over
    <2> QED
      BY Zenon, <2>2, <2>3 DEF Callers
  <1>23. ASSUME NEW a \in Callers, resume(a)
        PROVE  NobodyPaused'
    BY Zenon, <1>23, <1>ty, <1>k DEF resume, Callers, Client, Worker0, histories, NobodyPaused
  <1>24. CASE UNCHANGED vars
    BY Zenon, <1>24, <1>ty, <1>k DEF vars, histories, NobodyPaused
  <1> QED
    BY Zenon, <1>1, <1>2, <1>3, <1>4, <1>5, <1>6, <1>7, <1>8, <1>9, <1>10, <1>11, <1>12,
       <1>13, <1>14, <1>15, <1>16, <1>17, <1>18, <1>19, <1>20, <1>21, <1>22, <1>23, <1>24
       DEF Next, worker, snapshotting, client, loop_end, iterations_end

(* After the id w there are at least w + 1 ids. *)
LEMMA IdBound ==
  ASSUME NEW w \in Ids
  PROVE  w + 1 <= Cardinality(Ids)
PROOF
  <1> DEFINE n == MaxRounds * NumWorkers
  <1>1. n \in Nat /\ MaxPlugged \in Nat /\ Ids = 0 .. n + MaxPlugged - 1 /\ Cardinality(Ids) = n + MaxPlugged
    BY ZenonT(60), IdsFacts, WorkerPoolAssumption DEF Ids
  <1> HIDE DEF n
  <1> QED
    BY <1>1

(* Every step keeps the types. *)
LEMMA TypeStep ==
  ASSUME LifeInv, [Next]_vars
  PROVE  TypeOK'
PROOF
  <1>c. ClientTypes /\ WorkerTypes /\ BarrierTypes /\ HistoryTypes
    BY Zenon DEF LifeInv, TypeOK, ClientTypes, WorkerTypes, BarrierTypes, HistoryTypes
  <1>n. Cardinality(Ids) \in Nat /\ NumWorkers \in Nat /\ Ids \subseteq Nat /\ 0 \in Ids
        /\ MaxRounds \in Nat /\ MaxSnapshots \in Nat
    BY IdsFacts, WorkerPoolAssumption
  <1>k. Roles /\ Known /\ Seating /\ Members \subseteq Ids /\ Crew \subseteq Ids /\ Cardinality(Crew) \in Nat /\ Cardinality(Crew) <= NumWorkers
    BY Zenon, GivenOut, SomeIds DEF LifeInv, Crew, Bounded
  <1>t. ASSUME ClientTypes', WorkerTypes', BarrierTypes', HistoryTypes'
        PROVE  TypeOK'
    BY Zenon, <1>t DEF TypeOK, ClientTypes, WorkerTypes, BarrierTypes, HistoryTypes
  <1>1. CASE init
    <2>1. ClientTypes'
      BY <1>1, <1>c, <1>n DEF init, ClientTypes
    <2>2. WorkerTypes'
      BY Zenon, <1>1, <1>c, <1>n DEF init, flags, snap, WorkerTypes, WorkerPc
    <2>3. BarrierTypes'
      BY <1>1, <1>c, <1>n DEF init, barriers, BarrierTypes
    <2>4. HistoryTypes'
      BY Zenon, <1>1, <1>c DEF init, histories, HistoryTypes
    <2> QED
      BY Zenon, <2>1, <2>2, <2>3, <2>4, <1>t
  <1>2. CASE create_thread
    <2>1. ClientTypes'
      <3>1. worker_counter \in Ids
        BY Zenon, <1>2, NewId DEF create_thread
      <3>2. worker_counter + 1 \in 0 .. Cardinality(Ids)
        BY <3>1, <1>c, <1>n, IdBound DEF ClientTypes
      <3> QED
        BY Zenon, <1>2, <3>1, <3>2, <1>c DEF create_thread, ClientTypes
    <2>2. WorkerTypes'
      BY Zenon, <1>2, <1>c, <1>n DEF create_thread, flags, snap, WorkerTypes, WorkerPc
    <2>3. BarrierTypes'
      BY Zenon, <1>2, <1>c, <1>n DEF create_thread, barriers, BarrierTypes
    <2>4. HistoryTypes'
      BY Zenon, <1>2, <1>c DEF create_thread, histories, HistoryTypes
    <2> QED
      BY Zenon, <2>1, <2>2, <2>3, <2>4, <1>t
  <1>3. CASE emplace_worker
    <2>1. ClientTypes'
      <3>1. worker_counter - 1 \in Ids
        BY Zenon, <1>3, <1>k DEF emplace_worker, Members
      <3> QED
        BY Zenon, <1>3, <3>1, <1>c DEF emplace_worker, ClientTypes
    <2>2. WorkerTypes'
      BY Zenon, <1>3, <1>c, <1>n DEF emplace_worker, flags, snap, WorkerTypes, WorkerPc
    <2>3. BarrierTypes'
      BY Zenon, <1>3, <1>c, <1>n DEF emplace_worker, barriers, BarrierTypes
    <2>4. HistoryTypes'
      BY Zenon, <1>3, <1>c DEF emplace_worker, histories, HistoryTypes
    <2> QED
      BY Zenon, <2>1, <2>2, <2>3, <2>4, <1>t
  <1>4. CASE init_returns
    <2>1. ClientTypes'
      BY Zenon, <1>4, <1>c, <1>n DEF init_returns, ClientTypes
    <2>2. WorkerTypes'
      BY Zenon, <1>4, <1>c, <1>n DEF init_returns, flags, snap, WorkerTypes, WorkerPc
    <2>3. BarrierTypes'
      BY Zenon, <1>4, <1>c, <1>n DEF init_returns, barriers, BarrierTypes
    <2>4. HistoryTypes'
      BY Zenon, <1>4, <1>c DEF init_returns, histories, HistoryTypes
    <2> QED
      BY Zenon, <2>1, <2>2, <2>3, <2>4, <1>t
  <1>5. CASE start_workers
    <2>1. ClientTypes'
      BY Zenon, <1>5, <1>c, <1>n DEF start_workers, ClientTypes
    <2>2. WorkerTypes'
      BY Zenon, <1>5, <1>c, <1>n DEF start_workers, flags, snap, WorkerTypes, WorkerPc
    <2>3. BarrierTypes'
      <3>1. Cardinality(Among(Crew, wpc, PastLoading)) \in Nat /\ Cardinality(Among(Crew, wpc, PastLoading)) <= NumWorkers
        BY <1>k, <1>n, AmongBound
      <3>2. pre_barrier = Cardinality(Among(Crew, wpc, PastLoading))
        BY <1>5, <3>1 DEF start_workers, LifeInv, Counted, Started
      <3> QED
        BY <1>5, <3>1, <3>2, <1>c, <1>n DEF start_workers, BarrierTypes
    <2>4. HistoryTypes'
      BY Zenon, <1>5, <1>c DEF start_workers, histories, HistoryTypes
    <2> QED
      BY Zenon, <2>1, <2>2, <2>3, <2>4, <1>t
  <1>6. CASE notify_all
    <2>1. ClientTypes'
      BY Zenon, <1>6, <1>c, <1>n DEF notify_all, ClientTypes
    <2>2. WorkerTypes'
      BY Zenon, <1>6, <1>c, <1>n DEF notify_all, flags, snap, WorkerTypes, WorkerPc
    <2>3. BarrierTypes'
      BY Zenon, <1>6, <1>c, <1>n DEF notify_all, barriers, BarrierTypes
    <2>4. HistoryTypes'
      BY Zenon, <1>6, <1>c DEF notify_all, histories, HistoryTypes
    <2> QED
      BY Zenon, <2>1, <2>2, <2>3, <2>4, <1>t
  <1>7. CASE add_worker
    <2>1. ClientTypes'
      <3>1. worker_counter \in Ids
        BY Zenon, <1>7, NewId DEF add_worker
      <3>2. worker_counter + 1 \in 0 .. Cardinality(Ids)
        BY <3>1, <1>c, <1>n, IdBound DEF ClientTypes
      <3> QED
        BY Zenon, <1>7, <3>1, <3>2, <1>c DEF add_worker, ClientTypes
    <2>2. WorkerTypes'
      BY Zenon, <1>7, <1>c, <1>n DEF add_worker, flags, snap, WorkerTypes, WorkerPc
    <2>3. BarrierTypes'
      BY Zenon, <1>7, <1>c, <1>n DEF add_worker, barriers, BarrierTypes
    <2>4. HistoryTypes'
      BY Zenon, <1>7, <1>c DEF add_worker, histories, HistoryTypes
    <2> QED
      BY Zenon, <2>1, <2>2, <2>3, <2>4, <1>t
  <1>8. CASE add_worker_emplace
    <2>1. ClientTypes'
      <3>1. worker_counter - 1 \in Ids
        BY Zenon, <1>8, <1>k DEF add_worker_emplace, Members
      <3> QED
        BY Zenon, <1>8, <3>1, <1>c DEF add_worker_emplace, ClientTypes
    <2>2. WorkerTypes'
      BY Zenon, <1>8, <1>c, <1>n DEF add_worker_emplace, flags, snap, WorkerTypes, WorkerPc
    <2>3. BarrierTypes'
      BY Zenon, <1>8, <1>c, <1>n DEF add_worker_emplace, barriers, BarrierTypes
    <2>4. HistoryTypes'
      BY Zenon, <1>8, <1>c DEF add_worker_emplace, histories, HistoryTypes
    <2> QED
      BY Zenon, <2>1, <2>2, <2>3, <2>4, <1>t
  <1>9. CASE shutdown
    <2>1. ClientTypes'
      BY Zenon, <1>9, <1>c, <1>n DEF shutdown, ClientTypes
    <2>2. WorkerTypes'
      BY Zenon, <1>9, <1>c, <1>n DEF shutdown, flags, snap, WorkerTypes, WorkerPc
    <2>3. BarrierTypes'
      BY Zenon, <1>9, <1>c, <1>n DEF shutdown, barriers, BarrierTypes
    <2>4. HistoryTypes'
      BY Zenon, <1>9, <1>c DEF shutdown, histories, HistoryTypes
    <2> QED
      BY Zenon, <2>1, <2>2, <2>3, <2>4, <1>t
  <1>10. CASE join
    <2>1. ClientTypes'
      BY Zenon, <1>10, <1>c, <1>n DEF join, ClientTypes
    <2>2. WorkerTypes'
      BY Zenon, <1>10, <1>c, <1>n DEF join, flags, snap, WorkerTypes, WorkerPc
    <2>3. BarrierTypes'
      BY Zenon, <1>10, <1>c, <1>n DEF join, barriers, BarrierTypes
    <2>4. HistoryTypes'
      BY Zenon, <1>10, <1>c DEF join, histories, HistoryTypes
    <2> QED
      BY Zenon, <2>1, <2>2, <2>3, <2>4, <1>t
  <1>11. CASE snapshot
    <2>1. ClientTypes'
      BY <1>11, <1>c, <1>n DEF snapshot, PauseAll, ClientTypes
    <2>2. WorkerTypes'
      <3>1. pool \in SUBSET Ids /\ left \in [Callers -> SUBSET Ids] /\ pausing \subseteq Callers
        BY Zenon, <1>c DEF ClientTypes, WorkerTypes
      <3>2. left' \in [Callers -> SUBSET Ids] /\ pausing' \subseteq Callers
        BY Zenon, <1>11, <3>1 DEF snapshot, PauseAll, Callers
      <3>3. pause' \in [Ids -> BOOLEAN]
        BY Zenon, <1>11 DEF snapshot, PauseAll
      <3>4. wpc' \in [Ids -> WorkerPc] /\ terminate' \in [Ids -> BOOLEAN]
        BY Zenon, <1>11, <1>c DEF snapshot, PauseAll, WorkerTypes, WorkerPc
      <3> QED
        BY Zenon, <3>2, <3>3, <3>4 DEF WorkerTypes
    <2>3. BarrierTypes'
      BY Zenon, <1>11, <1>c, <1>n DEF snapshot, PauseAll, barriers, BarrierTypes
    <2>4. HistoryTypes'
      BY Zenon, <1>11, <1>c DEF snapshot, PauseAll, histories, HistoryTypes
    <2> QED
      BY Zenon, <2>1, <2>2, <2>3, <2>4, <1>t
  <1>12. ASSUME NEW w \in Ids, remove_worker(w)
        PROVE  TypeOK'
    <2>1. ClientTypes'
      BY Zenon, <1>12, <1>c, <1>n DEF remove_worker, ClientTypes
    <2>2. WorkerTypes'
      BY Zenon, <1>12, <1>c, <1>n DEF remove_worker, flags, snap, WorkerTypes, WorkerPc
    <2>3. BarrierTypes'
      BY Zenon, <1>12, <1>c, <1>n DEF remove_worker, barriers, BarrierTypes
    <2>4. HistoryTypes'
      BY Zenon, <1>12, <1>c DEF remove_worker, histories, HistoryTypes
    <2> QED
      BY Zenon, <2>1, <2>2, <2>3, <2>4, <1>t
  <1>13. ASSUME NEW w \in Ids, boot(w)
        PROVE  TypeOK'
    <2>1. ClientTypes'
      BY Zenon, <1>13, <1>c, <1>n DEF boot, workerOnly, clientVars, ClientTypes
    <2>2. WorkerTypes'
      BY Zenon, <1>13, <1>c, <1>n DEF boot, workerOnly, clientVars, flags, snap, WorkerTypes, WorkerPc
    <2>3. BarrierTypes'
      BY Zenon, <1>13, <1>c, <1>n DEF boot, workerOnly, clientVars, barriers, BarrierTypes
    <2>4. HistoryTypes'
      BY Zenon, <1>13, <1>c DEF boot, workerOnly, clientVars, histories, HistoryTypes
    <2> QED
      BY Zenon, <2>1, <2>2, <2>3, <2>4, <1>t
  <1>14. ASSUME NEW w \in Ids, pre_run(w)
        PROVE  TypeOK'
    <2>1. ClientTypes'
      BY Zenon, <1>14, <1>c, <1>n DEF pre_run, workerOnly, clientVars, ClientTypes
    <2>2. WorkerTypes'
      BY Zenon, <1>14, <1>c, <1>n DEF pre_run, workerOnly, clientVars, flags, snap, WorkerTypes, WorkerPc
    <2>3. BarrierTypes'
      <3>1. cpc' # "none" /\ Crew' = Crew
        BY Zenon, <1>14, <1>c, <1>k DEF pre_run, workerOnly, clientVars, Members, Crew, LifeInv, Known, Seating, ClientTypes
      <3>2. Cardinality(Among(Crew, wpc', PastLoading)) \in Nat /\ Cardinality(Among(Crew, wpc', PastLoading)) <= NumWorkers
        BY <1>k, <1>n, AmongBound
      <3>3. pre_barrier' = Cardinality(Among(Crew, wpc', PastLoading)) + Started' /\ Started' \in 0 .. 1
        BY <3>1, CountedStep DEF Counted, Started
      <3>4. pre_barrier' \in 0 .. NumWorkers + 1
        BY <3>2, <3>3, <1>n
      <3> QED
        BY Zenon, <1>14, <3>4, <1>c, <1>n DEF pre_run, workerOnly, clientVars, BarrierTypes
    <2>4. HistoryTypes'
      BY Zenon, <1>14, <1>c DEF pre_run, workerOnly, clientVars, histories, HistoryTypes
    <2> QED
      BY Zenon, <2>1, <2>2, <2>3, <2>4, <1>t
  <1>15. ASSUME NEW w \in Ids, pre_wait(w)
        PROVE  TypeOK'
    <2>1. ClientTypes'
      BY Zenon, <1>15, <1>c, <1>n DEF pre_wait, workerOnly, clientVars, ClientTypes
    <2>2. WorkerTypes'
      BY Zenon, <1>15, <1>c, <1>n DEF pre_wait, workerOnly, clientVars, flags, snap, WorkerTypes, WorkerPc
    <2>3. BarrierTypes'
      BY Zenon, <1>15, <1>c, <1>n DEF pre_wait, workerOnly, clientVars, barriers, BarrierTypes
    <2>4. HistoryTypes'
      BY Zenon, <1>15, <1>c DEF pre_wait, workerOnly, clientVars, histories, HistoryTypes
    <2> QED
      BY Zenon, <2>1, <2>2, <2>3, <2>4, <1>t
  <1>16. ASSUME NEW w \in Ids, spurious_wakeup(w)
        PROVE  TypeOK'
    <2>1. ClientTypes'
      BY Zenon, <1>16, <1>c, <1>n DEF spurious_wakeup, workerOnly, clientVars, ClientTypes
    <2>2. WorkerTypes'
      BY Zenon, <1>16, <1>c, <1>n DEF spurious_wakeup, workerOnly, clientVars, flags, snap, WorkerTypes, WorkerPc
    <2>3. BarrierTypes'
      BY Zenon, <1>16, <1>c, <1>n DEF spurious_wakeup, workerOnly, clientVars, barriers, BarrierTypes
    <2>4. HistoryTypes'
      BY Zenon, <1>16, <1>c DEF spurious_wakeup, workerOnly, clientVars, histories, HistoryTypes
    <2> QED
      BY Zenon, <2>1, <2>2, <2>3, <2>4, <1>t
  <1>17. ASSUME NEW w \in Ids, Running(w), Leave(w)
        PROVE  TypeOK'
    <2>1. ClientTypes'
      BY Zenon, <1>17, <1>c, <1>n DEF Leave, Running, workerOnly, clientVars, ClientTypes
    <2>2. WorkerTypes'
      BY Zenon, <1>17, <1>c, <1>n DEF Leave, Running, workerOnly, clientVars, flags, snap, WorkerTypes, WorkerPc
    <2>3. BarrierTypes'
      <3>1. cpc' # "none" /\ Crew' = Crew
        BY Zenon, <1>17, <1>c, <1>k DEF Leave, Running, workerOnly, clientVars, Members, Crew, LifeInv, Known, Seating, ClientTypes
      <3>2. Cardinality(Among(Crew, wpc', Over)) \in Nat /\ Cardinality(Among(Crew, wpc', Over)) <= NumWorkers
        BY <1>k, <1>n, AmongBound
      <3>3. post_barrier' = Cardinality(Among(Crew, wpc', Over)) + Closed' /\ Closed' \in 0 .. 1
        BY <3>1, CountedStep DEF Counted, Closed
      <3>4. post_barrier' \in 0 .. NumWorkers + 1
        BY <3>2, <3>3, <1>n
      <3> QED
        BY Zenon, <1>17, <3>4, <1>c, <1>n DEF Leave, Running, workerOnly, clientVars, BarrierTypes
    <2>4. HistoryTypes'
      BY Zenon, <1>17, <1>c DEF Leave, Running, workerOnly, clientVars, histories, HistoryTypes
    <2> QED
      BY Zenon, <2>1, <2>2, <2>3, <2>4, <1>t
  <1>18. ASSUME NEW w \in Ids, pause_assert(w)
        PROVE  TypeOK'
    <2>1. ClientTypes'
      BY Zenon, <1>18, <1>c, <1>n DEF pause_assert, workerOnly, clientVars, ClientTypes
    <2>2. WorkerTypes'
      BY Zenon, <1>18, <1>c, <1>n DEF pause_assert, workerOnly, clientVars, flags, snap, WorkerTypes, WorkerPc
    <2>3. BarrierTypes'
      BY Zenon, <1>18, <1>c, <1>n DEF pause_assert, workerOnly, clientVars, barriers, BarrierTypes
    <2>4. HistoryTypes'
      BY Zenon, <1>18, <1>c DEF pause_assert, workerOnly, clientVars, histories, HistoryTypes
    <2> QED
      BY Zenon, <2>1, <2>2, <2>3, <2>4, <1>t
  <1>19. ASSUME NEW w \in Ids, post_snapshot(w)
        PROVE  TypeOK'
    <2>1. ClientTypes'
      BY Zenon, <1>19, <1>c, <1>n DEF post_snapshot, PauseAll, workerOnly, clientVars, ClientTypes
    <2>2. WorkerTypes'
      <3>1. pool \in SUBSET Ids /\ left \in [Callers -> SUBSET Ids] /\ pausing \subseteq Callers
        BY Zenon, <1>c DEF ClientTypes, WorkerTypes
      <3>2. left' \in [Callers -> SUBSET Ids] /\ pausing' \subseteq Callers
        BY Zenon, <1>19, <3>1 DEF post_snapshot, PauseAll, workerOnly, clientVars, Callers
      <3>3. pause' \in [Ids -> BOOLEAN]
        BY Zenon, <1>19 DEF post_snapshot, PauseAll, workerOnly, clientVars
      <3>4. wpc' \in [Ids -> WorkerPc] /\ terminate' \in [Ids -> BOOLEAN]
        BY Zenon, <1>19, <1>c DEF post_snapshot, PauseAll, workerOnly, clientVars, WorkerTypes, WorkerPc
      <3> QED
        BY Zenon, <3>2, <3>3, <3>4 DEF WorkerTypes
    <2>3. BarrierTypes'
      BY Zenon, <1>19, <1>c, <1>n DEF post_snapshot, PauseAll, workerOnly, clientVars, barriers, BarrierTypes
    <2>4. HistoryTypes'
      BY Zenon, <1>19, <1>c DEF post_snapshot, PauseAll, workerOnly, clientVars, histories, HistoryTypes
    <2> QED
      BY Zenon, <2>1, <2>2, <2>3, <2>4, <1>t
  <1>20. ASSUME NEW w \in Ids, post_run(w)
        PROVE  TypeOK'
    <2>1. ClientTypes'
      BY Zenon, <1>20, <1>c, <1>n DEF post_run, workerOnly, clientVars, ClientTypes
    <2>2. WorkerTypes'
      BY Zenon, <1>20, <1>c, <1>n DEF post_run, workerOnly, clientVars, flags, snap, WorkerTypes, WorkerPc
    <2>3. BarrierTypes'
      BY Zenon, <1>20, <1>c, <1>n DEF post_run, workerOnly, clientVars, barriers, BarrierTypes
    <2>4. HistoryTypes'
      BY Zenon, <1>20, <1>c DEF post_run, workerOnly, clientVars, histories, HistoryTypes
    <2> QED
      BY Zenon, <2>1, <2>2, <2>3, <2>4, <1>t
  <1>21. ASSUME NEW a \in Callers, NEW w \in Ids, pause_next(a, w)
        PROVE  TypeOK'
    <2>1. ClientTypes'
      BY Zenon, <1>21, <1>c, <1>n DEF pause_next, workerOnly, clientVars, ClientTypes
    <2>2. WorkerTypes'
      BY Zenon, <1>21, <1>c, <1>n DEF pause_next, workerOnly, clientVars, flags, snap, WorkerTypes, WorkerPc
    <2>3. BarrierTypes'
      BY Zenon, <1>21, <1>c, <1>n DEF pause_next, workerOnly, clientVars, barriers, BarrierTypes
    <2>4. HistoryTypes'
      BY Zenon, <1>21, <1>c DEF pause_next, workerOnly, clientVars, histories, HistoryTypes
    <2> QED
      BY Zenon, <2>1, <2>2, <2>3, <2>4, <1>t
  <1>22. ASSUME NEW a \in Callers, NEW w \in Ids, pause_forever(a, w)
        PROVE  TypeOK'
    <2>1. ClientTypes'
      BY Zenon, <1>22, <1>c, <1>n DEF pause_forever, Callers, Client, Worker0, ClientTypes
    <2>2. WorkerTypes'
      BY Zenon, <1>22, <1>c, <1>n DEF pause_forever, Callers, Client, Worker0, flags, snap, WorkerTypes, WorkerPc
    <2>3. BarrierTypes'
      BY Zenon, <1>22, <1>c, <1>n DEF pause_forever, Callers, Client, Worker0, barriers, BarrierTypes
    <2>4. HistoryTypes'
      BY Zenon, <1>22, <1>c DEF pause_forever, Callers, Client, Worker0, histories, HistoryTypes
    <2> QED
      BY Zenon, <2>1, <2>2, <2>3, <2>4, <1>t
  <1>23. ASSUME NEW a \in Callers, resume(a)
        PROVE  TypeOK'
    <2>1. ClientTypes'
      BY Zenon, <1>23, <1>c, <1>n DEF resume, Callers, Client, Worker0, ClientTypes
    <2>2. WorkerTypes'
      BY Zenon, <1>23, <1>c, <1>n DEF resume, Callers, Client, Worker0, flags, snap, WorkerTypes, WorkerPc
    <2>3. BarrierTypes'
      <3>1. cpc' # "none" /\ Crew' = Crew
        <4>1. CASE a = Client
          BY Zenon, <1>23, <4>1, <1>k DEF resume, Roles, Members, Crew
        <4>2. CASE a # Client
          <5>1. wpc[0] = "snapshot" /\ cpc' = cpc /\ pool' = pool /\ hot' = hot /\ worker_counter' = worker_counter
            BY Zenon, <1>23, <4>2, <1>k DEF resume, Callers, Roles
          <5>2. 0 \in Members
            BY Zenon, <5>1, <1>n, <1>k DEF Known
          <5> QED
            BY Zenon, <5>1, <5>2, <1>k DEF Members, Crew, Seating
        <4> QED
          BY Zenon, <4>1, <4>2
      <3>2. Cardinality(Among(Crew, wpc', Over)) \in Nat /\ Cardinality(Among(Crew, wpc', Over)) <= NumWorkers
        BY <1>k, <1>n, AmongBound
      <3>3. post_barrier' = Cardinality(Among(Crew, wpc', Over)) + Closed' /\ Closed' \in 0 .. 1
        BY <3>1, CountedStep DEF Counted, Closed
      <3>4. post_barrier' \in 0 .. NumWorkers + 1
        BY <3>2, <3>3, <1>n
      <3> QED
        BY Zenon, <1>23, <3>4, <1>c, <1>n DEF resume, Callers, Client, Worker0, BarrierTypes
    <2>4. HistoryTypes'
      BY Zenon, <1>23, <1>c DEF resume, Callers, Client, Worker0, histories, HistoryTypes
    <2> QED
      BY Zenon, <2>1, <2>2, <2>3, <2>4, <1>t
  <1>24. CASE UNCHANGED vars
    <2>1. ClientTypes'
      BY Zenon, <1>24, <1>c, <1>n DEF vars, ClientTypes
    <2>2. WorkerTypes'
      BY Zenon, <1>24, <1>c, <1>n DEF vars, flags, snap, WorkerTypes, WorkerPc
    <2>3. BarrierTypes'
      BY Zenon, <1>24, <1>c, <1>n DEF vars, barriers, BarrierTypes
    <2>4. HistoryTypes'
      BY Zenon, <1>24, <1>c DEF vars, histories, HistoryTypes
    <2> QED
      BY Zenon, <2>1, <2>2, <2>3, <2>4, <1>t
  <1> QED
    BY Zenon, <1>1, <1>2, <1>3, <1>4, <1>5, <1>6, <1>7, <1>8, <1>9, <1>10, <1>11, <1>12,
       <1>13, <1>14, <1>15, <1>16, <1>17, <1>18, <1>19, <1>20, <1>21, <1>22, <1>23, <1>24
       DEF Next, worker, snapshotting, client, loop_end, iterations_end

(* The invariant holds before the first init(). *)
LEMMA LifeInit == Init => LifeInv
PROOF
  <1> SUFFICES ASSUME Init
               PROVE  LifeInv
    BY Zenon
  <1>n. /\ 0 \in Ids /\ Ids \subseteq Nat /\ Cardinality(Ids) \in Nat
        /\ NumWorkers \in Nat /\ MaxPlugged \in Nat /\ MaxRounds \in Nat /\ MaxSnapshots \in Nat
    BY IdsFacts, WorkerPoolAssumption
  <1>m. Members = {} /\ Crew = {} /\ hot = {} /\ cpc = "none"
    BY Zenon DEF Init, Members, Crew
  <1>1. ClientTypes /\ BarrierTypes
    BY <1>n DEF Init, ClientTypes, BarrierTypes
  <1>h. HistoryTypes
    BY Zenon DEF Init, HistoryTypes
  <1>2. WorkerTypes
    BY Zenon DEF Init, WorkerTypes, WorkerPc
  <1>3. TypeOK
    BY Zenon, <1>1, <1>h, <1>2 DEF TypeOK, ClientTypes, WorkerTypes, BarrierTypes, HistoryTypes
  <1>4. Known
    BY <1>m, <1>n DEF Init, Known
  <1>5. Bounded
    BY <1>m, <1>n, FS_EmptySet DEF Init, Bounded
  <1>6. Counted /\ Seating
    BY Zenon, <1>m DEF Init, Counted, Seating, Creating
  <1>7. Roles
    BY Zenon, <1>m, <1>n DEF Init, Roles, Callers, Client, Worker0, Waiting
  <1>8. Order
    BY Zenon, <1>m, <1>n DEF Init, Order
  <1>9. NobodyPaused
    BY Zenon, <1>n DEF Init, NobodyPaused
  <1> QED
    BY Zenon, <1>3, <1>4, <1>5, <1>6, <1>7, <1>8, <1>9 DEF LifeInv

(* The inductive invariant: what the barriers count, who is where, and the
   order they enforce, in every behaviour of the pool. *)
THEOREM LifeInvariant == Spec => []LifeInv
PROOF
  <1>1. Init => LifeInv
    BY Zenon, LifeInit
  <1>2. LifeInv /\ [Next]_vars => LifeInv'
    BY Zenon, TypeStep, KnownStep, BoundedStep, CountedStep, SeatingStep, RolesStep, OrderStep, PausedStep DEF LifeInv
  <1> QED
    BY <1>1, <1>2, PTL DEF Spec

(* No benchmark worker runs a transaction while another one still loads,
   unless one was counted at pre_barrier before create_worker put it into the
   pool, for any number of workers, rounds and hot-plugged workers. *)
THEOREM LoadingComesFirst == Spec => []LoadedBeforeRun
PROOF
  <1>1. LifeInv => LoadedBeforeRun
    <2> SUFFICES ASSUME LifeInv, ~early, NEW w \in pool \ hot, NEW v \in pool \ hot,
                        Running(w), ~terminate[w]
                 PROVE  started /\ wpc[v] \notin {"boot", "load"}
      BY Zenon DEF LoadedBeforeRun
    <2>1. w \in Crew /\ v \in Crew
      BY Zenon DEF Crew, Members
    <2>2. started
      BY Zenon, <2>1 DEF LifeInv, Order, Running, Loading, Waiting
    <2>3. ~Creating
      BY Zenon, <2>2 DEF LifeInv, Seating
    <2> QED
      BY Zenon, <2>1, <2>2, <2>3 DEF LifeInv, Order, Loading
  <1> QED
    BY <1>1, LifeInvariant, PTL

(* Neither the client's snapshots nor the closing one of worker 0 meet a
   running worker, and no worker fails the assertion against pausing, but for
   the exceptions PoolInv names. *)
THEOREM SnapshotsMeetNobody == Spec => []PoolInv
PROOF
  <1>1. LifeInv => PoolInv
    <2> SUFFICES ASSUME LifeInv
                 PROVE  ClosingSnapshotAlone
      BY Zenon DEF LifeInv, PoolInv
    <2> SUFFICES ASSUME hot = {}, ~early, Worker0 \in pausing, NEW w \in Ids
                 PROVE  ~Running(w)
      BY Zenon DEF ClosingSnapshotAlone
    <2>1. \A v \in Members : wpc[v] \in Over
      BY Zenon DEF LifeInv, Roles, Order
    <2>2. w \notin Members => wpc[w] \in {"none", "terminated"}
      BY Zenon DEF LifeInv, Known
    <2> QED
      BY Zenon, <2>1, <2>2 DEF Running, Over
  <1> QED
    BY <1>1, LifeInvariant, PTL

=============================================================================
