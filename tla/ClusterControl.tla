--------------------------- MODULE ClusterControl ---------------------------
(***************************************************************************)
(* The control plane of a cluster: executors register with the primary,    *)
(* the primary broadcasts statements to them and collects the status       *)
(* notifications they send back, and either side may shut down.            *)
(*                                                                         *)
(* A remote call may fail on its way out or on its way back, an executor   *)
(* may crash, tasks of an executor's thread pool run in any order.  Each   *)
(* fault is drawn from a budget.  A broadcast walks the map of connections *)
(* without the registration lock, one remote call per step.                *)
(***************************************************************************)
EXTENDS Integers, Sequences, FiniteSets

CONSTANTS
  Executors,  \* the secondary nodes
  Queries,    \* query uuids
  Budgets     \* bounds, one of which a behaviour keeps: broadcasts, faults (lost
              \* calls, crashes and failing statements) and decisions to leave

ASSUME ClusterControlAssumption ==
  Budgets \subseteq [casts : Nat, faults : Nat, leaves : Nat]

Ids == Nat \ {0}
Kinds == {"prepare", "execute", "prepare-execute"}
NoCast == [kind |-> "none", n |-> 0]

VARIABLES
  (* the primary *)
  primary,     \* "idle", "cast", "stop" (inside shutdownServer) or "down"
  cast,        \* the broadcast under way, or the last: its kind, query and number
  iter,        \* the id its iterator stands on, 0 at the end
  client_conn, \* id -> executor
  executors,   \* the vector of NodeInfo, as <<id, executor>>
  buffer,      \* the vector's allocation: number of moves so far, and room
  exec_id_map, \* id -> pointer into the vector: allocation and position
  exec_address_map, \* the executors whose address has an entry
  status,      \* query_status_map
  executor_id_ctr,
  (* the executors *)
  node,        \* "off", "listening", "in", "stopped", "gone" or "crashed"
  id,          \* self_executor_id
  terminate,   \* ClusterManager::terminate
  told,        \* a SHUTDOWN command waits in the thread pool
  prepared,    \* LocalCommandProvider's prepared statements
  tasks,       \* statements in the thread pool
  wire,        \* notifications on their way to the primary
  (* faults and histories *)
  budget,      \* the bounds of this behaviour
  faults,      \* faults so far
  leaves,      \* decisions to leave so far
  due,         \* executors connected when the last broadcast or shutdown began
  got,         \* executors the last broadcast or shutdown reached
  torn,        \* an entry of client_conn was erased under the iterator
  stale,       \* exec_id_map led to freed memory or to another node
  overlap,     \* a broadcast began before the answers to an earlier one were in
  dead         \* the primary failed

connVars == <<client_conn, executors, buffer, exec_id_map, exec_address_map, executor_id_ctr>>
castVars == <<primary, cast, iter, due, got>>
nodeVars == <<node, id, terminate, told, prepared, tasks, wire>>
histories == <<torn, stale, overlap, dead>>
vars == <<connVars, castVars, nodeVars, status, budget, faults, leaves, histories>>

Init ==
  /\ primary = "idle" /\ cast = NoCast /\ iter = 0
  /\ client_conn = <<>> /\ executors = <<>> /\ buffer = [moves |-> 0, room |-> 0]
  /\ exec_id_map = <<>> /\ exec_address_map = {} /\ executor_id_ctr = 0
  /\ status = [q \in Queries |-> {}]
  /\ node = [e \in Executors |-> "off"]
  /\ id = [e \in Executors |-> 0]
  /\ terminate = [e \in Executors |-> FALSE]
  /\ told = {}
  /\ prepared = [e \in Executors |-> {}]
  /\ tasks = [e \in Executors |-> {}]
  /\ wire = {}
  /\ budget \in Budgets /\ faults = 0 /\ leaves = 0 /\ due = {} /\ got = {}
  /\ torn = FALSE /\ stale = FALSE /\ overlap = FALSE /\ dead = FALSE

Fault == faults < budget.faults /\ faults' = faults + 1
MayLeave == leaves < budget.leaves /\ leaves' = leaves + 1
PrimaryServes == primary # "down"

Without(f, i) == [j \in DOMAIN f \ {i} |-> f[j]]
With(f, i, x) == [j \in DOMAIN f \cup {i} |-> IF j = i THEN x ELSE f[j]]

-----------------------------------------------------------------------------
(* Registration *)

startServer(e) ==
  /\ node[e] = "off"
  /\ node' = [node EXCEPT ![e] = "listening"]
  /\ UNCHANGED <<connVars, castVars, id, terminate, told, prepared, tasks, wire, status, faults, histories, budget, leaves>>

(* registerSelfToPrimary and the primary's registerExecutor, under its lock.  The
   vector moves when it is full; the pointers taken before are not renewed. *)
registerExecutor(e) ==
  /\ node[e] = "listening" /\ PrimaryServes
  /\ LET i == executor_id_ctr + 1
         full == Len(executors) = buffer.room
         moves == IF full THEN buffer.moves + 1 ELSE buffer.moves
     IN /\ executor_id_ctr' = i
        /\ executors' = Append(executors, <<i, e>>)
        /\ buffer' = [moves |-> moves,
                      room |-> IF ~full THEN buffer.room ELSE IF buffer.room = 0 THEN 1 ELSE 2 * buffer.room]
        /\ exec_id_map' = With(exec_id_map, i, [moves |-> moves, at |-> Len(executors) + 1])
        /\ client_conn' = With(client_conn, i, e)
        /\ id' = [id EXCEPT ![e] = i]
  /\ exec_address_map' = exec_address_map \cup {e}
  /\ node' = [node EXCEPT ![e] = "in"]
  /\ UNCHANGED <<castVars, terminate, told, prepared, tasks, wire, status, faults, histories, budget, leaves>>

(* A failed registration throws in the listener thread. *)
registration_fails(e) ==
  /\ node[e] = "listening"
  /\ IF PrimaryServes THEN Fault ELSE UNCHANGED faults
  /\ node' = [node EXCEPT ![e] = "crashed"]
  /\ UNCHANGED <<connVars, castVars, id, terminate, told, prepared, tasks, wire, status, histories, budget, leaves>>

-----------------------------------------------------------------------------
(* Broadcasts *)

(* Where the iterator goes from i: to the least greater id, 0 at the end. *)
Next_id(i) ==
  LET behind == {j \in DOMAIN client_conn : j > i}
  IN  IF behind = {} THEN {0} ELSE {j \in behind : \A k \in behind : j <= k}

Outstanding(q) ==
  (\E e \in Executors : \E t \in tasks[e] : t.q = q) \/ (\E m \in wire : m.q = q)

(* broadcastPrepareQuery, broadcastExecuteQuery, broadcastPrepareExecuteQuery: the
   statuses of an earlier broadcast are cleared, then the connections are walked. *)
broadcastQuery(kind, q) ==
  /\ primary = "idle" /\ cast.n < budget.casts
  /\ cast' = [kind |-> kind, q |-> q, n |-> cast.n + 1]
  /\ status' = [status EXCEPT ![q] = {}]
  /\ overlap' = (overlap \/ Outstanding(q))
  /\ iter' \in Next_id(0)
  /\ primary' = "cast"
  /\ due' = {client_conn[i] : i \in DOMAIN client_conn} /\ got' = {}
  /\ UNCHANGED <<connVars, nodeVars, faults, torn, stale, dead, budget, leaves>>

(* Variant: the iterator is moved on twice. *)
advance_twice ==
  IF iter \in DOMAIN client_conn
    THEN (\E j \in Next_id(iter) : iter' \in IF j = 0 THEN {0} ELSE Next_id(j)) /\ UNCHANGED <<torn, dead>>
    ELSE torn' = TRUE /\ dead' \in BOOLEAN /\ iter' \in {0} \cup DOMAIN client_conn

(* ++it; from an erased entry it leads anywhere.  A step of the iterator is atomic
   here; in the code it may also meet the tree in the middle of the insertion or the
   erasure of another entry, which nothing excludes. *)
advance ==
  IF iter \in DOMAIN client_conn
    THEN iter' \in Next_id(iter) /\ UNCHANGED <<torn, dead>>
    ELSE torn' = TRUE /\ dead' \in BOOLEAN /\ iter' \in {0} \cup DOMAIN client_conn

(* The executor the iterator stands on; the stub of an erased entry is gone. *)
Callee == IF iter \in DOMAIN client_conn THEN {client_conn[iter]} ELSE {}

(* Variant: a call whose reply fails is made again. *)
call_again ==
  /\ primary = "cast" /\ iter # 0
  /\ \E e \in Callee :
       /\ node[e] = "in"
       /\ tasks' = [tasks EXCEPT ![e] = @ \cup {cast}]
       /\ got' = got \cup {e}
  /\ advance \/ UNCHANGED <<iter, torn, dead>>
  /\ UNCHANGED <<connVars, primary, cast, due, node, id, terminate, told, prepared, wire, status,
                 faults, stale, overlap, budget, leaves>>

(* A call arrives: prepareStatement or executeStatement puts a task into the thread
   pool and answers. *)
call ==
  /\ primary = "cast" /\ iter # 0
  /\ \E e \in Callee :
       /\ node[e] = "in"
       /\ tasks' = [tasks EXCEPT ![e] = @ \cup {cast}]
       /\ got' = got \cup {e}
  /\ advance
  /\ UNCHANGED <<connVars, primary, cast, due, node, id, terminate, told, prepared, wire, status,
                 faults, stale, overlap, budget, leaves>>

(* A call fails: the broadcast goes on with the next executor. *)
call_fails ==
  /\ primary = "cast" /\ iter # 0
  /\ IF \E e \in Callee : node[e] = "in" THEN Fault ELSE UNCHANGED faults
  /\ advance
  /\ UNCHANGED <<connVars, primary, cast, due, got, nodeVars, status, stale, overlap, budget, leaves>>

broadcast_returns ==
  /\ primary = "cast" /\ iter = 0
  /\ primary' = "idle"
  /\ UNCHANGED <<connVars, cast, iter, due, got, nodeVars, status, faults, histories, budget, leaves>>

-----------------------------------------------------------------------------
(* Statements on an executor: tasks of its thread pool, in any order *)

Done(e, t) == tasks' = [tasks EXCEPT ![e] = @ \ {t}]
Report(e, t, s) == wire' = wire \cup {[q |-> t.q, st |-> s, from |-> e, n |-> t.n]}
Alive(e) == node[e] \in {"in", "stopped", "gone"}
taskUnchanged == <<connVars, castVars, node, id, terminate, told, status, histories>>

prepareStatement(e, t) ==
  /\ Alive(e) /\ t \in tasks[e] /\ t.kind = "prepare"
  /\ prepared' = [prepared EXCEPT ![e] = @ \cup {t.q}]
  /\ Report(e, t, "PREPARED") /\ Done(e, t)
  /\ UNCHANGED <<taskUnchanged, faults, budget, leaves>>

prepareStatement_fails(e, t) ==
  /\ Alive(e) /\ t \in tasks[e] /\ t.kind = "prepare"
  /\ Fault
  /\ Report(e, t, "ERROR") /\ Done(e, t)
  /\ UNCHANGED <<taskUnchanged, prepared, budget, leaves>>

executeStatement(e, t) ==
  /\ Alive(e) /\ t \in tasks[e] /\ t.kind # "prepare" /\ t.q \in prepared[e]
  /\ Report(e, t, "EXECUTED") /\ Done(e, t)
  /\ UNCHANGED <<taskUnchanged, prepared, faults, budget, leaves>>

(* The statement throws: the exception ends the task, and nothing is sent. *)
executeStatement_fails(e, t) ==
  /\ Alive(e) /\ t \in tasks[e] /\ t.kind # "prepare" /\ t.q \in prepared[e]
  /\ Fault
  /\ Done(e, t)
  /\ UNCHANGED <<taskUnchanged, prepared, wire, budget, leaves>>

(* Nothing was prepared under the uuid: runPreparedStatement throws
   std::out_of_range, which is not the exception executeStatement expects. *)
executeStatement_unprepared(e, t) ==
  /\ Alive(e) /\ t \in tasks[e] /\ t.kind # "prepare" /\ t.q \notin prepared[e]
  /\ Done(e, t)
  /\ UNCHANGED <<taskUnchanged, prepared, wire, faults, budget, leaves>>

(* Variant: a status is kept only if there is one already. *)
QueryStatus_first(m) ==
  /\ m \in wire /\ PrimaryServes
  /\ wire' = wire \ {m}
  /\ status' = [status EXCEPT ![m.q] = IF @ = {} THEN {} ELSE @ \cup {m}]
  /\ UNCHANGED <<connVars, castVars, node, id, terminate, told, prepared, tasks, faults, histories, budget, leaves>>

(* notifyQueryStatus and the primary's _updateQueryStatus *)
QueryStatus(m) ==
  /\ m \in wire /\ PrimaryServes
  /\ wire' = wire \ {m}
  /\ status' = [status EXCEPT ![m.q] = @ \cup {m}]
  /\ UNCHANGED <<connVars, castVars, node, id, terminate, told, prepared, tasks, faults, histories, budget, leaves>>

QueryStatus_fails(m) ==
  /\ m \in wire
  /\ IF PrimaryServes THEN Fault ELSE UNCHANGED faults
  /\ wire' = wire \ {m}
  /\ UNCHANGED <<connVars, castVars, node, id, terminate, told, prepared, tasks, status, histories, budget, leaves>>

-----------------------------------------------------------------------------
(* Leaving *)

(* What the pointer for i leads to: the vector's element if the vector is where it
   was and as long as it was, otherwise freed memory. *)
Deref(i) ==
  LET p == exec_id_map[i]
  IN IF p.moves = buffer.moves /\ p.at <= Len(executors) THEN {executors[p.at][2]} ELSE Executors

(* The vector without the element of id i: a registration never gives an id
   twice, so there is no other. *)
Erased(s, i) ==
  IF \E k \in 1 .. Len(s) : s[k][1] = i
    THEN LET at == CHOOSE k \in 1 .. Len(s) : s[k][1] = i
         IN  [k \in 1 .. Len(s) - 1 |-> IF k < at THEN s[k] ELSE s[k + 1]]
    ELSE s

(* Variant: the address keeps its entry. *)
updateNodeStatus_address(i) ==
  /\ client_conn' = Without(client_conn, i)
  /\ executors' = Erased(executors, i)
  /\ exec_id_map' = Without(exec_id_map, i)
  /\ UNCHANGED <<exec_address_map, stale, dead>>

(* updateNodeStatus, under the registration lock: the address to erase is read
   through exec_id_map, which may fail if the memory is gone. *)
updateNodeStatus(i) ==
  /\ client_conn' = Without(client_conn, i)
  /\ executors' = Erased(executors, i)
  /\ exec_id_map' = Without(exec_id_map, i)
  /\ \E e \in Deref(i) :
       /\ exec_address_map' = exec_address_map \ {e}
       /\ stale' = (stale \/ Cardinality(Deref(i)) > 1 \/ id[e] # i)
  /\ dead' \in {FALSE} \cup {stale'}

(* disconnect() of an executor, also when its process ends: the primary is told, ... *)
disconnect(e) ==
  /\ ~terminate[e]
  /\ \/ node[e] = "in" /\ MayLeave
     \/ node[e] = "stopped" /\ UNCHANGED leaves
  /\ terminate' = [terminate EXCEPT ![e] = TRUE]
  /\ \/ /\ PrimaryServes
        /\ updateNodeStatus(id[e])
        /\ UNCHANGED faults
     \/ /\ IF PrimaryServes THEN Fault ELSE UNCHANGED faults
        /\ UNCHANGED <<client_conn, executors, exec_id_map, exec_address_map, stale, dead>>
  /\ UNCHANGED <<buffer, executor_id_ctr, castVars, node, id, told, prepared, tasks, wire, status,
                 torn, overlap, budget>>

(* Before the registration there is no connection to tell the primary through. *)
disconnect_unregistered(e) ==
  /\ node[e] = "listening" /\ MayLeave
  /\ node' = [node EXCEPT ![e] = "crashed"]
  /\ UNCHANGED <<connVars, castVars, id, terminate, told, prepared, tasks, wire, status, faults, histories, budget>>

(* ... then its server is shut down. *)
disconnect_server(e) ==
  /\ terminate[e] /\ node[e] \in {"in", "stopped"}
  /\ node' = [node EXCEPT ![e] = "gone"]
  /\ UNCHANGED <<connVars, castVars, id, terminate, told, prepared, tasks, wire, status, faults, histories, budget, leaves>>

(* shutdownServer of the primary: SHUTDOWN to every connection, ... *)
shutdownServer ==
  /\ primary = "idle" /\ MayLeave
  /\ primary' = "stop"
  /\ iter' \in Next_id(0)
  /\ due' = {client_conn[i] : i \in DOMAIN client_conn} /\ got' = {}
  /\ UNCHANGED <<connVars, cast, nodeVars, status, faults, histories, budget>>

sendCommand ==
  /\ primary = "stop" /\ iter # 0
  /\ \E e \in Callee :
       /\ node[e] = "in"
       /\ told' = told \cup {e}
       /\ got' = got \cup {e}
  /\ advance
  /\ UNCHANGED <<connVars, primary, cast, due, node, id, terminate, prepared, tasks, wire, status,
                 faults, stale, overlap, budget, leaves>>

sendCommand_fails ==
  /\ primary = "stop" /\ iter # 0
  /\ IF \E e \in Callee : node[e] = "in" THEN Fault ELSE UNCHANGED faults
  /\ advance
  /\ UNCHANGED <<connVars, primary, cast, due, got, nodeVars, status, stale, overlap, budget, leaves>>

(* ... the connections are cleared and the server stops. *)
shutdown_returns ==
  /\ primary = "stop" /\ iter = 0
  /\ client_conn' = <<>>
  /\ primary' = "down"
  /\ UNCHANGED <<executors, buffer, exec_id_map, exec_address_map, executor_id_ctr, cast, iter, due,
                 got, nodeVars, status, faults, histories, budget, leaves>>

(* The command's task: shutdownServer(true) of the executor tells nobody. *)
shutdownServer_rpc(e) ==
  /\ e \in told /\ Alive(e)
  /\ told' = told \ {e}
  /\ node' = [node EXCEPT ![e] = IF @ = "in" THEN "stopped" ELSE @]
  /\ UNCHANGED <<connVars, castVars, id, terminate, prepared, tasks, wire, status, faults, histories, budget, leaves>>

crash(e) ==
  /\ node[e] \in {"listening", "in", "stopped"} /\ Fault
  /\ node' = [node EXCEPT ![e] = "crashed"]
  /\ wire' = {m \in wire : m.from # e}
  /\ UNCHANGED <<connVars, castVars, id, terminate, told, prepared, tasks, status, histories, budget, leaves>>

-----------------------------------------------------------------------------
primary_step == call \/ call_fails \/ broadcast_returns \/ sendCommand \/ sendCommand_fails \/ shutdown_returns

task_step(e) ==
  \E t \in tasks[e] : \/ prepareStatement(e, t) \/ prepareStatement_fails(e, t)
                      \/ executeStatement(e, t) \/ executeStatement_fails(e, t)
                      \/ executeStatement_unprepared(e, t)

notify_step(e) == \E m \in wire : m.from = e /\ (QueryStatus(m) \/ QueryStatus_fails(m))

Next ==
  /\ ~dead
  /\ \/ \E kind \in Kinds, q \in Queries : broadcastQuery(kind, q)
     \/ shutdownServer \/ primary_step
     \/ \E e \in Executors :
          \/ startServer(e) \/ registerExecutor(e) \/ registration_fails(e)
          \/ task_step(e) \/ notify_step(e)
          \/ disconnect(e) \/ disconnect_unregistered(e) \/ disconnect_server(e)
          \/ shutdownServer_rpc(e) \/ crash(e)

(* Threads that have something to do do it; nobody has to broadcast, join or leave. *)
Fairness ==
  /\ WF_vars(~dead /\ primary_step)
  /\ \A e \in Executors : /\ WF_vars(~dead /\ node[e] = "in" /\ task_step(e))
                          /\ WF_vars(~dead /\ notify_step(e))
                          /\ WF_vars(~dead /\ shutdownServer_rpc(e))
                          /\ WF_vars(~dead /\ disconnect_server(e))

Spec == Init /\ [][Next]_vars /\ Fairness

-----------------------------------------------------------------------------
(* Properties *)

Note == [q : Queries, st : {"PREPARED", "EXECUTED", "ERROR"}, from : Executors, n : Nat \ {0}]
Task == [kind : Kinds, q : Queries, n : Nat \ {0}]

(* Every variable keeps its type. *)
TypeOK ==
  /\ primary \in {"idle", "cast", "stop", "down"}
  /\ cast \in Task \/ (cast = NoCast /\ primary # "cast")
  /\ iter \in {0} \cup Ids
  /\ DOMAIN client_conn \subseteq Ids /\ \A i \in DOMAIN client_conn : client_conn[i] \in Executors
  /\ executors \in Seq(Ids \X Executors) /\ DOMAIN exec_id_map \subseteq Ids
  /\ \A i \in DOMAIN exec_id_map : exec_id_map[i] \in [moves : Nat, at : Nat \ {0}]
  /\ buffer \in [moves : Nat, room : Nat]
  /\ exec_address_map \subseteq Executors /\ executor_id_ctr \in {0} \cup Ids
  /\ status \in [Queries -> SUBSET Note] /\ wire \subseteq Note
  /\ node \in [Executors -> {"off", "listening", "in", "stopped", "gone", "crashed"}]
  /\ id \in [Executors -> {0} \cup Ids] /\ terminate \in [Executors -> BOOLEAN]
  /\ told \subseteq Executors /\ prepared \in [Executors -> SUBSET Queries]
  /\ tasks \in [Executors -> SUBSET Task]
  /\ due \subseteq Executors /\ got \subseteq Executors /\ faults \in Nat

(* When a broadcast is over, every executor that was connected when it began and
   does not leave has its task, if no call failed and nobody left under the
   iterator: executors that register meanwhile disturb nobody. *)
BroadcastReachesAll ==
  /\ primary = "idle" /\ cast # NoCast /\ faults = 0 /\ ~torn
  => \A e \in due : e \in got \/ node[e] # "in" \/ terminate[e]

(* Notifications, under way or received *)
Notes == wire \cup UNION {status[q] : q \in Queries}

(* An executor answers a broadcast at most once, and is then done with it, even when
   broadcasts overlap and its statements run in any order: whoever counts the answers
   to a broadcast counts executors.  (An iterator that is torn may lead back to an
   executor that was called before.) *)
AnsweredOnce ==
  ~torn => /\ \A e \in Executors : \A t, u \in tasks[e] : t.n = u.n => t = u
           /\ \A m \in Notes : \A t \in tasks[m.from] : t.n # m.n
           /\ \A m, l \in Notes : m.from = l.from /\ m.n = l.n => m = l
           /\ \A m \in wire : m \notin status[m.q]

(* The primary knows the addresses of exactly the executors it is connected to,
   as long as exec_id_map has led to the right node each time one left. *)
AddressesMatch ==
  ~stale /\ primary # "down" =>
    exec_address_map = {client_conn[i] : i \in DOMAIN client_conn}

(* A statement that is prepared where it is to be executed is answered: the client
   finds the executor's status, unless it has broadcast the query again, a call
   or the statement failed, or one of the two went down.  (An unprepared one is
   not: executeStatement would prepare it in the handler of an exception that
   nothing throws.) *)
StatementAnswered ==
  \A e \in Executors, q \in Queries, k \in UNION {1 .. b.casts : b \in Budgets} :
    (\E t \in tasks[e] : t.q = q /\ t.n = k /\ (t.kind = "prepare" \/ q \in prepared[e]))
      ~> \/ \E m \in status[q] : m.from = e /\ m.n = k
         \/ cast.n > k \/ faults > 0 \/ primary = "down" \/ node[e] # "in" \/ dead

(* A shutdown of the primary ends every executor that was connected when it began,
   if no call failed and nobody left under the iterator. *)
ShutdownReachesAll ==
  \A e \in Executors :
    (primary = "down" /\ e \in due) ~> (node[e] \in {"stopped", "gone"} \/ faults > 0 \/ torn \/ dead)

(* Ids are given once, in order; a connection belongs to the executor of its id;
   an executor that has not said goodbye has its entries, but for the connection
   of one whose primary is down. *)
Registered ==
  /\ \A e \in Executors :
       /\ id[e] <= executor_id_ctr
       /\ node[e] \in {"off", "listening"} => id[e] = 0
       /\ node[e] \in {"in", "stopped", "gone"} => id[e] # 0
       /\ \A f \in Executors : id[e] = id[f] /\ id[e] # 0 => e = f
       /\ id[e] # 0 /\ ~terminate[e] =>
            /\ id[e] \in DOMAIN exec_id_map
            /\ primary # "down" => id[e] \in DOMAIN client_conn
  /\ \A i \in DOMAIN client_conn : id[client_conn[i]] = i

(* Until broadcasts of a query overlap, every statement, notification and status of
   the query last broadcast is of that broadcast. *)
AnswersAreCurrent ==
  ~overlap /\ cast # NoCast =>
    /\ \A e \in Executors : \A t \in tasks[e] : t.q = cast.q => t.n = cast.n
    /\ \A m \in wire : m.q = cast.q => m.n = cast.n
    /\ \A m \in status[cast.q] : m.n = cast.n

(* Every executor a broadcast is due to was reached, has left, or is still ahead of
   the iterator. *)
Reached(e) == e \in got \/ node[e] # "in" \/ terminate[e]
IteratorAhead ==
  /\ \A e \in due : id[e] # 0
  /\ primary = "cast" /\ faults = 0 /\ ~torn =>
       \A e \in due : Reached(e) \/ (iter # 0 /\ iter <= id[e])

(* What is answered or to be answered was broadcast, to executors that are registered;
   those from the iterator on have nothing of the broadcast under way yet. *)
AnswersAhead ==
  /\ \A e \in Executors : \A t \in tasks[e] : t.n <= cast.n /\ id[e] # 0
  /\ \A m \in Notes : m.n <= cast.n /\ id[m.from] # 0
  /\ primary = "cast" /\ iter # 0 /\ ~torn =>
       /\ \A e \in Executors : \A t \in tasks[e] : id[e] >= iter => t.n # cast.n
       /\ \A m \in Notes : id[m.from] >= iter => m.n # cast.n

(* The invariant of the primary's tables: types, the addresses of registered
   executors fit the connections, and what registrations and broadcasts leave
   behind. *)
TablesInv == TypeOK /\ AddressesMatch /\ Registered /\ AnswersAreCurrent /\ IteratorAhead

(* What the primary asks for happens: statements are answered and shutdown
   reaches every executor. *)
RequestsTakeEffect == StatementAnswered /\ ShutdownReachesAll
=============================================================================
