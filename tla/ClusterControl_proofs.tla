----------------------- MODULE ClusterControl_proofs -----------------------
(***************************************************************************)
(* Proofs about ClusterControl, for any number of executors, queries and   *)
(* faults: the primary's tables fit, a broadcast reaches everybody, and    *)
(* each executor answers it at most once.                                  *)
(***************************************************************************)
EXTENDS ClusterControl, TLAPS

(* The time a leaf may take, so that no proof depends on the speed of the machine. *)
USE SMTT(60)

(* The iterator goes to the next connection, if there is one. *)
LEMMA NextId ==
  ASSUME TypeOK, NEW i \in {0} \cup Ids
  PROVE  \A n \in Next_id(i) :
           /\ n \in {0} \cup DOMAIN client_conn
           /\ \A j \in DOMAIN client_conn : j > i => n # 0 /\ n <= j
PROOF
  <1>1. DOMAIN client_conn \subseteq Nat \ {0}
    BY Zenon DEF TypeOK, Ids
  <1> QED
    BY Zenon, <1>1 DEF Next_id

-----------------------------------------------------------------------------
(* The primary walks its connections. *)
Walk ==
  \/ \E kind \in Kinds, q \in Queries : broadcastQuery(kind, q)
  \/ shutdownServer \/ call \/ call_fails \/ broadcast_returns \/ sendCommand \/ sendCommand_fails

(* A broadcast or a shutdown leaves the tables and the executors alone until the
   end. *)
LEMMA WalkFrame ==
  ASSUME Walk
  PROVE  UNCHANGED <<connVars, node, id, terminate>> /\ primary # "down" /\ primary' # "down"
PROOF
  <1>1. ASSUME NEW kind \in Kinds, NEW q \in Queries, broadcastQuery(kind, q)
        PROVE  UNCHANGED <<connVars, node, id, terminate>> /\ primary # "down" /\ primary' # "down"
    BY Zenon, <1>1 DEF broadcastQuery, nodeVars
  <1>2. CASE shutdownServer
    BY Zenon, <1>2 DEF shutdownServer, nodeVars
  <1>3. CASE call
    BY Zenon, <1>3 DEF call
  <1>4. CASE call_fails
    BY Zenon, <1>4 DEF call_fails, nodeVars
  <1>5. CASE broadcast_returns
    BY Zenon, <1>5 DEF broadcast_returns, nodeVars
  <1>6. CASE sendCommand
    BY Zenon, <1>6 DEF sendCommand
  <1>7. CASE sendCommand_fails
    BY Zenon, <1>7 DEF sendCommand_fails, nodeVars
  <1> QED
    BY Zenon, <1>1, <1>2, <1>3, <1>4, <1>5, <1>6, <1>7 DEF Walk

(* So do the statements and notifications of executors. *)
LEMMA TaskFrame ==
  ASSUME NEW e \in Executors, task_step(e) \/ notify_step(e)
  PROVE  UNCHANGED <<connVars, castVars, node, id, terminate, told, histories>>
PROOF
  <1>1. ASSUME NEW t, prepareStatement(e, t)
        PROVE  UNCHANGED <<connVars, castVars, node, id, terminate, told, histories>>
    BY Zenon, <1>1 DEF prepareStatement, taskUnchanged
  <1>2. ASSUME NEW t, prepareStatement_fails(e, t)
        PROVE  UNCHANGED <<connVars, castVars, node, id, terminate, told, histories>>
    BY Zenon, <1>2 DEF prepareStatement_fails, taskUnchanged
  <1>3. ASSUME NEW t, executeStatement(e, t)
        PROVE  UNCHANGED <<connVars, castVars, node, id, terminate, told, histories>>
    BY Zenon, <1>3 DEF executeStatement, taskUnchanged
  <1>4. ASSUME NEW t, executeStatement_fails(e, t)
        PROVE  UNCHANGED <<connVars, castVars, node, id, terminate, told, histories>>
    BY Zenon, <1>4 DEF executeStatement_fails, taskUnchanged
  <1>5. ASSUME NEW t, executeStatement_unprepared(e, t)
        PROVE  UNCHANGED <<connVars, castVars, node, id, terminate, told, histories>>
    BY Zenon, <1>5 DEF executeStatement_unprepared, taskUnchanged
  <1>6. ASSUME NEW m, QueryStatus(m) \/ QueryStatus_fails(m)
        PROVE  UNCHANGED <<connVars, castVars, node, id, terminate, told, histories>>
    BY Zenon, <1>6 DEF QueryStatus, QueryStatus_fails
  <1> QED
    BY Zenon, <1>1, <1>2, <1>3, <1>4, <1>5, <1>6 DEF task_step, notify_step

(* The steps of an executor that touch its registration. *)
Membership(e) ==
  \/ startServer(e) \/ registerExecutor(e) \/ registration_fails(e)
  \/ disconnect(e) \/ disconnect_unregistered(e) \/ disconnect_server(e)
  \/ shutdownServer_rpc(e) \/ crash(e)

(* Every step is one of these. *)
LEMMA Steps ==
  ASSUME [Next]_vars
  PROVE  \/ Walk \/ shutdown_returns
         \/ \E e \in Executors : task_step(e) \/ notify_step(e) \/ Membership(e)
         \/ UNCHANGED vars
BY Zenon DEF Next, primary_step, Walk, Membership
-----------------------------------------------------------------------------
(* The types, by the part of the state. *)
TypeCast ==
  /\ primary \in {"idle", "cast", "stop", "down"}
  /\ cast \in Task \/ (cast = NoCast /\ primary # "cast")
  /\ iter \in {0} \cup Ids
  /\ due \subseteq Executors /\ got \subseteq Executors

TypeConn ==
  /\ DOMAIN client_conn \subseteq Ids /\ \A i \in DOMAIN client_conn : client_conn[i] \in Executors
  /\ executors \in Seq(Ids \X Executors) /\ DOMAIN exec_id_map \subseteq Ids
  /\ \A i \in DOMAIN exec_id_map : exec_id_map[i] \in [moves : Nat, at : Nat \ {0}]
  /\ buffer \in [moves : Nat, room : Nat]
  /\ exec_address_map \subseteq Executors /\ executor_id_ctr \in {0} \cup Ids

TypeNode ==
  /\ node \in [Executors -> {"off", "listening", "in", "stopped", "gone", "crashed"}]
  /\ id \in [Executors -> {0} \cup Ids] /\ terminate \in [Executors -> BOOLEAN]
  /\ told \subseteq Executors

TypeWork ==
  /\ status \in [Queries -> SUBSET Note] /\ wire \subseteq Note
  /\ prepared \in [Executors -> SUBSET Queries] /\ tasks \in [Executors -> SUBSET Task]

LEMMA TypeParts == TypeOK <=> TypeCast /\ TypeConn /\ TypeNode /\ TypeWork /\ faults \in Nat
BY Zenon DEF TypeOK, TypeCast, TypeConn, TypeNode, TypeWork

LEMMA TypePartsNext == TypeOK' <=> TypeCast' /\ TypeConn' /\ TypeNode' /\ TypeWork' /\ faults' \in Nat
BY Zenon DEF TypeOK, TypeCast, TypeConn, TypeNode, TypeWork

(* What a registration changes. *)
LEMMA Registration ==
  ASSUME TypeOK, Registered, NEW e \in Executors, registerExecutor(e)
  PROVE  \E i \in Ids, p \in [moves : Nat, at : Nat \ {0}] :
           /\ i = executor_id_ctr + 1 /\ i = executor_id_ctr'
           /\ client_conn' = With(client_conn, i, e) /\ exec_id_map' = With(exec_id_map, i, p)
           /\ id[e] = 0 /\ id' = [id EXCEPT ![e] = i] /\ node' = [node EXCEPT ![e] = "in"]
           /\ exec_address_map' = exec_address_map \cup {e}
           /\ executors' = Append(executors, <<i, e>>) /\ buffer' \in [moves : Nat, room : Nat]
           /\ primary # "down" /\ UNCHANGED <<castVars, terminate, told, histories>>
PROOF
  <1> DEFINE full == Len(executors) = buffer.room
             moves == IF full THEN buffer.moves + 1 ELSE buffer.moves
             p == [moves |-> moves, at |-> Len(executors) + 1]
  <1>1. executor_id_ctr + 1 \in Ids
    BY DEF TypeOK, Ids
  <1>2. buffer \in [moves : Nat, room : Nat] /\ executors \in Seq(Ids \X Executors)
    BY Zenon DEF TypeOK
  <1>3. p \in [moves : Nat, at : Nat \ {0}]
    BY <1>2
  <1>4. /\ buffer' = [moves |-> moves, room |-> IF ~full THEN buffer.room
                                                ELSE IF buffer.room = 0 THEN 1 ELSE 2 * buffer.room]
        /\ exec_id_map' = With(exec_id_map, executor_id_ctr + 1, p)
    BY Zenon DEF registerExecutor
  <1>5. buffer' \in [moves : Nat, room : Nat]
    BY <1>2, <1>4
  <1>6. id[e] = 0
    BY Zenon DEF registerExecutor, Registered
  <1> HIDE DEF p
  <1>7. /\ executor_id_ctr' = executor_id_ctr + 1
        /\ client_conn' = With(client_conn, executor_id_ctr + 1, e)
        /\ id' = [id EXCEPT ![e] = executor_id_ctr + 1] /\ node' = [node EXCEPT ![e] = "in"]
        /\ exec_address_map' = exec_address_map \cup {e}
        /\ executors' = Append(executors, <<executor_id_ctr + 1, e>>)
        /\ primary # "down" /\ UNCHANGED <<castVars, terminate, told, histories>>
    BY Zenon DEF registerExecutor, PrimaryServes
  <1> QED
    BY ZenonT(60), <1>1, <1>3, <1>4, <1>5, <1>6, <1>7

(* What a call of updateNodeStatus changes, which an executor that has not said
   goodbye yet makes with its id. *)
LEMMA Goodbye ==
  ASSUME TypeOK, Registered, NEW e \in Executors, disconnect(e)
  PROVE  /\ ~terminate[e] /\ terminate' = [terminate EXCEPT ![e] = TRUE]
         /\ id[e] \in DOMAIN exec_id_map /\ node[e] \in {"in", "stopped"}
         /\ UNCHANGED <<buffer, executor_id_ctr, castVars, node, id, told, torn, overlap>>
         /\ \/ primary # "down" /\ updateNodeStatus(id[e])
            \/ UNCHANGED <<client_conn, executors, exec_id_map, exec_address_map, stale, dead>>
PROOF
  <1>1. ~terminate[e] /\ node[e] \in {"in", "stopped"}
    BY Zenon DEF disconnect
  <1>2. id[e] \in DOMAIN exec_id_map
    BY Zenon, <1>1 DEF Registered
  <1> QED
    BY Zenon, <1>1, <1>2 DEF disconnect, PrimaryServes
(* What Registered says of one executor. *)
RegisteredAt(e) ==
  /\ id[e] <= executor_id_ctr
  /\ node[e] \in {"off", "listening"} => id[e] = 0
  /\ node[e] \in {"in", "stopped", "gone"} => id[e] # 0
  /\ \A f \in Executors : id[e] = id[f] /\ id[e] # 0 => e = f
  /\ id[e] # 0 /\ ~terminate[e] =>
       /\ id[e] \in DOMAIN exec_id_map
       /\ primary # "down" => id[e] \in DOMAIN client_conn

(* Every step keeps ids, connections and executors in step. *)
LEMMA RegisteredStep ==
  ASSUME TypeOK, Registered, [Next]_vars
  PROVE  Registered'
PROOF
  <1>t. /\ id \in [Executors -> {0} \cup Ids] /\ terminate \in [Executors -> BOOLEAN]
        /\ node \in [Executors -> {"off", "listening", "in", "stopped", "gone", "crashed"}]
        /\ executor_id_ctr \in Nat /\ \A e \in Executors : id[e] \in Nat
        /\ \A i \in DOMAIN client_conn : client_conn[i] \in Executors
    BY DEF TypeOK, Ids
  <1>p. /\ \A f \in Executors : RegisteredAt(f)
        /\ \A i \in DOMAIN client_conn : id[client_conn[i]] = i
    BY Zenon DEF Registered, RegisteredAt
  <1>q. ASSUME \A f \in Executors : RegisteredAt(f)',
               \A i \in DOMAIN client_conn' : id'[client_conn'[i]] = i
        PROVE  Registered'
    BY Zenon, <1>q DEF Registered, RegisteredAt
  <1>n. ASSUME NEW e \in Executors, NEW s, node' = [node EXCEPT ![e] = s],
               s \in {"off", "listening"} => node[e] \in {"off", "listening"},
               s \in {"in", "stopped", "gone"} => node[e] \in {"in", "stopped", "gone"},
               UNCHANGED <<connVars, id, terminate, primary>>
        PROVE  Registered'
    <2>1. UNCHANGED <<client_conn, exec_id_map, executor_id_ctr, id, terminate, primary>>
      BY Zenon, <1>n DEF connVars
    <2>2. ASSUME NEW f \in Executors
          PROVE  RegisteredAt(f)'
      <3>1. RegisteredAt(f)
        BY Zenon, <1>p
      <3>2. /\ node'[f] \in {"off", "listening"} => node[f] \in {"off", "listening"}
            /\ node'[f] \in {"in", "stopped", "gone"} => node[f] \in {"in", "stopped", "gone"}
        BY Zenon, <1>n, <1>t
      <3> QED
        BY Zenon, <2>1, <3>1, <3>2 DEF RegisteredAt
    <2> QED
      BY Zenon, <1>p, <1>q, <2>1, <2>2
  <1>u. ASSUME UNCHANGED <<connVars, node, id, terminate>>, primary = "down" => primary' = "down"
        PROVE  Registered'
    <2>1. UNCHANGED <<client_conn, exec_id_map, executor_id_ctr, id, terminate, node>>
      BY Zenon, <1>u DEF connVars
    <2>2. ASSUME NEW f \in Executors
          PROVE  RegisteredAt(f)'
      <3>1. RegisteredAt(f)
        BY Zenon, <1>p
      <3> QED
        BY Zenon, <1>u, <2>1, <3>1 DEF RegisteredAt
    <2> QED
      BY Zenon, <1>p, <1>q, <2>1, <2>2
  <1>1. CASE Walk
    BY Zenon, <1>1, <1>u, WalkFrame
  <1>2. ASSUME NEW e \in Executors, task_step(e) \/ notify_step(e)
        PROVE  Registered'
    <2>1. UNCHANGED <<connVars, node, id, terminate, primary>>
      BY Zenon, <1>2, TaskFrame DEF castVars
    <2> QED
      BY Zenon, <1>u, <2>1
  <1>3. CASE shutdown_returns
    <2>1. /\ client_conn' = <<>> /\ primary' = "down"
          /\ UNCHANGED <<exec_id_map, executor_id_ctr, node, id, terminate>>
      BY Zenon, <1>3 DEF shutdown_returns, nodeVars
    <2>2. ASSUME NEW f \in Executors
          PROVE  RegisteredAt(f)'
      <3>1. RegisteredAt(f)
        BY Zenon, <1>p
      <3> QED
        BY Zenon, <2>1, <3>1 DEF RegisteredAt
    <2>3. DOMAIN client_conn' = {}
      BY <2>1
    <2> QED
      BY Zenon, <1>p, <1>q, <2>1, <2>2, <2>3
  <1>4. ASSUME NEW e \in Executors, registerExecutor(e)
        PROVE  Registered'
    <2>1. PICK i \in Ids, p \in [moves : Nat, at : Nat \ {0}] :
            /\ i = executor_id_ctr + 1 /\ i = executor_id_ctr'
            /\ client_conn' = With(client_conn, i, e) /\ exec_id_map' = With(exec_id_map, i, p)
            /\ id[e] = 0 /\ id' = [id EXCEPT ![e] = i] /\ node' = [node EXCEPT ![e] = "in"]
            /\ UNCHANGED <<castVars, terminate>>
      BY <1>4, Registration
    <2>2. /\ DOMAIN client_conn' = DOMAIN client_conn \cup {i} /\ client_conn'[i] = e
          /\ DOMAIN exec_id_map' = DOMAIN exec_id_map \cup {i}
          /\ \A j \in DOMAIN client_conn : j # i => client_conn'[j] = client_conn[j]
      BY Zenon, <2>1 DEF With
    <2>3. /\ id'[e] = i /\ i # 0 /\ node'[e] = "in" /\ UNCHANGED <<primary, terminate>>
          /\ \A f \in Executors : f # e => id'[f] = id[f] /\ id[f] # i /\ id[f] <= i /\ node'[f] = node[f]
      BY <1>t, <1>p, <2>1 DEF RegisteredAt, castVars
    <2>4. ASSUME NEW f \in Executors
          PROVE  RegisteredAt(f)'
      <3>1. CASE f = e
        BY <1>t, <2>1, <2>2, <2>3, <3>1 DEF RegisteredAt
      <3>2. CASE f # e
        <4>1. RegisteredAt(f)
          BY Zenon, <1>p
        <4>2. id'[f] <= executor_id_ctr'
          BY Zenon, <2>1, <2>3, <3>2
        <4>3. \A g \in Executors : id'[f] = id'[g] /\ id'[f] # 0 => f = g
          BY Zenon, <2>3, <3>2, <4>1 DEF RegisteredAt
        <4> QED
          BY Zenon, <2>2, <2>3, <3>2, <4>1, <4>2, <4>3 DEF RegisteredAt
      <3> QED
        BY Zenon, <3>1, <3>2
    <2>5. ASSUME NEW j \in DOMAIN client_conn'
          PROVE  id'[client_conn'[j]] = j
      <3>1. CASE j = i
        BY Zenon, <2>2, <2>3, <3>1
      <3>2. CASE j # i
        <4>1. j \in DOMAIN client_conn /\ client_conn'[j] = client_conn[j]
          BY Zenon, <2>2, <3>2
        <4>2. client_conn[j] # e
          BY Zenon, <1>p, <1>t, <2>1, <4>1, TypeParts DEF TypeConn, Ids
        <4> QED
          BY <1>p, <1>t, <2>3, <4>1, <4>2
      <3> QED
        BY Zenon, <3>1, <3>2
    <2> QED
      BY Zenon, <1>q, <2>4, <2>5
  <1>5. ASSUME NEW e \in Executors, disconnect(e)
        PROVE  Registered'
    <2>1. /\ terminate' = [terminate EXCEPT ![e] = TRUE]
          /\ UNCHANGED <<executor_id_ctr, castVars, node, id>>
          /\ \/ client_conn' = Without(client_conn, id[e]) /\ exec_id_map' = Without(exec_id_map, id[e])
             \/ UNCHANGED <<client_conn, exec_id_map>>
      BY Zenon, <1>5, Goodbye DEF updateNodeStatus
    <2>2. /\ DOMAIN client_conn' \subseteq DOMAIN client_conn
          /\ \A i \in DOMAIN client_conn : i # id[e] => i \in DOMAIN client_conn'
          /\ \A i \in DOMAIN exec_id_map : i # id[e] => i \in DOMAIN exec_id_map'
          /\ \A i \in DOMAIN client_conn' : client_conn'[i] = client_conn[i]
      BY Zenon, <2>1 DEF Without
    <2>3. terminate'[e] /\ \A f \in Executors : f # e => terminate'[f] = terminate[f]
      BY Zenon, <1>t, <2>1
    <2>4. ASSUME NEW f \in Executors
          PROVE  RegisteredAt(f)'
      <3>1. RegisteredAt(f) /\ UNCHANGED <<executor_id_ctr, primary, node, id>>
        BY Zenon, <1>p, <2>1 DEF castVars
      <3>2. id[f] # 0 /\ f # e => id[f] # id[e]
        BY Zenon, <3>1 DEF RegisteredAt
      <3> QED
        BY Zenon, <2>2, <2>3, <3>1, <3>2 DEF RegisteredAt
    <2>5. \A i \in DOMAIN client_conn' : id'[client_conn'[i]] = i
      BY Zenon, <1>p, <2>1, <2>2
    <2> QED
      BY Zenon, <1>p, <1>q, <2>1, <2>4, <2>5
  <1>6. ASSUME NEW e \in Executors, Membership(e), ~registerExecutor(e), ~disconnect(e)
        PROVE  Registered'
    <2>1. CASE startServer(e)
      BY Zenon, <2>1, <1>n DEF startServer, castVars
    <2>2. CASE registration_fails(e)
      BY Zenon, <2>2, <1>n DEF registration_fails, castVars
    <2>3. CASE disconnect_unregistered(e)
      BY Zenon, <2>3, <1>n DEF disconnect_unregistered, castVars
    <2>4. CASE disconnect_server(e)
      BY Zenon, <2>4, <1>n DEF disconnect_server, castVars
    <2>5. CASE shutdownServer_rpc(e)
      BY Zenon, <2>5, <1>n DEF shutdownServer_rpc, Alive, castVars
    <2>6. CASE crash(e)
      BY Zenon, <2>6, <1>n DEF crash, castVars
    <2> QED
      BY Zenon, <1>6, <2>1, <2>2, <2>3, <2>4, <2>5, <2>6 DEF Membership
  <1>7. CASE UNCHANGED vars
    BY Zenon, <1>7, <1>u DEF vars, nodeVars, castVars
  <1> QED
    BY Zenon, <1>1, <1>2, <1>3, <1>4, <1>5, <1>6, <1>7, Steps
-----------------------------------------------------------------------------
(* Every step keeps the types. *)
LEMMA ErasedType ==
  ASSUME NEW S, NEW s \in Seq(S), NEW i
  PROVE  Erased(s, i) \in Seq(S)
PROOF
  <1>1. CASE \E k \in 1 .. Len(s) : s[k][1] = i
    <2> DEFINE at == CHOOSE k \in 1 .. Len(s) : s[k][1] = i
    <2>1. at \in 1 .. Len(s)
      BY Zenon, <1>1
    <2>2. Erased(s, i) = [k \in 1 .. Len(s) - 1 |-> IF k < at THEN s[k] ELSE s[k + 1]]
      BY Zenon, <1>1 DEF Erased
    <2> HIDE DEF at
    <2>3. Len(s) \in Nat /\ Len(s) >= 1 /\ \A k \in 1 .. Len(s) : s[k] \in S
      BY <2>1
    <2>4. PICK n \in Nat : n = Len(s) - 1
      BY <2>3
    <2>5. \A k \in 1 .. n : (IF k < at THEN s[k] ELSE s[k + 1]) \in S
      BY <2>1, <2>3, <2>4
    <2>6. Erased(s, i) = [k \in 1 .. n |-> IF k < at THEN s[k] ELSE s[k + 1]]
      BY Zenon, <2>2, <2>4
    <2>7. Erased(s, i) \in [1 .. n -> S]
      BY Zenon, <2>5, <2>6
    <2> QED
      BY <2>7
  <1>2. CASE ~\E k \in 1 .. Len(s) : s[k][1] = i
    BY Zenon, <1>2 DEF Erased
  <1> QED
    BY Zenon, <1>1, <1>2

LEMMA AdvanceType ==
  ASSUME TypeOK, advance
  PROVE  iter' \in {0} \cup Ids
PROOF
  <1>1. iter \in {0} \cup Ids /\ DOMAIN client_conn \subseteq Ids
    BY Zenon DEF TypeOK
  <1> QED
    BY Zenon, <1>1, NextId DEF advance

LEMMA TypeCastStep ==
  ASSUME TypeOK, Registered, [Next]_vars
  PROVE  TypeCast'
PROOF
  <1>t. TypeCast /\ TypeConn
    BY Zenon, TypeParts
  <1>c. {client_conn[i] : i \in DOMAIN client_conn} \subseteq Executors /\ Next_id(0) \subseteq {0} \cup Ids
    BY Zenon, <1>t, NextId DEF TypeConn
  <1>u. ASSUME UNCHANGED castVars
        PROVE  TypeCast'
    BY Zenon, <1>u, <1>t DEF TypeCast, castVars
  <1>1. ASSUME NEW kind \in Kinds, NEW q \in Queries, broadcastQuery(kind, q)
        PROVE  TypeCast'
    <2>1. cast.n \in Nat
      BY <1>t DEF TypeCast, NoCast, Task
    <2>2. cast' \in Task
      BY <1>1, <2>1 DEF broadcastQuery, Task
    <2> QED
      BY Zenon, <1>1, <1>c, <2>2 DEF broadcastQuery, TypeCast
  <1>2. CASE shutdownServer
    BY Zenon, <1>2, <1>t, <1>c DEF shutdownServer, TypeCast
  <1>3. CASE call
    <2>1. iter' \in {0} \cup Ids /\ UNCHANGED <<primary, cast, due>>
      BY Zenon, <1>3, AdvanceType DEF call
    <2>2. got' \subseteq Executors
      BY <1>3, <1>t DEF call, Callee, TypeCast, TypeConn
    <2> QED
      BY Zenon, <1>t, <2>1, <2>2 DEF TypeCast
  <1>4. CASE call_fails
    <2>1. iter' \in {0} \cup Ids /\ UNCHANGED <<primary, cast, due, got>>
      BY Zenon, <1>4, AdvanceType DEF call_fails
    <2> QED
      BY Zenon, <1>t, <2>1 DEF TypeCast
  <1>5. CASE broadcast_returns
    BY Zenon, <1>5, <1>t DEF broadcast_returns, TypeCast
  <1>6. CASE sendCommand
    <2>1. iter' \in {0} \cup Ids /\ UNCHANGED <<primary, cast, due>>
      BY Zenon, <1>6, AdvanceType DEF sendCommand
    <2>2. got' \subseteq Executors
      BY <1>6, <1>t DEF sendCommand, Callee, TypeCast, TypeConn
    <2> QED
      BY Zenon, <1>t, <2>1, <2>2 DEF TypeCast
  <1>7. CASE sendCommand_fails
    <2>1. iter' \in {0} \cup Ids /\ UNCHANGED <<primary, cast, due, got>>
      BY Zenon, <1>7, AdvanceType DEF sendCommand_fails
    <2> QED
      BY Zenon, <1>t, <2>1 DEF TypeCast
  <1>8. CASE shutdown_returns
    BY Zenon, <1>8, <1>t DEF shutdown_returns, TypeCast
  <1>9. ASSUME NEW e \in Executors, task_step(e) \/ notify_step(e)
        PROVE  TypeCast'
    BY ZenonT(60), <1>9, <1>u, TaskFrame
  <1>10. ASSUME NEW e \in Executors, Membership(e)
         PROVE  TypeCast'
    BY Zenon, <1>10, <1>u DEF Membership, startServer, registerExecutor, registration_fails, disconnect,
                       disconnect_unregistered, disconnect_server, shutdownServer_rpc, crash
  <1>11. CASE UNCHANGED vars
    BY Zenon, <1>11, <1>u DEF vars
  <1> QED
    BY Zenon, <1>1, <1>2, <1>3, <1>4, <1>5, <1>6, <1>7, <1>8, <1>9, <1>10, <1>11, Steps DEF Walk

LEMMA TypeConnStep ==
  ASSUME TypeOK, Registered, [Next]_vars
  PROVE  TypeConn'
PROOF
  <1>t. TypeConn
    BY ZenonT(60), TypeParts
  <1>u. ASSUME UNCHANGED connVars
        PROVE  TypeConn'
    BY Zenon, <1>u, <1>t DEF TypeConn, connVars
  <1>1. CASE Walk
    BY Zenon, <1>1, <1>u, WalkFrame
  <1>2. ASSUME NEW e \in Executors, task_step(e) \/ notify_step(e)
        PROVE  TypeConn'
    BY Zenon, <1>2, <1>u, TaskFrame
  <1>3. CASE shutdown_returns
    <2>1. client_conn' = <<>> /\ DOMAIN client_conn' = {}
          /\ UNCHANGED <<executors, buffer, exec_id_map, exec_address_map, executor_id_ctr>>
      BY <1>3 DEF shutdown_returns
    <2> QED
      BY Zenon, <1>t, <2>1 DEF TypeConn
  <1>4. ASSUME NEW e \in Executors, registerExecutor(e)
        PROVE  TypeConn'
    <2>1. PICK i \in Ids, p \in [moves : Nat, at : Nat \ {0}] :
            /\ i = executor_id_ctr'
            /\ client_conn' = With(client_conn, i, e) /\ exec_id_map' = With(exec_id_map, i, p)
            /\ exec_address_map' = exec_address_map \cup {e}
            /\ executors' = Append(executors, <<i, e>>) /\ buffer' \in [moves : Nat, room : Nat]
      BY <1>4, Registration
    <2>2. DOMAIN client_conn' \subseteq Ids /\ \A j \in DOMAIN client_conn' : client_conn'[j] \in Executors
      BY Zenon, <1>t, <2>1 DEF TypeConn, With
    <2>3. /\ DOMAIN exec_id_map' \subseteq Ids
          /\ \A j \in DOMAIN exec_id_map' : exec_id_map'[j] \in [moves : Nat, at : Nat \ {0}]
      BY Zenon, <1>t, <2>1 DEF TypeConn, With
    <2>4. executors' \in Seq(Ids \X Executors)
      BY <1>t, <2>1 DEF TypeConn
    <2>5. exec_address_map' \subseteq Executors /\ executor_id_ctr' \in {0} \cup Ids
      BY Zenon, <1>t, <2>1 DEF TypeConn
    <2> QED
      BY Zenon, <2>1, <2>2, <2>3, <2>4, <2>5 DEF TypeConn
  <1>5. ASSUME NEW e \in Executors, disconnect(e)
        PROVE  TypeConn'
    <2>1. UNCHANGED <<buffer, executor_id_ctr>>
      BY ZenonT(60), <1>5, Goodbye
    <2>2. CASE updateNodeStatus(id[e])
      <3>1. /\ client_conn' = Without(client_conn, id[e]) /\ exec_id_map' = Without(exec_id_map, id[e])
            /\ executors' = Erased(executors, id[e]) /\ exec_address_map' \subseteq exec_address_map
        BY Zenon, <2>2 DEF updateNodeStatus
      <3>2. DOMAIN client_conn' \subseteq Ids /\ \A j \in DOMAIN client_conn' : client_conn'[j] \in Executors
        BY Zenon, <1>t, <3>1 DEF TypeConn, Without
      <3>3. /\ DOMAIN exec_id_map' \subseteq Ids
            /\ \A j \in DOMAIN exec_id_map' : exec_id_map'[j] \in [moves : Nat, at : Nat \ {0}]
        BY Zenon, <1>t, <3>1 DEF TypeConn, Without
      <3>4. executors' \in Seq(Ids \X Executors)
        BY Zenon, <1>t, <3>1, ErasedType DEF TypeConn
      <3> QED
        BY Zenon, <1>t, <2>1, <3>1, <3>2, <3>3, <3>4 DEF TypeConn
    <2>3. CASE UNCHANGED <<client_conn, executors, exec_id_map, exec_address_map>>
      BY ZenonT(60), <1>t, <2>1, <2>3 DEF TypeConn
    <2> QED
      BY Zenon, <1>5, <2>2, <2>3, Goodbye
  <1>6. ASSUME NEW e \in Executors, Membership(e), ~registerExecutor(e), ~disconnect(e)
        PROVE  TypeConn'
    BY Zenon, <1>6, <1>u DEF Membership, startServer, registration_fails, disconnect_unregistered,
                      disconnect_server, shutdownServer_rpc, crash
  <1>7. CASE UNCHANGED vars
    BY Zenon, <1>7, <1>u DEF vars
  <1> QED
    BY Zenon, <1>1, <1>2, <1>3, <1>4, <1>5, <1>6, <1>7, Steps
LEMMA TypeNodeStep ==
  ASSUME TypeOK, Registered, [Next]_vars
  PROVE  TypeNode'
PROOF
  <1>t. TypeNode /\ TypeConn
    BY Zenon, TypeParts
  <1>u. ASSUME UNCHANGED <<node, id, terminate>>, told' \subseteq Executors
        PROVE  TypeNode'
    BY Zenon, <1>u, <1>t DEF TypeNode
  <1>n. ASSUME NEW e \in Executors, NEW s \in {"off", "listening", "in", "stopped", "gone", "crashed"},
               node' = [node EXCEPT ![e] = s], UNCHANGED <<id, terminate>>, told' \subseteq told
        PROVE  TypeNode'
    BY Zenon, <1>n, <1>t DEF TypeNode
  <1>1. CASE Walk
    <2>1. told' \subseteq Executors
      <3>1. told \subseteq Executors /\ Callee \subseteq Executors
        BY <1>t DEF TypeNode, TypeConn, Callee
      <3>2. CASE sendCommand
        BY Zenon, <3>1, <3>2 DEF sendCommand
      <3>3. CASE ~sendCommand
        BY ZenonT(60), <1>1, <3>1, <3>3 DEF Walk, broadcastQuery, shutdownServer, call, call_fails,
                                broadcast_returns, sendCommand_fails, nodeVars
      <3> QED
        BY Zenon, <3>2, <3>3
    <2> QED
      BY Zenon, <1>1, <1>u, <2>1, WalkFrame
  <1>2. ASSUME NEW e \in Executors, task_step(e) \/ notify_step(e)
        PROVE  TypeNode'
    BY Zenon, <1>2, <1>t, <1>u, TaskFrame DEF TypeNode
  <1>3. CASE shutdown_returns
    BY Zenon, <1>3, <1>t, <1>u DEF shutdown_returns, nodeVars, TypeNode
  <1>4. ASSUME NEW e \in Executors, registerExecutor(e)
        PROVE  TypeNode'
    <2>1. PICK i \in Ids : /\ id' = [id EXCEPT ![e] = i] /\ node' = [node EXCEPT ![e] = "in"]
                           /\ UNCHANGED <<terminate, told>>
      BY Zenon, <1>4, Registration
    <2> QED
      BY Zenon, <1>t, <2>1 DEF TypeNode
  <1>5. ASSUME NEW e \in Executors, disconnect(e)
        PROVE  TypeNode'
    BY Zenon, <1>5, <1>t, Goodbye DEF TypeNode
  <1>6. ASSUME NEW e \in Executors, startServer(e)
        PROVE  TypeNode'
    BY Zenon, <1>6, <1>n DEF startServer
  <1>7. ASSUME NEW e \in Executors, registration_fails(e)
        PROVE  TypeNode'
    BY Zenon, <1>7, <1>n DEF registration_fails
  <1>8. ASSUME NEW e \in Executors, disconnect_unregistered(e)
        PROVE  TypeNode'
    BY Zenon, <1>8, <1>n DEF disconnect_unregistered
  <1>9. ASSUME NEW e \in Executors, disconnect_server(e)
        PROVE  TypeNode'
    BY Zenon, <1>9, <1>n DEF disconnect_server
  <1>10. ASSUME NEW e \in Executors, shutdownServer_rpc(e)
         PROVE  TypeNode'
    <2>1. PICK s \in {"off", "listening", "in", "stopped", "gone", "crashed"} :
            s = IF node[e] = "in" THEN "stopped" ELSE node[e]
      BY Zenon, <1>t DEF TypeNode
    <2>2. node' = [node EXCEPT ![e] = s] /\ told' \subseteq told /\ UNCHANGED <<id, terminate>>
      BY Zenon, <1>10, <2>1 DEF shutdownServer_rpc
    <2> QED
      BY Zenon, <1>n, <2>2
  <1>11. ASSUME NEW e \in Executors, crash(e)
         PROVE  TypeNode'
    BY Zenon, <1>11, <1>n DEF crash
  <1>12. CASE UNCHANGED vars
    BY ZenonT(60), <1>12, <1>t, <1>u DEF vars, nodeVars, TypeNode
  <1> QED
    BY Zenon, <1>1, <1>2, <1>3, <1>4, <1>5, <1>6, <1>7, <1>8, <1>9, <1>10, <1>11, <1>12, Steps DEF Membership

LEMMA TypeWorkStep ==
  ASSUME TypeOK, [Next]_vars
  PROVE  TypeWork'
PROOF
  <1>t. TypeWork /\ TypeCast
    BY Zenon, TypeParts
  <1>u. ASSUME UNCHANGED <<status, prepared, tasks>>, wire' \subseteq wire
        PROVE  TypeWork'
    BY Zenon, <1>u, <1>t DEF TypeWork
  <1>d. ASSUME NEW e \in Executors, NEW t \in tasks[e]
        PROVE  /\ t \in Task /\ t.q \in Queries /\ t.n \in Nat \ {0}
               /\ [tasks EXCEPT ![e] = @ \ {t}] \in [Executors -> SUBSET Task]
    BY <1>t DEF TypeWork, Task
  <1>r. ASSUME NEW e \in Executors, NEW t \in tasks[e], NEW s \in {"PREPARED", "EXECUTED", "ERROR"},
               Report(e, t, s)
        PROVE  wire' \subseteq Note
    <2>1. [q |-> t.q, st |-> s, from |-> e, n |-> t.n] \in Note
      BY ZenonT(60), <1>d DEF Note
    <2> QED
      BY Zenon, <1>r, <1>t, <2>1 DEF Report, TypeWork
  <1>1. ASSUME NEW kind \in Kinds, NEW q \in Queries, broadcastQuery(kind, q)
        PROVE  TypeWork'
    BY Zenon, <1>1, <1>t DEF broadcastQuery, nodeVars, TypeWork
  <1>2. CASE call
    <2>1. PICK e \in Callee : tasks' = [tasks EXCEPT ![e] = @ \cup {cast}]
      BY ZenonT(60), <1>2 DEF call
    <2>2. cast \in Task
      BY Zenon, <1>2, <1>t DEF call, TypeCast
    <2>3. tasks' \in [Executors -> SUBSET Task]
      BY ZenonT(60), <1>t, <2>1, <2>2 DEF TypeWork
    <2> QED
      BY Zenon, <1>2, <1>t, <2>3 DEF call, TypeWork
  <1>3. CASE shutdownServer \/ call_fails \/ broadcast_returns \/ sendCommand \/ sendCommand_fails
             \/ shutdown_returns
    BY Zenon, <1>3, <1>u DEF shutdownServer, call_fails, broadcast_returns, sendCommand, sendCommand_fails,
                      shutdown_returns, nodeVars
  <1>4. ASSUME NEW e \in Executors, NEW t \in tasks[e], prepareStatement(e, t)
        PROVE  TypeWork'
    <2>1. wire' \subseteq Note
      BY Zenon, <1>4, <1>r DEF prepareStatement
    <2>2. prepared' \in [Executors -> SUBSET Queries]
      BY <1>4, <1>d, <1>t DEF prepareStatement, TypeWork
    <2>3. tasks' \in [Executors -> SUBSET Task] /\ UNCHANGED status
      BY Zenon, <1>4, <1>d DEF prepareStatement, Done, taskUnchanged
    <2> QED
      BY ZenonT(60), <1>t, <2>1, <2>2, <2>3 DEF TypeWork
  <1>5. ASSUME NEW e \in Executors, NEW t \in tasks[e], prepareStatement_fails(e, t) \/ executeStatement(e, t)
        PROVE  TypeWork'
    <2>1. wire' \subseteq Note
      BY ZenonT(60), <1>5, <1>r DEF prepareStatement_fails, executeStatement
    <2>2. tasks' \in [Executors -> SUBSET Task] /\ UNCHANGED <<status, prepared>>
      BY <1>5, <1>d DEF prepareStatement_fails, executeStatement, Done, taskUnchanged
    <2> QED
      BY Zenon, <1>t, <2>1, <2>2 DEF TypeWork
  <1>6. ASSUME NEW e \in Executors, NEW t \in tasks[e],
               executeStatement_fails(e, t) \/ executeStatement_unprepared(e, t)
        PROVE  TypeWork'
    <2>1. tasks' \in [Executors -> SUBSET Task] /\ UNCHANGED <<status, prepared, wire>>
      BY <1>6, <1>d DEF executeStatement_fails, executeStatement_unprepared, Done, taskUnchanged
    <2> QED
      BY Zenon, <1>t, <2>1 DEF TypeWork
  <1>7. ASSUME NEW m \in wire, QueryStatus(m)
        PROVE  TypeWork'
    <2>1. m \in Note /\ m.q \in Queries
      BY Zenon, <1>t DEF TypeWork, Note
    <2>2. status' \in [Queries -> SUBSET Note]
      BY Zenon, <1>7, <1>t, <2>1 DEF QueryStatus, TypeWork
    <2> QED
      BY Zenon, <1>7, <1>t, <2>2 DEF QueryStatus, TypeWork
  <1>8. ASSUME NEW m \in wire, QueryStatus_fails(m)
        PROVE  TypeWork'
    BY Zenon, <1>8, <1>u DEF QueryStatus_fails
  <1>9. ASSUME NEW e \in Executors, Membership(e)
        PROVE  TypeWork'
    <2>1. CASE startServer(e) \/ registerExecutor(e) \/ registration_fails(e) \/ disconnect(e)
      BY Zenon, <2>1, <1>u DEF startServer, registerExecutor, registration_fails, disconnect
    <2>2. CASE disconnect_unregistered(e) \/ disconnect_server(e) \/ shutdownServer_rpc(e) \/ crash(e)
      BY Zenon, <2>2, <1>u DEF disconnect_unregistered, disconnect_server, shutdownServer_rpc, crash
    <2> QED
      BY ZenonT(60), <1>9, <2>1, <2>2 DEF Membership
  <1>10. CASE UNCHANGED vars
    BY Zenon, <1>10, <1>u DEF vars, nodeVars
  <1> QED
    BY Zenon, <1>1, <1>2, <1>3, <1>4, <1>5, <1>6, <1>7, <1>8, <1>9, <1>10, Steps
       DEF Walk, task_step, notify_step
(* Faults are counted. *)
LEMMA FaultStep ==
  ASSUME faults \in Nat, [Next]_vars
  PROVE  faults' = faults \/ faults' = faults + 1
PROOF
  <1>1. CASE Walk \/ shutdown_returns
    BY Zenon, <1>1 DEF Walk, broadcastQuery, shutdownServer, call, call_fails, broadcast_returns, sendCommand,
                sendCommand_fails, shutdown_returns, Fault
  <1>2. ASSUME NEW e \in Executors, task_step(e)
        PROVE  faults' = faults \/ faults' = faults + 1
    BY ZenonT(60), <1>2 DEF task_step, prepareStatement, prepareStatement_fails, executeStatement,
                executeStatement_fails, executeStatement_unprepared, Fault
  <1>3. ASSUME NEW e \in Executors, notify_step(e)
        PROVE  faults' = faults \/ faults' = faults + 1
    BY Zenon, <1>3 DEF notify_step, QueryStatus, QueryStatus_fails, Fault
  <1>4. ASSUME NEW e \in Executors, Membership(e)
        PROVE  faults' = faults \/ faults' = faults + 1
    <2>1. CASE startServer(e) \/ registerExecutor(e) \/ registration_fails(e)
      BY Zenon, <2>1 DEF startServer, registerExecutor, registration_fails, Fault
    <2>2. CASE disconnect(e)
      BY ZenonT(60), <2>2 DEF disconnect, Fault
    <2>3. CASE disconnect_unregistered(e) \/ disconnect_server(e) \/ shutdownServer_rpc(e) \/ crash(e)
      BY Zenon, <2>3 DEF disconnect_unregistered, disconnect_server, shutdownServer_rpc, crash, Fault
    <2> QED
      BY Zenon, <1>4, <2>1, <2>2, <2>3 DEF Membership
  <1>5. CASE UNCHANGED vars
    BY Zenon, <1>5 DEF vars
  <1> QED
    BY Zenon, <1>1, <1>2, <1>3, <1>4, <1>5, Steps

LEMMA TypeStep ==
  ASSUME TypeOK, Registered, [Next]_vars
  PROVE  TypeOK'
PROOF
  <1>1. faults' \in Nat
    BY TypeParts, FaultStep
  <1> QED
    BY Zenon, <1>1, TypeCastStep, TypeConnStep, TypeNodeStep, TypeWorkStep, TypePartsNext

-----------------------------------------------------------------------------
(* The addresses stay those of the connections: when an executor says goodbye, the
   address is read through exec_id_map, and if that leads to an executor of the
   id, it is this one. *)
LEMMA AddressStep ==
  ASSUME TypeOK, Registered, AddressesMatch, [Next]_vars
  PROVE  AddressesMatch'
PROOF
  <1>t. /\ \A i \in DOMAIN client_conn : client_conn[i] \in Executors /\ i # 0
        /\ executors \in Seq(Ids \X Executors)
        /\ \A i \in DOMAIN exec_id_map : exec_id_map[i] \in [moves : Nat, at : Nat \ {0}]
    BY Zenon DEF TypeOK, Ids
  <1>u. ASSUME UNCHANGED <<connVars, stale>>, primary = "down" => primary' = "down"
        PROVE  AddressesMatch'
    <2>1. client_conn' = client_conn /\ exec_address_map' = exec_address_map /\ stale' = stale
      BY Zenon, <1>u DEF connVars
    <2> SUFFICES ASSUME ~stale', primary' # "down"
                 PROVE  exec_address_map' = {client_conn'[i] : i \in DOMAIN client_conn'}
      BY Zenon DEF AddressesMatch
    <2>2. ~stale /\ primary # "down"
      BY <1>u, <2>1
    <2>3. exec_address_map = {client_conn[i] : i \in DOMAIN client_conn}
      BY Zenon, <2>2 DEF AddressesMatch
    <2> QED
      BY Zenon, <2>1, <2>3
  <1>1. CASE Walk
    <2>1. UNCHANGED stale
      BY ZenonT(60), <1>1 DEF Walk, broadcastQuery, shutdownServer, call, call_fails, broadcast_returns,
                  sendCommand, sendCommand_fails, histories
    <2> QED
      BY Zenon, <1>1, <1>u, <2>1, WalkFrame
  <1>2. ASSUME NEW e \in Executors, task_step(e) \/ notify_step(e)
        PROVE  AddressesMatch'
    <2>1. UNCHANGED <<connVars, stale, primary>>
      BY ZenonT(60), <1>2, TaskFrame DEF castVars, histories
    <2> QED
      BY Zenon, <1>u, <2>1
  <1>3. CASE shutdown_returns
    BY Zenon, <1>3 DEF shutdown_returns, AddressesMatch
  <1>4. ASSUME NEW e \in Executors, registerExecutor(e)
        PROVE  AddressesMatch'
    <2>1. PICK i \in Ids :
            /\ i = executor_id_ctr + 1 /\ client_conn' = With(client_conn, i, e)
            /\ exec_address_map' = exec_address_map \cup {e}
            /\ primary # "down" /\ UNCHANGED <<castVars, histories>>
      BY ZenonT(60), <1>4, Registration
    <2>2. i \notin DOMAIN client_conn
      <3>1. \A j \in DOMAIN client_conn : j <= executor_id_ctr
        BY Zenon, <1>t DEF Registered
      <3> QED
        BY <2>1, <3>1 DEF TypeOK, Ids
    <2>3. {client_conn'[j] : j \in DOMAIN client_conn'}
            = {client_conn[j] : j \in DOMAIN client_conn} \cup {e}
      BY Zenon, <2>1, <2>2 DEF With
    <2> QED
      BY Zenon, <2>1, <2>3 DEF AddressesMatch, histories
  <1>5. ASSUME NEW e \in Executors, disconnect(e)
        PROVE  AddressesMatch'
    <2>1. /\ ~terminate[e] /\ id[e] \in DOMAIN exec_id_map /\ node[e] \in {"in", "stopped"}
          /\ UNCHANGED castVars
          /\ \/ primary # "down" /\ updateNodeStatus(id[e])
             \/ UNCHANGED <<client_conn, exec_address_map, stale>>
      BY Zenon, <1>5, Goodbye
    <2>2. CASE UNCHANGED <<client_conn, exec_address_map, stale>>
      BY Zenon, <2>1, <2>2 DEF AddressesMatch, castVars
    <2>3. CASE primary # "down" /\ updateNodeStatus(id[e])
      <3>1. PICK f \in Deref(id[e]) :
              /\ exec_address_map' = exec_address_map \ {f}
              /\ stale' = (stale \/ Cardinality(Deref(id[e])) > 1 \/ id[f] # id[e])
        BY Zenon, <2>3 DEF updateNodeStatus
      <3>2. client_conn' = Without(client_conn, id[e])
        BY ZenonT(60), <2>3 DEF updateNodeStatus
      <3>3. f \in Executors
        <4>1. exec_id_map[id[e]] \in [moves : Nat, at : Nat \ {0}]
          BY Zenon, <1>t, <2>1
        <4> QED
          BY <1>t, <3>1, <4>1 DEF Deref
      <3>4. id[e] # 0 /\ id[e] \in DOMAIN client_conn
        BY Zenon, <2>1, <2>3 DEF Registered
      <3>5. client_conn[id[e]] = e
        BY Zenon, <1>t, <3>4 DEF Registered
      <3>6. ASSUME ~stale'
            PROVE  exec_address_map' = {client_conn'[i] : i \in DOMAIN client_conn'}
        <4>1. ~stale /\ f = e
          BY Zenon, <3>1, <3>3, <3>4, <3>6 DEF Registered
        <4>2. exec_address_map = {client_conn[i] : i \in DOMAIN client_conn}
          BY Zenon, <2>3, <4>1 DEF AddressesMatch
        <4>3. \A i \in DOMAIN client_conn : client_conn[i] = e => i = id[e]
          BY ZenonT(60) DEF Registered
        <4>4. /\ DOMAIN client_conn' = DOMAIN client_conn \ {id[e]}
              /\ \A i \in DOMAIN client_conn' : client_conn'[i] = client_conn[i]
          BY Zenon, <3>2 DEF Without
        <4>5. exec_address_map' = exec_address_map \ {e}
          BY Zenon, <3>1, <4>1
        <4> QED
          BY <3>5, <4>2, <4>3, <4>4, <4>5
      <3> QED
        BY ZenonT(60), <3>6 DEF AddressesMatch
    <2> QED
      BY ZenonT(60), <2>1, <2>2, <2>3
  <1>6. ASSUME NEW e \in Executors, Membership(e), ~registerExecutor(e), ~disconnect(e)
        PROVE  AddressesMatch'
    <2>1. UNCHANGED <<connVars, stale, primary>>
      BY ZenonT(60), <1>6 DEF Membership, startServer, registration_fails, disconnect_unregistered,
                  disconnect_server, shutdownServer_rpc, crash, castVars, histories
    <2> QED
      BY Zenon, <1>u, <2>1
  <1>7. CASE UNCHANGED vars
    BY Zenon, <1>7, <1>u DEF vars, castVars, histories
  <1> QED
    BY ZenonT(60), <1>1, <1>2, <1>3, <1>4, <1>5, <1>6, <1>7, Steps
-----------------------------------------------------------------------------
(* Answers to the last broadcast stay apart from those to the one before. *)
LEMMA AnswersStep ==
  ASSUME TypeOK, AnswersAreCurrent, [Next]_vars
  PROVE  AnswersAreCurrent'
PROOF
  <1>t. /\ status \in [Queries -> SUBSET Note] /\ wire \subseteq Note
        /\ tasks \in [Executors -> SUBSET Task]
        /\ \A i \in DOMAIN client_conn : client_conn[i] \in Executors
    BY Zenon DEF TypeOK
  <1>q. ASSUME ~overlap' /\ cast' # NoCast =>
                 /\ \A e \in Executors : \A t \in tasks'[e] : t.q = cast'.q => t.n = cast'.n
                 /\ \A m \in wire' : m.q = cast'.q => m.n = cast'.n
                 /\ \A m \in status'[cast'.q] : m.n = cast'.n
        PROVE  AnswersAreCurrent'
    BY ZenonT(60), <1>q DEF AnswersAreCurrent
  <1>u. ASSUME UNCHANGED <<cast, overlap, status>>, wire' \subseteq wire,
               \A e \in Executors : tasks'[e] \subseteq tasks[e]
        PROVE  AnswersAreCurrent'
    <2> SUFFICES ASSUME ~overlap, cast # NoCast
                 PROVE  /\ \A e \in Executors : \A t \in tasks'[e] : t.q = cast.q => t.n = cast.n
                        /\ \A m \in wire' : m.q = cast.q => m.n = cast.n
                        /\ \A m \in status[cast.q] : m.n = cast.n
      BY ZenonT(60), <1>u, <1>q
    <2> QED
      BY Zenon, <1>u DEF AnswersAreCurrent
  <1>r. ASSUME NEW e \in Executors, NEW t \in tasks[e], NEW s, Report(e, t, s), Done(e, t),
               UNCHANGED <<cast, overlap, status>>
        PROVE  AnswersAreCurrent'
    <2>1. \A f \in Executors : tasks'[f] \subseteq tasks[f]
      BY ZenonT(60), <1>r, <1>t DEF Done
    <2>2. \A m \in wire' : m \in wire \/ (m.q = t.q /\ m.n = t.n)
      BY <1>r DEF Report
    <2> SUFFICES ASSUME ~overlap, cast # NoCast
                 PROVE  /\ \A f \in Executors : \A x \in tasks'[f] : x.q = cast.q => x.n = cast.n
                        /\ \A m \in wire' : m.q = cast.q => m.n = cast.n
                        /\ \A m \in status[cast.q] : m.n = cast.n
      BY ZenonT(60), <1>r, <1>q
    <2> QED
      BY <2>1, <2>2 DEF AnswersAreCurrent
  <1>d. ASSUME NEW e \in Executors, NEW t, Done(e, t), UNCHANGED <<cast, overlap, status, wire>>
        PROVE  AnswersAreCurrent'
    <2>1. \A f \in Executors : tasks'[f] \subseteq tasks[f]
      BY Zenon, <1>d, <1>t DEF Done
    <2> QED
      BY Zenon, <1>d, <1>u, <2>1
  <1>1. ASSUME NEW kind \in Kinds, NEW q \in Queries, broadcastQuery(kind, q)
        PROVE  AnswersAreCurrent'
    <2>1. /\ cast'.q = q /\ status'[q] = {} /\ UNCHANGED <<tasks, wire>>
          /\ overlap' = (overlap \/ Outstanding(q))
      BY Zenon, <1>1, <1>t DEF broadcastQuery, nodeVars
    <2> SUFFICES ASSUME ~overlap'
                 PROVE  /\ \A e \in Executors : \A t \in tasks'[e] : t.q = cast'.q => t.n = cast'.n
                        /\ \A m \in wire' : m.q = cast'.q => m.n = cast'.n
                        /\ \A m \in status'[cast'.q] : m.n = cast'.n
      BY Zenon, <1>q
    <2>2. ~Outstanding(q)
      BY ZenonT(60), <2>1
    <2> QED
      BY ZenonT(60), <2>1, <2>2 DEF Outstanding
  <1>2. CASE call
    <2>1. PICK e \in Executors : tasks' = [tasks EXCEPT ![e] = @ \cup {cast}]
      BY ZenonT(60), <1>2, <1>t DEF call, Callee
    <2>2. UNCHANGED <<cast, overlap, status, wire>>
      BY Zenon, <1>2 DEF call
    <2>3. \A f \in Executors : \A t \in tasks'[f] : t \in tasks[f] \/ t = cast
      BY Zenon, <1>t, <2>1
    <2> SUFFICES ASSUME ~overlap, cast # NoCast
                 PROVE  /\ \A f \in Executors : \A t \in tasks'[f] : t.q = cast.q => t.n = cast.n
                        /\ \A m \in wire : m.q = cast.q => m.n = cast.n
                        /\ \A m \in status[cast.q] : m.n = cast.n
      BY Zenon, <2>2, <1>q
    <2> QED
      BY Zenon, <2>3 DEF AnswersAreCurrent
  <1>3. CASE shutdownServer \/ call_fails \/ broadcast_returns \/ sendCommand \/ sendCommand_fails
             \/ shutdown_returns
    BY Zenon, <1>3, <1>u DEF shutdownServer, call_fails, broadcast_returns, sendCommand, sendCommand_fails,
                      shutdown_returns, nodeVars, histories
  <1>4. ASSUME NEW e \in Executors, NEW t \in tasks[e],
               prepareStatement(e, t) \/ prepareStatement_fails(e, t) \/ executeStatement(e, t)
        PROVE  AnswersAreCurrent'
    BY Zenon, <1>4, <1>r DEF prepareStatement, prepareStatement_fails, executeStatement, taskUnchanged,
                      castVars, histories
  <1>5. ASSUME NEW e \in Executors, NEW t \in tasks[e],
               executeStatement_fails(e, t) \/ executeStatement_unprepared(e, t)
        PROVE  AnswersAreCurrent'
    BY ZenonT(60), <1>5, <1>d DEF executeStatement_fails, executeStatement_unprepared, taskUnchanged,
                      castVars, histories
  <1>6. ASSUME NEW m \in wire, QueryStatus(m)
        PROVE  AnswersAreCurrent'
    <2>1. /\ status' = [status EXCEPT ![m.q] = @ \cup {m}] /\ wire' \subseteq wire
          /\ UNCHANGED <<cast, overlap, tasks>>
      BY Zenon, <1>6 DEF QueryStatus, castVars, histories
    <2>2. \A q \in Queries : \A x \in status'[q] : x \in status[q] \/ (x = m /\ m.q = q)
      BY ZenonT(60), <1>t, <2>1
    <2>3. cast # NoCast => cast.q \in Queries
      BY Zenon DEF TypeOK, Task
    <2> SUFFICES ASSUME ~overlap, cast # NoCast
                 PROVE  /\ \A f \in Executors : \A t \in tasks[f] : t.q = cast.q => t.n = cast.n
                        /\ \A x \in wire' : x.q = cast.q => x.n = cast.n
                        /\ \A x \in status'[cast.q] : x.n = cast.n
      BY ZenonT(60), <2>1, <1>q
    <2> QED
      BY Zenon, <2>1, <2>2, <2>3 DEF AnswersAreCurrent
  <1>7. ASSUME NEW m \in wire, QueryStatus_fails(m)
        PROVE  AnswersAreCurrent'
    BY Zenon, <1>7, <1>u DEF QueryStatus_fails, castVars, histories
  <1>8. ASSUME NEW e \in Executors, Membership(e)
        PROVE  AnswersAreCurrent'
    <2>1. CASE startServer(e) \/ registerExecutor(e) \/ registration_fails(e) \/ disconnect(e)
      BY Zenon, <2>1, <1>u DEF startServer, registerExecutor, registration_fails, disconnect, castVars, histories
    <2>2. CASE disconnect_unregistered(e) \/ disconnect_server(e) \/ shutdownServer_rpc(e) \/ crash(e)
      BY Zenon, <2>2, <1>u DEF disconnect_unregistered, disconnect_server, shutdownServer_rpc, crash,
                        castVars, histories
    <2> QED
      BY Zenon, <1>8, <2>1, <2>2 DEF Membership
  <1>9. CASE UNCHANGED vars
    BY Zenon, <1>9, <1>u DEF vars, nodeVars, castVars, histories
  <1> QED
    BY ZenonT(60), <1>1, <1>2, <1>3, <1>4, <1>5, <1>6, <1>7, <1>8, <1>9, Steps
       DEF Walk, task_step, notify_step
-----------------------------------------------------------------------------
(* One step of the iterator: if nobody left under it, whoever the call was for is
   behind it, and everybody else it has to come to is still ahead. *)
LEMMA AdvanceStep ==
  ASSUME TypeOK, Registered, advance, ~torn', iter # 0, primary # "down",
         NEW e \in Executors, ~Reached(e), id[e] # 0, iter <= id[e]
  PROVE  /\ iter \in DOMAIN client_conn
         /\ client_conn[iter] = e \/ (iter' # 0 /\ iter' <= id[e])
PROOF
  <1>1. iter \in DOMAIN client_conn /\ iter' \in Next_id(iter)
    BY ZenonT(60) DEF advance
  <1>2. id[e] \in DOMAIN client_conn /\ ~terminate[e]
    BY Zenon DEF Reached, Registered
  <1>3. client_conn[id[e]] = e
    BY ZenonT(60), <1>2 DEF Registered, TypeOK
  <1>4. iter \in Ids /\ iter \in Nat /\ id[e] \in Nat
    BY Zenon, <1>1 DEF TypeOK, Ids
  <1>5. CASE iter = id[e]
    BY ZenonT(60), <1>1, <1>3, <1>5
  <1>6. CASE iter # id[e]
    BY <1>1, <1>2, <1>4, <1>6, NextId
  <1> QED
    BY Zenon, <1>1, <1>5, <1>6

(* What IteratorAhead says of the executors a broadcast is due to. *)
Ahead(e) == Reached(e) \/ (iter # 0 /\ iter <= id[e])

(* Every step of a broadcast keeps the executors that were not reached ahead of the
   iterator; executors that register meanwhile are put behind all of them. *)
LEMMA IteratorStep ==
  ASSUME TypeOK, Registered, IteratorAhead, [Next]_vars
  PROVE  IteratorAhead'
PROOF
  <1>t. /\ due \subseteq Executors /\ faults \in Nat
        /\ id \in [Executors -> {0} \cup Ids] /\ terminate \in [Executors -> BOOLEAN]
        /\ node \in [Executors -> {"off", "listening", "in", "stopped", "gone", "crashed"}]
        /\ \A i \in DOMAIN client_conn : client_conn[i] \in Executors /\ i \in Nat /\ i > 0
    BY DEF TypeOK, Ids
  <1>f. faults' = 0 => faults = 0
    BY <1>t, FaultStep
  <1>p. /\ \A e \in due : id[e] # 0
        /\ primary = "cast" /\ faults = 0 /\ ~torn => \A e \in due : Ahead(e)
    BY Zenon DEF IteratorAhead, Ahead
  <1>q. ASSUME \A e \in due' : id'[e] # 0,
               primary' = "cast" /\ faults' = 0 /\ ~torn' => \A e \in due' : Ahead(e)'
        PROVE  IteratorAhead'
    BY ZenonT(60), <1>q DEF IteratorAhead, Ahead
  <1>u. ASSUME UNCHANGED <<castVars, torn>>,
               \A e \in due : id'[e] = id[e] /\ (node'[e] = "in" /\ ~terminate'[e] => node[e] = "in" /\ ~terminate[e])
        PROVE  IteratorAhead'
    <2>1. UNCHANGED <<primary, iter, due, got, torn>>
      BY Zenon, <1>u DEF castVars
    <2>2. ASSUME NEW e \in due, Ahead(e)
          PROVE  Ahead(e)'
      BY ZenonT(60), <1>u, <2>1, <2>2 DEF Ahead, Reached
    <2> QED
      BY <1>p, <1>q, <1>f, <1>u, <2>1, <2>2
  <1>d. \A e \in {client_conn[i] : i \in DOMAIN client_conn} : id[e] \in DOMAIN client_conn /\ id[e] > 0
    BY Zenon, <1>t DEF Registered
  <1>1. ASSUME NEW kind \in Kinds, NEW q \in Queries, broadcastQuery(kind, q)
        PROVE  IteratorAhead'
    <2>1. /\ due' = {client_conn[i] : i \in DOMAIN client_conn} /\ iter' \in Next_id(0) /\ UNCHANGED id
      BY Zenon, <1>1 DEF broadcastQuery, nodeVars
    <2>2. \A e \in due' : iter' # 0 /\ iter' <= id'[e]
      BY Zenon, <1>d, <2>1, NextId
    <2>3. \A e \in due' : id'[e] # 0
      BY <1>d, <1>t, <2>1
    <2> QED
      BY Zenon, <1>q, <2>2, <2>3 DEF Ahead
  <1>2. CASE shutdownServer
    <2>1. /\ due' = {client_conn[i] : i \in DOMAIN client_conn} /\ primary' = "stop" /\ UNCHANGED id
      BY Zenon, <1>2 DEF shutdownServer, nodeVars
    <2>2. \A e \in due' : id'[e] # 0
      BY <1>d, <1>t, <2>1
    <2> QED
      BY Zenon, <1>q, <2>1, <2>2
  <1>3. CASE call
    <2>1. PICK c \in Callee : node[c] = "in" /\ got' = got \cup {c}
      BY Zenon, <1>3 DEF call
    <2>2. /\ primary = "cast" /\ iter # 0 /\ advance /\ UNCHANGED <<due, node, id, terminate, faults>>
      BY ZenonT(60), <1>3 DEF call
    <2>3. iter \in DOMAIN client_conn /\ c = client_conn[iter] /\ UNCHANGED torn
      BY Zenon, <2>1, <2>2 DEF Callee, advance
    <2>4. ASSUME faults' = 0, ~torn', NEW e \in due
          PROVE  Ahead(e)'
      <3>1. Ahead(e) /\ id[e] # 0 /\ e \in Executors
        BY Zenon, <1>p, <1>f, <1>t, <2>2, <2>3, <2>4
      <3>2. CASE Reached(e)
        BY Zenon, <2>1, <2>2, <3>2 DEF Ahead, Reached
      <3>3. CASE ~Reached(e)
        <4>1. client_conn[iter] = e \/ (iter' # 0 /\ iter' <= id[e])
          BY Zenon, <2>2, <2>4, <3>1, <3>3, AdvanceStep DEF Ahead
        <4> QED
          BY ZenonT(60), <2>1, <2>2, <2>3, <4>1 DEF Ahead, Reached
      <3> QED
        BY Zenon, <3>2, <3>3
    <2> QED
      BY Zenon, <1>p, <1>q, <2>2, <2>4
  <1>4. CASE call_fails
    <2>1. /\ primary = "cast" /\ iter # 0 /\ advance /\ UNCHANGED <<due, got, node, id, terminate>>
          /\ faults' = 0 => \A c \in Callee : node[c] # "in"
      BY <1>4, <1>t DEF call_fails, Fault, nodeVars
    <2>2. ~torn' => ~torn
      BY Zenon, <2>1 DEF advance
    <2>3. ASSUME faults' = 0, ~torn', NEW e \in due
          PROVE  Ahead(e)'
      <3>1. Ahead(e) /\ id[e] # 0 /\ e \in Executors
        BY Zenon, <1>p, <1>f, <1>t, <2>1, <2>2, <2>3
      <3>2. CASE Reached(e)
        BY Zenon, <2>1, <3>2 DEF Ahead, Reached
      <3>3. CASE ~Reached(e)
        <4>1. /\ iter \in DOMAIN client_conn
              /\ client_conn[iter] = e \/ (iter' # 0 /\ iter' <= id[e])
          BY ZenonT(60), <2>1, <2>3, <3>1, <3>3, AdvanceStep DEF Ahead
        <4>2. client_conn[iter] # e
          BY Zenon, <2>1, <2>3, <3>3, <4>1 DEF Callee, Reached
        <4> QED
          BY Zenon, <2>1, <4>1, <4>2 DEF Ahead
      <3> QED
        BY Zenon, <3>2, <3>3
    <2> QED
      BY Zenon, <1>p, <1>q, <2>1, <2>3
  <1>5. CASE broadcast_returns
    <2>1. primary' = "idle" /\ UNCHANGED <<due, id>>
      BY Zenon, <1>5 DEF broadcast_returns, nodeVars
    <2> QED
      BY Zenon, <1>p, <1>q, <2>1
  <1>6. CASE sendCommand \/ sendCommand_fails \/ shutdown_returns
    <2>1. primary' # "cast" /\ UNCHANGED <<due, id>>
      BY Zenon, <1>6 DEF sendCommand, sendCommand_fails, shutdown_returns, nodeVars
    <2> QED
      BY ZenonT(60), <1>p, <1>q, <2>1
  <1>7. ASSUME NEW e \in Executors, task_step(e) \/ notify_step(e)
        PROVE  IteratorAhead'
    <2>1. UNCHANGED <<castVars, torn, id, node, terminate>>
      BY ZenonT(60), <1>7, TaskFrame DEF histories
    <2> QED
      BY Zenon, <1>u, <2>1
  <1>8. ASSUME NEW e \in Executors, registerExecutor(e)
        PROVE  IteratorAhead'
    <2>1. PICK i \in Ids : /\ id[e] = 0 /\ id' = [id EXCEPT ![e] = i] /\ node' = [node EXCEPT ![e] = "in"]
                           /\ UNCHANGED <<castVars, terminate, histories>>
      BY Zenon, <1>8, Registration
    <2>2. \A f \in due : id'[f] = id[f] /\ node'[f] = node[f] /\ terminate'[f] = terminate[f]
      BY Zenon, <1>p, <1>t, <2>1
    <2> QED
      BY Zenon, <1>u, <2>1, <2>2 DEF histories
  <1>9. ASSUME NEW e \in Executors, disconnect(e)
        PROVE  IteratorAhead'
    <2>1. terminate' = [terminate EXCEPT ![e] = TRUE] /\ UNCHANGED <<castVars, torn, id, node>>
      BY ZenonT(60), <1>9, Goodbye
    <2>2. \A f \in due : ~terminate'[f] => ~terminate[f]
      BY Zenon, <1>t, <2>1
    <2> QED
      BY Zenon, <1>u, <2>1, <2>2
  <1>10. ASSUME NEW e \in Executors, Membership(e), ~registerExecutor(e), ~disconnect(e)
         PROVE  IteratorAhead'
    <2>1. UNCHANGED <<castVars, torn, id, terminate>>
      BY Zenon, <1>10 DEF Membership, startServer, registration_fails, disconnect_unregistered,
                   disconnect_server, shutdownServer_rpc, crash, histories
    <2>2. \A f \in due : node'[f] = "in" => node[f] = "in"
      BY ZenonT(60), <1>10, <1>t DEF Membership, startServer, registration_fails, disconnect_unregistered,
                         disconnect_server, shutdownServer_rpc, crash
    <2> QED
      BY Zenon, <1>u, <2>1, <2>2
  <1>11. CASE UNCHANGED vars
    BY Zenon, <1>11, <1>u DEF vars, nodeVars, histories
  <1> QED
    BY ZenonT(60), <1>1, <1>2, <1>3, <1>4, <1>5, <1>6, <1>7, <1>8, <1>9, <1>10, <1>11, Steps DEF Walk

(* A broadcast ends when the iterator has come to the end, with nobody ahead of it;
   afterwards nobody it was due to comes back. *)
LEMMA BroadcastStep ==
  ASSUME TypeOK, Registered, IteratorAhead, BroadcastReachesAll, [Next]_vars
  PROVE  BroadcastReachesAll'
PROOF
  <1>t. /\ due \subseteq Executors /\ faults \in Nat
        /\ id \in [Executors -> {0} \cup Ids] /\ terminate \in [Executors -> BOOLEAN]
        /\ node \in [Executors -> {"off", "listening", "in", "stopped", "gone", "crashed"}]
    BY Zenon DEF TypeOK
  <1>f. faults' = 0 => faults = 0
    BY <1>t, FaultStep
  <1>p. primary = "idle" /\ cast # NoCast /\ faults = 0 /\ ~torn => \A e \in due : Reached(e)
    BY Zenon DEF BroadcastReachesAll, Reached
  <1>q. ASSUME primary' = "idle" /\ cast' # NoCast /\ faults' = 0 /\ ~torn' => \A e \in due' : Reached(e)'
        PROVE  BroadcastReachesAll'
    BY ZenonT(60), <1>q DEF BroadcastReachesAll, Reached
  <1>u. ASSUME UNCHANGED <<castVars, torn>>,
               \A e \in due : node'[e] = "in" /\ ~terminate'[e] => node[e] = "in" /\ ~terminate[e]
        PROVE  BroadcastReachesAll'
    <2>1. UNCHANGED <<primary, cast, due, got, torn>>
      BY Zenon, <1>u DEF castVars
    <2>2. ASSUME NEW e \in due, Reached(e)
          PROVE  Reached(e)'
      BY Zenon, <1>u, <2>1, <2>2 DEF Reached
    <2> QED
      BY Zenon, <1>p, <1>q, <1>f, <2>1, <2>2
  <1>1. CASE broadcast_returns
    <2>1. /\ primary = "cast" /\ iter = 0 /\ UNCHANGED <<due, got, node, terminate, torn, faults>>
      BY Zenon, <1>1 DEF broadcast_returns, nodeVars, histories
    <2>2. faults = 0 /\ ~torn => \A e \in due : Reached(e)
      BY ZenonT(60), <2>1 DEF IteratorAhead
    <2>3. \A e \in due : Reached(e) => Reached(e)'
      BY Zenon, <2>1 DEF Reached
    <2> QED
      BY Zenon, <1>q, <2>1, <2>2, <2>3
  <1>2. CASE Walk /\ ~broadcast_returns
    <2>1. primary' # "idle"
      BY Zenon, <1>2 DEF Walk, broadcastQuery, shutdownServer, call, call_fails, sendCommand, sendCommand_fails
    <2> QED
      BY Zenon, <1>q, <2>1
  <1>3. CASE shutdown_returns
    <2>1. primary' # "idle"
      BY Zenon, <1>3 DEF shutdown_returns
    <2> QED
      BY Zenon, <1>q, <2>1
  <1>4. ASSUME NEW e \in Executors, task_step(e) \/ notify_step(e)
        PROVE  BroadcastReachesAll'
    <2>1. UNCHANGED <<castVars, torn, node, terminate>>
      BY Zenon, <1>4, TaskFrame DEF histories
    <2> QED
      BY Zenon, <1>u, <2>1
  <1>5. ASSUME NEW e \in Executors, registerExecutor(e)
        PROVE  BroadcastReachesAll'
    <2>1. PICK i \in Ids : /\ id[e] = 0 /\ node' = [node EXCEPT ![e] = "in"]
                           /\ UNCHANGED <<castVars, terminate, histories>>
      BY Zenon, <1>5, Registration
    <2>2. e \notin due
      BY Zenon, <2>1 DEF IteratorAhead
    <2>3. \A f \in due : node'[f] = node[f] /\ terminate'[f] = terminate[f]
      BY Zenon, <1>t, <2>1, <2>2
    <2> QED
      BY ZenonT(60), <1>u, <2>1, <2>3 DEF histories
  <1>6. ASSUME NEW e \in Executors, disconnect(e)
        PROVE  BroadcastReachesAll'
    <2>1. terminate' = [terminate EXCEPT ![e] = TRUE] /\ UNCHANGED <<castVars, torn, node>>
      BY Zenon, <1>6, Goodbye
    <2>2. \A f \in due : ~terminate'[f] => ~terminate[f]
      BY Zenon, <1>t, <2>1
    <2> QED
      BY ZenonT(60), <1>u, <2>1, <2>2
  <1>7. ASSUME NEW e \in Executors, Membership(e), ~registerExecutor(e), ~disconnect(e)
        PROVE  BroadcastReachesAll'
    <2>1. UNCHANGED <<castVars, torn, terminate>>
      BY ZenonT(60), <1>7 DEF Membership, startServer, registration_fails, disconnect_unregistered,
                  disconnect_server, shutdownServer_rpc, crash, histories
    <2>2. \A f \in due : node'[f] = "in" => node[f] = "in"
      BY Zenon, <1>7, <1>t DEF Membership, startServer, registration_fails, disconnect_unregistered,
                        disconnect_server, shutdownServer_rpc, crash
    <2> QED
      BY Zenon, <1>u, <2>1, <2>2
  <1>8. CASE UNCHANGED vars
    BY Zenon, <1>8, <1>u DEF vars, nodeVars, histories
  <1> QED
    BY ZenonT(60), <1>1, <1>2, <1>3, <1>4, <1>5, <1>6, <1>7, <1>8, Steps

-----------------------------------------------------------------------------
LEMMA TablesInit ==
  ASSUME Init
  PROVE  TablesInv /\ BroadcastReachesAll
PROOF
  <1>1. TypeOK
    <2>1. TypeCast
      BY Zenon DEF Init, TypeCast
    <2>2. TypeConn
      BY DEF Init, TypeConn
    <2>3. TypeNode
      BY Zenon DEF Init, TypeNode
    <2>4. TypeWork
      BY Zenon DEF Init, TypeWork
    <2> QED
      BY ZenonT(60), <2>1, <2>2, <2>3, <2>4, TypeParts DEF Init
  <1>2. AddressesMatch
    BY DEF Init, AddressesMatch
  <1>3. Registered
    BY DEF Init, Registered
  <1>4. AnswersAreCurrent
    BY ZenonT(60) DEF Init, AnswersAreCurrent
  <1>5. IteratorAhead
    BY Zenon DEF Init, IteratorAhead
  <1>6. BroadcastReachesAll
    BY Zenon DEF Init, BroadcastReachesAll
  <1> QED
    BY Zenon, <1>1, <1>2, <1>3, <1>4, <1>5, <1>6 DEF TablesInv

LEMMA TablesStep ==
  ASSUME TablesInv, [Next]_vars
  PROVE  TablesInv'
PROOF
  <1>1. TypeOK /\ AddressesMatch /\ Registered /\ AnswersAreCurrent /\ IteratorAhead
    BY Zenon DEF TablesInv
  <1>2. TypeOK'
    BY Zenon, <1>1, TypeStep
  <1>3. Registered'
    BY Zenon, <1>1, RegisteredStep
  <1>4. AddressesMatch'
    BY Zenon, <1>1, AddressStep
  <1>5. AnswersAreCurrent'
    BY Zenon, <1>1, AnswersStep
  <1>6. IteratorAhead'
    BY Zenon, <1>1, IteratorStep
  <1> QED
    BY Zenon, <1>2, <1>3, <1>4, <1>5, <1>6 DEF TablesInv

(* The tables of the primary fit one another, whatever registers, leaves, crashes or
   fails under its broadcasts: a connection belongs to the executor the id was
   given to, exec_address_map holds the addresses of the connections, and an
   executor that has not said goodbye is found under its id. *)
THEOREM TablesSafe == Spec => []TablesInv
PROOF
  <1>1. Init => TablesInv
    BY Zenon, TablesInit
  <1>2. TablesInv /\ [Next]_vars => TablesInv'
    BY Zenon, TablesStep
  <1> QED
    BY <1>1, <1>2, PTL DEF Spec

(* broadcastQuery walks client_conn without a lock while executors register and
   leave: when it returns, every executor connected at the start and still there has
   its task, if no call failed and no entry was erased under the iterator. *)
THEOREM BroadcastSafe == Spec => []BroadcastReachesAll
PROOF
  <1>1. Init => BroadcastReachesAll
    BY Zenon, TablesInit
  <1>2. TablesInv /\ BroadcastReachesAll /\ [Next]_vars => BroadcastReachesAll'
    BY Zenon, BroadcastStep DEF TablesInv
  <1> QED
    BY <1>1, <1>2, TablesSafe, PTL DEF Spec

-----------------------------------------------------------------------------
(* Answers *)

(* What is under way or received has the type of a notification. *)
LEMMA NotesTyped ==
  ASSUME TypeOK, NEW m \in Notes
  PROVE  m.from \in Executors /\ m.q \in Queries /\ m.n \in Nat
PROOF
  <1>1. m \in Note
    <2>1. CASE m \in wire
      BY Zenon, <2>1 DEF TypeOK
    <2>2. ASSUME NEW q \in Queries, m \in status[q]
          PROVE  m \in Note
      <3>1. status[q] \subseteq Note
        BY DEF TypeOK
      <3> QED
        BY Zenon, <2>2, <3>1
    <2> QED
      BY Zenon, <2>1, <2>2 DEF Notes
  <1> QED
    BY <1>1 DEF Note

(* A step that adds no statement and no notification keeps what is said of them, if
   it gives nobody a second id and the iterator goes no step back. *)
LEMMA AnswersFrame ==
  ASSUME TypeOK, TypeOK', AnsweredOnce, AnswersAhead,
         \A e \in Executors : tasks'[e] \subseteq tasks[e],
         \A e \in Executors : id[e] # 0 => id'[e] = id[e],
         wire' \subseteq wire, \A q \in Queries : status'[q] \subseteq status[q],
         torn => torn', cast'.n >= cast.n,
         primary' = "cast" /\ iter' # 0 /\ ~torn' =>
           \/ cast'.n > cast.n
           \/ cast' = cast /\ primary = "cast" /\ iter # 0 /\ ~torn /\ iter' >= iter
  PROVE  AnsweredOnce' /\ AnswersAhead'
PROOF
  <1>1. Notes' \subseteq Notes
    BY Zenon DEF Notes
  <1>2. \A m \in wire' : m.q \in Queries
    <2>1. \A m \in wire' : m \in Notes
      BY Zenon DEF Notes
    <2> QED
      BY Zenon, <2>1, NotesTyped
  <1>3. \A m \in Notes' : m \in Notes /\ m.from \in Executors /\ m.n \in Nat
    BY Zenon, <1>1, NotesTyped
  <1>4. AnsweredOnce'
    <2> SUFFICES ASSUME ~torn'
                 PROVE  /\ \A e \in Executors : \A t, u \in tasks'[e] : t.n = u.n => t = u
                        /\ \A m \in Notes' : \A t \in tasks'[m.from] : t.n # m.n
                        /\ \A m, l \in Notes' : m.from = l.from /\ m.n = l.n => m = l
                        /\ \A m \in wire' : m \notin status'[m.q]
      BY Zenon DEF AnsweredOnce
    <2>1. /\ \A e \in Executors : \A t, u \in tasks[e] : t.n = u.n => t = u
          /\ \A m \in Notes : \A t \in tasks[m.from] : t.n # m.n
          /\ \A m, l \in Notes : m.from = l.from /\ m.n = l.n => m = l
          /\ \A m \in wire : m \notin status[m.q]
      BY Zenon DEF AnsweredOnce
    <2> QED
      BY Zenon, <1>2, <1>3, <2>1
  <1>5. \A e \in Executors : \A t \in tasks'[e] : t \in tasks[e] /\ t.n \in Nat
    BY DEF TypeOK, Task
  <1>6. /\ cast.n \in Nat /\ cast'.n \in Nat
    BY DEF TypeOK, Task, NoCast
  <1>7. /\ \A e \in Executors : \A t \in tasks'[e] : t.n <= cast.n /\ id[e] # 0
        /\ \A m \in Notes' : m.n <= cast.n /\ id[m.from] # 0
    BY Zenon, <1>3, <1>5 DEF AnswersAhead
  <1>8. /\ \A e \in Executors : \A t \in tasks'[e] : t.n <= cast'.n /\ id'[e] # 0
        /\ \A m \in Notes' : m.n <= cast'.n /\ id'[m.from] # 0
    <2>1. \A n \in Nat : n <= cast.n => n <= cast'.n
      BY <1>6
    <2> QED
      BY Zenon, <1>3, <1>5, <1>7, <2>1
  <1>9. ASSUME primary' = "cast", iter' # 0, ~torn'
        PROVE  /\ \A e \in Executors : \A t \in tasks'[e] : id'[e] >= iter' => t.n # cast'.n
               /\ \A m \in Notes' : id'[m.from] >= iter' => m.n # cast'.n
    <2>1. CASE cast'.n > cast.n
      <3>1. \A n \in Nat : n <= cast.n => n # cast'.n
        BY <1>6, <2>1
      <3> QED
        BY Zenon, <1>3, <1>5, <1>7, <3>1
    <2>2. CASE cast' = cast /\ primary = "cast" /\ iter # 0 /\ ~torn /\ iter' >= iter
      <3>1. \A e \in Executors : id'[e] >= iter' /\ id[e] # 0 => id[e] >= iter
        <4>1. \A i \in Nat : i >= iter' => i >= iter
          BY <2>2 DEF TypeOK, Ids
        <4>2. \A e \in Executors : id[e] \in Nat
          BY DEF TypeOK, Ids
        <4> QED
          BY Zenon, <4>1, <4>2
      <3> QED
        BY Zenon, <1>3, <1>5, <1>7, <2>2, <3>1 DEF AnswersAhead
    <2> QED
      BY Zenon, <1>9, <2>1, <2>2
  <1> QED
    BY Zenon, <1>4, <1>8, <1>9 DEF AnswersAhead

(* A call reaches an executor that has nothing of this broadcast, and the iterator
   leaves it behind. *)
LEMMA AnswersCall ==
  ASSUME TypeOK, TypeOK', Registered, AnsweredOnce, AnswersAhead, call
  PROVE  AnsweredOnce' /\ AnswersAhead'
PROOF
  <1>1. PICK e \in Executors : /\ iter \in DOMAIN client_conn /\ client_conn[iter] = e
                               /\ tasks' = [tasks EXCEPT ![e] = @ \cup {cast}]
    BY ZenonT(60) DEF call, Callee, TypeOK
  <1>2. id[e] = iter
    BY Zenon, <1>1 DEF Registered
  <1>3. UNCHANGED <<primary, cast, id, wire, status>> /\ primary = "cast" /\ iter # 0
    BY Zenon DEF call
  <1>4. Notes' = Notes
    BY Zenon, <1>3 DEF Notes
  <1>5. \A f \in Executors : \A t \in tasks'[f] : t \in tasks[f] \/ (t = cast /\ f = e)
    BY Zenon, <1>1 DEF TypeOK
  <1>6. torn => torn'
    BY Zenon DEF call, advance
  <1>7. /\ \A t \in tasks[e] : ~torn => t.n # cast.n
        /\ \A m \in Notes : m.from = e /\ ~torn => m.n # cast.n
    <2>1. id[e] >= iter
      BY <1>2 DEF TypeOK, Ids
    <2> QED
      BY Zenon, <1>3, <2>1 DEF AnswersAhead
  <1>8. \A m \in Notes : m.from \in Executors
    BY Zenon, NotesTyped
  <1>9. AnsweredOnce'
    <2> SUFFICES ASSUME ~torn'
                 PROVE  /\ \A f \in Executors : \A t, u \in tasks'[f] : t.n = u.n => t = u
                        /\ \A m \in Notes : \A t \in tasks'[m.from] : t.n # m.n
                        /\ \A m, l \in Notes : m.from = l.from /\ m.n = l.n => m = l
                        /\ \A m \in wire : m \notin status[m.q]
      BY Zenon, <1>3, <1>4 DEF AnsweredOnce
    <2>1. /\ \A f \in Executors : \A t, u \in tasks[f] : t.n = u.n => t = u
          /\ \A m \in Notes : \A t \in tasks[m.from] : t.n # m.n
          /\ \A m, l \in Notes : m.from = l.from /\ m.n = l.n => m = l
          /\ \A m \in wire : m \notin status[m.q]
      BY Zenon, <1>6 DEF AnsweredOnce
    <2>2. ASSUME NEW f \in Executors, NEW t \in tasks'[f], NEW u \in tasks'[f], t.n = u.n
          PROVE  t = u
      <3>1. CASE t \in tasks[f] /\ u \in tasks[f]
        BY Zenon, <2>1, <2>2, <3>1
      <3>2. CASE t = cast /\ f = e /\ u \in tasks[f]
        BY Zenon, <1>6, <1>7, <2>2, <3>2
      <3>3. CASE u = cast /\ f = e /\ t \in tasks[f]
        BY Zenon, <1>6, <1>7, <2>2, <3>3
      <3>4. CASE t = cast /\ u = cast
        BY Zenon, <3>4
      <3> QED
        BY Zenon, <1>5, <3>1, <3>2, <3>3, <3>4
    <2>3. \A m \in Notes : \A t \in tasks'[m.from] : t.n # m.n
      BY Zenon, <1>5, <1>6, <1>7, <1>8, <2>1
    <2> QED
      BY Zenon, <2>1, <2>2, <2>3
  <1>10. cast.n \in Nat
    BY DEF TypeOK, Task, NoCast
  <1>11. /\ \A f \in Executors : \A t \in tasks'[f] : t.n <= cast.n /\ id[f] # 0
         /\ \A m \in Notes : m.n <= cast.n /\ id[m.from] # 0
    <2>1. cast.n <= cast.n
      BY <1>10
    <2> QED
      BY Zenon, <1>2, <1>3, <1>5, <2>1 DEF AnswersAhead
  <1>12. ASSUME iter' # 0, ~torn'
         PROVE  /\ \A f \in Executors : \A t \in tasks'[f] : id[f] >= iter' => t.n # cast.n
                /\ \A m \in Notes : id[m.from] >= iter' => m.n # cast.n
    <2>1. iter' \in Next_id(iter)
      BY Zenon, <1>12, <1>1 DEF call, advance
    <2>2. iter' > iter /\ iter' \in Nat /\ iter \in Nat
      BY <2>1, <1>12 DEF Next_id, TypeOK, Ids
    <2>3. \A f \in Executors : id[f] >= iter' => id[f] >= iter /\ f # e
      BY <1>2, <2>2 DEF TypeOK, Ids
    <2>4. ~torn
      BY Zenon, <1>6, <1>12
    <2> QED
      BY Zenon, <1>3, <1>5, <1>8, <2>3, <2>4 DEF AnswersAhead
  <1> QED
    BY Zenon, <1>3, <1>4, <1>9, <1>11, <1>12 DEF AnswersAhead

(* A statement that reports leaves its place in the thread pool to a notification. *)
LEMMA AnswersReport ==
  ASSUME TypeOK, TypeOK', AnsweredOnce, AnswersAhead,
         NEW e \in Executors, NEW t \in tasks[e], NEW s, Report(e, t, s), Done(e, t),
         UNCHANGED <<primary, cast, iter, id, status, torn>>
  PROVE  AnsweredOnce' /\ AnswersAhead'
PROOF
  <1> DEFINE note == [q |-> t.q, st |-> s, from |-> e, n |-> t.n]
  <1>1. note.from = e /\ note.n = t.n /\ note.q = t.q
    BY DEF note
  <1>2. wire' = wire \cup {note}
    BY Zenon DEF Report, note
  <1> HIDE DEF note
  <1>3. Notes' = Notes \cup {note}
    BY Zenon, <1>2 DEF Notes
  <1>4. \A f \in Executors : \A u \in tasks'[f] : u \in tasks[f] /\ (f = e => u # t)
    BY Zenon DEF Done, TypeOK
  <1>5. \A m \in Notes : m.from \in Executors
    BY Zenon, NotesTyped
  <1>6. AnsweredOnce'
    <2> SUFFICES ASSUME ~torn
                 PROVE  /\ \A f \in Executors : \A u, v \in tasks'[f] : u.n = v.n => u = v
                        /\ \A m \in Notes' : \A u \in tasks'[m.from] : u.n # m.n
                        /\ \A m, l \in Notes' : m.from = l.from /\ m.n = l.n => m = l
                        /\ \A m \in wire' : m \notin status[m.q]
      BY Zenon DEF AnsweredOnce
    <2>1. /\ \A f \in Executors : \A u, v \in tasks[f] : u.n = v.n => u = v
          /\ \A m \in Notes : \A u \in tasks[m.from] : u.n # m.n
          /\ \A m, l \in Notes : m.from = l.from /\ m.n = l.n => m = l
          /\ \A m \in wire : m \notin status[m.q]
      BY Zenon DEF AnsweredOnce
    <2>2. \A m \in Notes : m.from = e => m.n # t.n
      BY Zenon, <2>1
    <2>3. note \notin Notes
      BY Zenon, <1>1, <2>2
    <2>4. note \notin status[note.q]
      <3>1. t.q \in Queries
        BY DEF TypeOK, Task
      <3> QED
        BY Zenon, <1>1, <2>3, <3>1 DEF Notes
    <2>5. \A f \in Executors : \A u, v \in tasks'[f] : u.n = v.n => u = v
      BY Zenon, <1>4, <2>1
    <2>6. ASSUME NEW m \in Notes', NEW u \in tasks'[m.from]
          PROVE  u.n # m.n
      <3>1. CASE m \in Notes
        BY Zenon, <1>4, <1>5, <2>1, <3>1
      <3>2. CASE m = note
        <4>1. u \in tasks[e] /\ u # t
          BY Zenon, <1>1, <1>4, <3>2
        <4>2. u.n # t.n
          BY Zenon, <2>1, <4>1
        <4>3. m.n = t.n
          BY Zenon, <1>1, <3>2
        <4> QED
          BY Zenon, <4>2, <4>3
      <3> QED
        BY Zenon, <1>3, <3>1, <3>2
    <2>7. ASSUME NEW m \in Notes', NEW l \in Notes', m.from = l.from, m.n = l.n
          PROVE  m = l
      <3>1. CASE m \in Notes /\ l \in Notes
        BY Zenon, <2>1, <2>7, <3>1
      <3>2. CASE m = note /\ l \in Notes
        BY Zenon, <1>1, <2>2, <2>7, <3>2
      <3>3. CASE l = note /\ m \in Notes
        BY Zenon, <1>1, <2>2, <2>7, <3>3
      <3> QED
        BY Zenon, <1>3, <3>1, <3>2, <3>3
    <2>8. \A m \in wire' : m \notin status[m.q]
      BY Zenon, <1>2, <2>1, <2>4
    <2> QED
      BY Zenon, <2>5, <2>6, <2>7, <2>8
  <1>7. AnswersAhead'
    BY Zenon, <1>1, <1>3, <1>4 DEF AnswersAhead
  <1> QED
    BY Zenon, <1>6, <1>7

(* A notification that arrives becomes a status. *)
LEMMA AnswersArrive ==
  ASSUME TypeOK, TypeOK', AnsweredOnce, AnswersAhead, NEW m \in wire, QueryStatus(m)
  PROVE  AnsweredOnce' /\ AnswersAhead'
PROOF
  <1>1. /\ status' = [status EXCEPT ![m.q] = @ \cup {m}] /\ wire' = wire \ {m}
        /\ UNCHANGED <<primary, cast, iter, id, tasks, torn>>
    BY Zenon DEF QueryStatus, castVars, histories
  <1>2. \A q \in Queries : \A x \in status'[q] : x \in status[q] \/ x = m
    BY Zenon, <1>1 DEF TypeOK
  <1>3. Notes' \subseteq Notes
    BY Zenon, <1>1, <1>2 DEF Notes
  <1>4. AnsweredOnce'
    <2> SUFFICES ASSUME ~torn
                 PROVE  /\ \A f \in Executors : \A u, v \in tasks[f] : u.n = v.n => u = v
                        /\ \A x \in Notes' : \A u \in tasks[x.from] : u.n # x.n
                        /\ \A x, l \in Notes' : x.from = l.from /\ x.n = l.n => x = l
                        /\ \A x \in wire' : x \notin status'[x.q]
      BY Zenon, <1>1 DEF AnsweredOnce
    <2>1. /\ \A f \in Executors : \A u, v \in tasks[f] : u.n = v.n => u = v
          /\ \A x \in Notes : \A u \in tasks[x.from] : u.n # x.n
          /\ \A x, l \in Notes : x.from = l.from /\ x.n = l.n => x = l
          /\ \A x \in wire : x \notin status[x.q]
      BY Zenon DEF AnsweredOnce
    <2>2. \A x \in wire : x.q \in Queries
      BY Zenon, NotesTyped DEF Notes
    <2>3. \A x \in wire' : x \notin status'[x.q]
      BY Zenon, <1>1, <1>2, <2>1, <2>2
    <2> QED
      BY Zenon, <1>3, <2>1, <2>3
  <1>5. AnswersAhead'
    BY Zenon, <1>1, <1>3 DEF AnswersAhead
  <1> QED
    BY Zenon, <1>4, <1>5

(* Every step keeps both. *)
LEMMA AnsweredOnceStep ==
  ASSUME TypeOK, TypeOK', Registered, AnsweredOnce, AnswersAhead, [Next]_vars
  PROVE  AnsweredOnce' /\ AnswersAhead'
PROOF
  <1> DEFINE Goal == AnsweredOnce' /\ AnswersAhead'
             Kept == /\ UNCHANGED <<cast, status>> /\ wire' \subseteq wire
                     /\ \A e \in Executors : tasks'[e] \subseteq tasks[e]
                     /\ \A e \in Executors : id[e] # 0 => id'[e] = id[e]
                     /\ torn => torn'
  <1>a. cast.n \in Nat /\ iter \in Nat /\ cast'.n \in Nat
    <2>1. cast.n \in Nat
      BY DEF TypeOK, Task, NoCast
    <2>2. cast'.n \in Nat
      BY DEF TypeOK, Task, NoCast
    <2>3. iter \in Nat
      BY DEF TypeOK, Ids
    <2> QED
      BY Zenon, <2>1, <2>2, <2>3
  <1>b. cast.n >= cast.n /\ iter >= iter
    BY <1>a
  <1>c. ASSUME Kept, UNCHANGED <<primary, iter>> \/ primary' # "cast"
        PROVE  Goal
    <2>1. \A q \in Queries : status'[q] \subseteq status[q]
      BY Zenon, <1>c
    <2>2. primary' = "cast" /\ iter' # 0 /\ ~torn' =>
            cast' = cast /\ primary = "cast" /\ iter # 0 /\ ~torn /\ iter' >= iter
      BY Zenon, <1>b, <1>c
    <2>3. cast'.n >= cast.n
      BY Zenon, <1>b, <1>c
    <2> QED
      BY Zenon, <1>c, <2>1, <2>2, <2>3, AnswersFrame
  <1>d. ASSUME NEW e \in Executors, NEW t, Done(e, t)
        PROVE  \A f \in Executors : tasks'[f] \subseteq tasks[f]
    BY Zenon, <1>d DEF Done, TypeOK
  <1>1. ASSUME NEW kind \in Kinds, NEW q \in Queries, broadcastQuery(kind, q)
        PROVE  Goal
    <2>1. /\ cast' = [kind |-> kind, q |-> q, n |-> cast.n + 1] /\ status' = [status EXCEPT ![q] = {}]
          /\ UNCHANGED <<tasks, wire, id, torn>>
      BY Zenon, <1>1 DEF broadcastQuery, nodeVars
    <2>2. cast'.n > cast.n /\ cast'.n >= cast.n
      BY <1>a, <2>1
    <2>3. \A p \in Queries : status'[p] \subseteq status[p]
      BY Zenon, <2>1 DEF TypeOK
    <2> QED
      BY Zenon, <2>1, <2>2, <2>3, AnswersFrame
  <1>2. CASE call
    BY Zenon, <1>2, AnswersCall
  <1>3. CASE call_fails
    <2>1. UNCHANGED <<cast, status, tasks, wire, id, primary>> /\ iter # 0 /\ primary = "cast"
      BY Zenon, <1>3 DEF call_fails, nodeVars
    <2>2. torn => torn'
      BY Zenon, <1>3 DEF call_fails, advance
    <2>3. iter' # 0 /\ ~torn' => iter' >= iter
      <3> SUFFICES ASSUME iter' # 0, ~torn' PROVE iter' >= iter
        BY Zenon
      <3>1. iter' \in Next_id(iter)
        BY Zenon, <1>3 DEF call_fails, advance
      <3> QED
        BY <3>1 DEF Next_id, TypeOK, Ids
    <2> QED
      BY Zenon, <1>b, <2>1, <2>2, <2>3, AnswersFrame
  <1>4. CASE shutdownServer \/ broadcast_returns \/ sendCommand \/ sendCommand_fails \/ shutdown_returns
    <2>1. UNCHANGED <<cast, status, wire, tasks, id>>
      BY Zenon, <1>4 DEF shutdownServer, broadcast_returns, sendCommand, sendCommand_fails, shutdown_returns,
                         nodeVars
    <2>2. torn => torn'
      BY Zenon, <1>4 DEF shutdownServer, broadcast_returns, sendCommand, sendCommand_fails, shutdown_returns,
                         advance, histories
    <2>3. primary' # "cast"
      BY Zenon, <1>4 DEF shutdownServer, broadcast_returns, sendCommand, sendCommand_fails, shutdown_returns
    <2> QED
      BY Zenon, <1>c, <2>1, <2>2, <2>3
  <1>5. ASSUME NEW e \in Executors, NEW t \in tasks[e],
               prepareStatement(e, t) \/ prepareStatement_fails(e, t) \/ executeStatement(e, t)
        PROVE  Goal
    <2>1. UNCHANGED <<primary, cast, iter, id, status, torn>>
      BY Zenon, <1>5 DEF prepareStatement, prepareStatement_fails, executeStatement, taskUnchanged,
                         castVars, histories
    <2>2. Done(e, t) /\ \E s \in {"PREPARED", "ERROR", "EXECUTED"} : Report(e, t, s)
      BY Zenon, <1>5 DEF prepareStatement, prepareStatement_fails, executeStatement
    <2> QED
      BY Zenon, <2>1, <2>2, AnswersReport
  <1>6. ASSUME NEW e \in Executors, NEW t \in tasks[e],
               executeStatement_fails(e, t) \/ executeStatement_unprepared(e, t)
        PROVE  Goal
    <2>1. Done(e, t) /\ UNCHANGED <<primary, cast, iter, id, status, torn, wire>>
      BY Zenon, <1>6 DEF executeStatement_fails, executeStatement_unprepared, taskUnchanged,
                         castVars, histories
    <2> QED
      BY Zenon, <1>c, <1>d, <2>1
  <1>7. ASSUME NEW m \in wire, QueryStatus(m)
        PROVE  Goal
    BY Zenon, <1>7, AnswersArrive
  <1>8. ASSUME NEW m \in wire, QueryStatus_fails(m)
        PROVE  Goal
    <2>1. wire' \subseteq wire /\ UNCHANGED <<primary, cast, iter, id, status, torn, tasks>>
      BY Zenon, <1>8 DEF QueryStatus_fails, castVars, histories
    <2> QED
      BY Zenon, <1>c, <2>1
  <1>9. ASSUME NEW e \in Executors, Membership(e)
        PROVE  Goal
    <2>1. wire' \subseteq wire /\ UNCHANGED <<primary, cast, iter, status, torn, tasks>>
      BY Zenon, <1>9 DEF Membership, startServer, registerExecutor, registration_fails, disconnect,
                 disconnect_unregistered, disconnect_server, shutdownServer_rpc, crash, castVars, histories
    <2>2. CASE registerExecutor(e)
      <3>1. id[e] = 0
        BY Zenon, <2>2 DEF registerExecutor, Registered
      <3>2. \A f \in Executors : f # e => id'[f] = id[f]
        BY Zenon, <2>2 DEF registerExecutor, TypeOK
      <3> QED
        BY Zenon, <1>c, <2>1, <3>1, <3>2
    <2>3. CASE ~registerExecutor(e)
      <3>1. UNCHANGED id
        BY Zenon, <1>9, <2>3 DEF Membership, startServer, registration_fails, disconnect,
                   disconnect_unregistered, disconnect_server, shutdownServer_rpc, crash
      <3> QED
        BY Zenon, <1>c, <2>1, <3>1
    <2> QED
      BY Zenon, <2>2, <2>3
  <1>10. CASE UNCHANGED vars
    <2>1. UNCHANGED <<primary, cast, iter, id, status, torn, tasks, wire>>
      BY Zenon, <1>10 DEF vars, nodeVars, castVars, histories
    <2> QED
      BY Zenon, <1>c, <2>1
  <1>11. ASSUME NEW e \in Executors, task_step(e) \/ notify_step(e)
         PROVE  Goal
    BY Zenon, <1>5, <1>6, <1>7, <1>8, <1>11 DEF task_step, notify_step
  <1>12. CASE Walk
    BY Zenon, <1>1, <1>2, <1>3, <1>4, <1>12 DEF Walk
  <1> QED
    BY Zenon, <1>4, <1>9, <1>10, <1>11, <1>12, Steps

(* An executor answers a broadcast at most once, whoever registers, leaves or crashes
   under it and however broadcasts overlap (the broadcasts of cluster-control.cpp,
   prepareStatement, executeStatement and _updateQueryStatus), unless an entry was
   erased under the iterator. *)
THEOREM AnsweredOnceSafe == Spec => []AnsweredOnce
PROOF
  <1>1. Init => AnsweredOnce /\ AnswersAhead
    <2> SUFFICES ASSUME Init PROVE AnsweredOnce /\ AnswersAhead
      BY Zenon
    <2>1. Notes = {} /\ wire = {} /\ \A e \in Executors : tasks[e] = {}
      BY Zenon DEF Init, Notes
    <2>2. primary # "cast"
      BY Zenon DEF Init
    <2> QED
      BY Zenon, <2>1, <2>2 DEF AnsweredOnce, AnswersAhead
  <1>2. TablesInv /\ TablesInv' /\ AnsweredOnce /\ AnswersAhead /\ [Next]_vars
          => AnsweredOnce' /\ AnswersAhead'
    BY Zenon, AnsweredOnceStep DEF TablesInv
  <1> QED
    BY <1>1, <1>2, TablesSafe, PTL DEF Spec
=============================================================================
