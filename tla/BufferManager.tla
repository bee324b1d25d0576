--------------------------- MODULE BufferManager ---------------------------
(***************************************************************************)
(* The buffer pools of one GPU and one NUMA node.  Free GPU buffers lie on *)
(* a stack in GPU memory (pool); host threads take them from and return    *)
(* them to a cache on the host (device_buffs_pool).  A manager thread      *)
(* refills the cache and releasing threads empty it when it is too full,   *)
(* both through kernels that exchange buffers with the GPU's stack by way  *)
(* of one staging array (device_buff), on one stream.                      *)
(*                                                                         *)
(* Host buffers are counted references (buffer_cache).  Those a kernel     *)
(* gives up go to a second stack in GPU memory (npool), which a collecting *)
(* thread visits.                                                          *)
(***************************************************************************)
EXTENDS Integers, Sequences, FiniteSets, FiniteSetsExt, SequencesExt

CONSTANTS
  Clients,        \* host threads that take and return buffers
  DevBufs,        \* the GPU's buffers
  HostBufs,       \* the NUMA node's buffers
  DeviceBuffSize, \* device_buff_size: buffers one kernel moves (64)
  KeepThreshold,  \* keep_threshold: what the cache may keep (128)
  LowWater,       \* device_buff_size / 4: below it the manager refills (16)
  Budgets         \* bounds, one of which a behaviour keeps: calls of each kind

ASSUME BufferManagerAssumption ==
  /\ LowWater \in Nat \ {0} /\ DeviceBuffSize \in Nat \ {0}
  /\ KeepThreshold \in Nat /\ DeviceBuffSize < KeepThreshold
  /\ LowWater + DeviceBuffSize <= KeepThreshold
  /\ DeviceBuffSize < Cardinality(DevBufs)
  /\ Budgets \subseteq [get : Nat, kernel : Nat, host : Nat, share : Nat, remote : Nat,
                         spurious : Nat]

VARIABLES
  budget,
  pc,                \* where each thread is
  at,                \* the host buffer a thread is working on
  pool,              \* GPU buffers on the stack in GPU memory
  device_buffs_pool, \* GPU buffers in the host's cache
  device_buff,       \* the staging array
  stream,            \* threads whose kernels are queued on release_streams
  held,              \* GPU buffers of each client
  h_pool,            \* free host buffers
  buffer_cache,      \* reference count of each host buffer
  refs,              \* the references each client has
  npool,             \* host buffers given up by kernels
  stage,             \* those the collecting thread has fetched
  terminating,
  dead,              \* an assertion has failed
  clobbered,         \* HISTORY: device_buff was overwritten while in use
  crowded,           \* HISTORY: a buffer was returned during a refill
  missed             \* HISTORY: the manager was about to sleep when notified

devVars == <<pool, device_buffs_pool, device_buff, stream, held, clobbered, crowded>>
hostVars == <<at, h_pool, buffer_cache, refs, npool, stage>>
endVars == <<terminating, dead, missed>>
vars == <<budget, pc, devVars, hostVars, endVars>>

Threads == Clients \cup {"mgr", "gc", "main"}
Null == "null"

Init ==
  /\ budget \in Budgets
  /\ pc = [t \in Threads |-> CASE t = "mgr" -> "check" [] t = "gc" -> "scan"
                               [] t = "main" -> "run" [] OTHER -> "idle"]
  /\ at = [t \in Threads |-> Null]
  /\ pool = SetToSeq(DevBufs) /\ device_buffs_pool = <<>>
  /\ device_buff = [i \in 1 .. KeepThreshold |-> Null]
  /\ stream = <<>>
  /\ held = [c \in Clients |-> {}]
  /\ h_pool = SetToSeq(HostBufs)
  /\ buffer_cache = [b \in HostBufs |-> 0]
  /\ refs = [c \in Clients |-> [b \in HostBufs |-> 0]]
  /\ npool = <<>> /\ stage = <<>>
  /\ terminating = FALSE /\ dead = FALSE
  /\ clobbered = FALSE /\ crowded = FALSE /\ missed = FALSE

(* Nobody calls the buffer manager once it is being destroyed. *)
Calls(c, what) ==
  /\ pc[c] = "idle" /\ ~terminating
  /\ budget[what] > 0 /\ budget' = [budget EXCEPT ![what] = @ - 1]

(* device_buffs_mutex: critical sections are steps, but for the manager between
   its predicate and its sleep. *)
MutexFree == pc["mgr"] # "blocking"

notify_all(p) ==
  [t \in Threads |-> IF p[t] # "asleep" THEN p[t]
                     ELSE IF t = "mgr" THEN "check" ELSE "get"]

(* The threads that count on what is in the staging array. *)
InUse == {t \in Threads : \/ t # "mgr" /\ pc[t] \in {"launch", "launched"}
                          \/ t = "mgr" /\ pc[t] = "synced"}

---------------------------------------------------------------------------
(* GPU buffers: taking                                                     *)

h_get_buffer(c) ==
  /\ Calls(c, "get")
  /\ pc' = [pc EXCEPT ![c] = "get"]
  /\ UNCHANGED <<devVars, hostVars, endVars>>

(* Variant: the manager is not told. *)
take_silent(c) ==
  /\ pc[c] = "get" /\ MutexFree /\ device_buffs_pool # <<>>
  /\ held' = [held EXCEPT ![c] = @ \cup {Last(device_buffs_pool)}]
  /\ device_buffs_pool' = Front(device_buffs_pool)
  /\ pc' = [pc EXCEPT ![c] = "idle"]
  /\ UNCHANGED <<budget, pool, device_buff, stream, clobbered, crowded, hostVars, endVars>>

take(c) ==
  /\ pc[c] = "get" /\ MutexFree /\ device_buffs_pool # <<>>
  /\ held' = [held EXCEPT ![c] = @ \cup {Last(device_buffs_pool)}]
  /\ device_buffs_pool' = Front(device_buffs_pool)
  /\ pc' = notify_all([pc EXCEPT ![c] = "idle"])
  /\ UNCHANGED <<budget, pool, device_buff, stream, clobbered, crowded, hostVars, endVars>>

wait_empty(c) ==
  /\ pc[c] = "get" /\ MutexFree /\ device_buffs_pool = <<>>
  /\ pc' = [pc EXCEPT ![c] = "asleep"]
  /\ UNCHANGED <<budget, devVars, hostVars, endVars>>

(* A kernel of the client takes a buffer from the GPU's stack, or gives one of
   the GPU's own back to it. *)
get_buffers(c) ==
  /\ Calls(c, "kernel") /\ pool # <<>>
  /\ held' = [held EXCEPT ![c] = @ \cup {Last(pool)}]
  /\ pool' = Front(pool)
  /\ UNCHANGED <<pc, device_buffs_pool, device_buff, stream, clobbered, crowded,
                 hostVars, endVars>>

release_buffers(c, b) ==
  /\ Calls(c, "kernel") /\ b \in held[c]
  /\ held' = [held EXCEPT ![c] = @ \ {b}]
  /\ pool' = Append(pool, b)
  /\ UNCHANGED <<pc, device_buffs_pool, device_buff, stream, clobbered, crowded,
                 hostVars, endVars>>

---------------------------------------------------------------------------
(* GPU buffers: returning                                                  *)

(* The last DeviceBuffSize buffers of q, as the loop copies them. *)
Staged(q) ==
  [i \in 1 .. KeepThreshold |->
     IF i <= DeviceBuffSize THEN q[Len(q) - i + 1] ELSE device_buff[i]]

(* Variant: the array is taken to hold one more. *)
trim_late(c, q) ==
  IF Len(q) > KeepThreshold + 1
    THEN /\ device_buff' = Staged(q)
         /\ device_buffs_pool' = SubSeq(q, 1, Len(q) - DeviceBuffSize)
         /\ clobbered' = (clobbered \/ InUse \ {c} # {})
         /\ pc' = [pc EXCEPT ![c] = "launch"]
    ELSE /\ device_buffs_pool' = q
         /\ pc' = notify_all([pc EXCEPT ![c] = "idle"])
         /\ UNCHANGED <<device_buff, clobbered>>

(* Variant: what was copied stays in the cache. *)
trim_unerased(c, q) ==
  IF Len(q) > KeepThreshold
    THEN /\ device_buff' = Staged(q)
         /\ device_buffs_pool' = q
         /\ clobbered' = (clobbered \/ InUse \ {c} # {})
         /\ pc' = [pc EXCEPT ![c] = "launch"]
    ELSE /\ device_buffs_pool' = q
         /\ pc' = notify_all([pc EXCEPT ![c] = "idle"])
         /\ UNCHANGED <<device_buff, clobbered>>

(* A round of the releasing thread's loop, the cache being q: the surplus goes to
   the staging array and the mutex is released, or the thread is done. *)
trim(c, q) ==
  IF Len(q) > KeepThreshold
    THEN /\ device_buff' = Staged(q)
         /\ device_buffs_pool' = SubSeq(q, 1, Len(q) - DeviceBuffSize)
         /\ clobbered' = (clobbered \/ InUse \ {c} # {})
         /\ pc' = [pc EXCEPT ![c] = "launch"]
    ELSE /\ device_buffs_pool' = q
         /\ pc' = notify_all([pc EXCEPT ![c] = "idle"])
         /\ UNCHANGED <<device_buff, clobbered>>

release_devbuffer(c, b) ==
  /\ pc[c] = "idle" /\ ~terminating /\ MutexFree /\ b \in held[c]
  /\ held' = [held EXCEPT ![c] = @ \ {b}]
  /\ trim(c, Append(device_buffs_pool, b))
  /\ crowded' = (crowded \/ pc["mgr"] \in {"fetch", "launched", "synced"})
  /\ UNCHANGED <<budget, pool, stream, hostVars, endVars>>

launch_release(c) ==
  /\ pc[c] = "launch"
  /\ stream' = Append(stream, c)
  /\ pc' = [pc EXCEPT ![c] = "launched"]
  /\ UNCHANGED <<budget, pool, device_buffs_pool, device_buff, held, clobbered, crowded,
                 hostVars, endVars>>

relock(c) ==
  /\ pc[c] = "synced" /\ MutexFree
  /\ trim(c, device_buffs_pool)
  /\ UNCHANGED <<budget, pool, stream, held, crowded, hostVars, endVars>>

---------------------------------------------------------------------------
(* The kernels of the stream, one after the other                          *)

NonNull(x) == x # Null

(* The entries of the staging array the kernel of thread t is given. *)
Given(t) ==
  SelectSeq(SubSeq(device_buff, 1, IF t = "main" THEN Len(device_buffs_pool)
                                                 ELSE DeviceBuffSize), NonNull)

release_buffer_host(t) ==
  /\ stream # <<>> /\ Head(stream) = t /\ t # "mgr"
  /\ pool' = pool \o Given(t)
  /\ stream' = Tail(stream)
  /\ pc' = [pc EXCEPT ![t] = "synced"]
  /\ UNCHANGED <<budget, device_buffs_pool, device_buff, held, clobbered, crowded,
                 hostVars, endVars>>

get_buffer_host ==
  /\ stream # <<>> /\ Head(stream) = "mgr"
  /\ device_buff' = [i \in 1 .. KeepThreshold |->
                       IF i > DeviceBuffSize THEN device_buff[i]
                       ELSE IF i <= Len(pool) THEN pool[Len(pool) - i + 1] ELSE Null]
  /\ pool' = SubSeq(pool, 1, Len(pool) - DeviceBuffSize)
  /\ clobbered' = (clobbered \/ InUse # {})
  /\ stream' = Tail(stream)
  /\ pc' = [pc EXCEPT !["mgr"] = "synced"]
  /\ UNCHANGED <<budget, device_buffs_pool, held, crowded, hostVars, endVars>>

---------------------------------------------------------------------------
(* The manager                                                             *)

(* The predicate, evaluated under the mutex; "blocking" still holds it. *)
wait_low ==
  /\ pc["mgr"] = "check"
  /\ pc' = [pc EXCEPT !["mgr"] = IF terminating THEN "exit"
                                 ELSE IF Len(device_buffs_pool) < LowWater THEN "fetch"
                                 ELSE "blocking"]
  /\ UNCHANGED <<budget, devVars, hostVars, endVars>>

sleep ==
  /\ pc["mgr"] = "blocking"
  /\ pc' = [pc EXCEPT !["mgr"] = "asleep"]
  /\ UNCHANGED <<budget, devVars, hostVars, endVars>>

fetch ==
  /\ pc["mgr"] = "fetch"
  /\ stream' = Append(stream, "mgr")
  /\ pc' = [pc EXCEPT !["mgr"] = "launched"]
  /\ UNCHANGED <<budget, pool, device_buffs_pool, device_buff, held, clobbered, crowded,
                 hostVars, endVars>>

collect ==
  /\ pc["mgr"] = "synced"
  /\ device_buffs_pool' = device_buffs_pool \o Given("mgr")
  /\ pc' = notify_all([pc EXCEPT !["mgr"] = "check"])
  /\ UNCHANGED <<budget, pool, device_buff, stream, held, clobbered, crowded,
                 hostVars, endVars>>

manager == wait_low \/ sleep \/ fetch \/ collect

---------------------------------------------------------------------------
(* Host buffers                                                            *)

(* The pop of the node's stack waits for a buffer; its push notifies under the
   stack's mutex. *)
get_buffer_numa(c) ==
  /\ Calls(c, "host") /\ h_pool # <<>>
  /\ at' = [at EXCEPT ![c] = Last(h_pool)]
  /\ h_pool' = Front(h_pool)
  /\ pc' = [pc EXCEPT ![c] = "popped"]
  /\ UNCHANGED <<devVars, buffer_cache, refs, npool, stage, endVars>>

count_first(c) ==
  /\ pc[c] = "popped"
  /\ dead' = (buffer_cache[at[c]] # 0)
  /\ buffer_cache' = [buffer_cache EXCEPT ![at[c]] = @ + 1]
  /\ refs' = [refs EXCEPT ![c][at[c]] = @ + 1]
  /\ pc' = [pc EXCEPT ![c] = "idle"] /\ at' = [at EXCEPT ![c] = Null]
  /\ UNCHANGED <<budget, devVars, h_pool, npool, stage, terminating, missed>>

(* The new reference is for any client d. *)
share_host_buffer(c, d, b) ==
  /\ Calls(c, "share") /\ refs[c][b] > 0
  /\ dead' = (buffer_cache[b] = 0)
  /\ buffer_cache' = [buffer_cache EXCEPT ![b] = @ + 1]
  /\ refs' = [refs EXCEPT ![d][b] = @ + 1]
  /\ UNCHANGED <<pc, devVars, at, h_pool, npool, stage, terminating, missed>>

(* Variant: the reference count is looked at before it is lowered. *)
drop_reference_early(t, b, next) ==
  /\ dead' = (buffer_cache[b] < 1)
  /\ buffer_cache' = [buffer_cache EXCEPT ![b] = @ - 1]
  /\ IF buffer_cache[b] >= 1
       THEN pc' = [pc EXCEPT ![t] = "dropped"] /\ at' = [at EXCEPT ![t] = b]
       ELSE pc' = [pc EXCEPT ![t] = next] /\ UNCHANGED at

drop_reference(t, b, next) ==
  /\ dead' = (buffer_cache[b] < 1)
  /\ buffer_cache' = [buffer_cache EXCEPT ![b] = @ - 1]
  /\ IF buffer_cache[b] = 1
       THEN pc' = [pc EXCEPT ![t] = "dropped"] /\ at' = [at EXCEPT ![t] = b]
       ELSE pc' = [pc EXCEPT ![t] = next] /\ UNCHANGED at

release_hostbuffer(c, b) ==
  /\ pc[c] = "idle" /\ ~terminating /\ refs[c][b] > 0
  /\ refs' = [refs EXCEPT ![c][b] = @ - 1]
  /\ drop_reference(c, b, "idle")
  /\ UNCHANGED <<budget, devVars, h_pool, npool, stage, terminating, missed>>

push_free(t) ==
  /\ pc[t] = "dropped"
  /\ h_pool' = Append(h_pool, at[t])
  /\ pc' = [pc EXCEPT ![t] = IF t = "gc" THEN "release" ELSE "idle"]
  /\ at' = [at EXCEPT ![t] = Null]
  /\ UNCHANGED <<budget, devVars, buffer_cache, refs, npool, stage, endVars>>

(* A kernel of the client gives a host buffer up: it spins for the lock of
   npool, and pushes while it holds it. *)
NpoolFree == \A c \in Clients : pc[c] # "pushing"

release_remote(c, b) ==
  /\ Calls(c, "remote") /\ refs[c][b] > 0 /\ NpoolFree
  /\ refs' = [refs EXCEPT ![c][b] = @ - 1]
  /\ at' = [at EXCEPT ![c] = b]
  /\ pc' = [pc EXCEPT ![c] = "pushing"]
  /\ UNCHANGED <<devVars, h_pool, buffer_cache, npool, stage, endVars>>

push_remote(c) ==
  /\ pc[c] = "pushing"
  /\ npool' = Append(npool, at[c])
  /\ pc' = [pc EXCEPT ![c] = "idle"] /\ at' = [at EXCEPT ![c] = Null]
  /\ UNCHANGED <<budget, devVars, h_pool, buffer_cache, refs, stage, endVars>>

---------------------------------------------------------------------------
(* The collecting thread                                                   *)

(* try_pop: stops at an empty stack, and when a kernel holds the lock. *)
find_released_remote_buffers ==
  /\ pc["gc"] = "scan"
  /\ IF npool # <<>> /\ NpoolFree
       THEN /\ stage' = Append(stage, Last(npool)) /\ npool' = Front(npool)
            /\ UNCHANGED pc
       ELSE /\ pc' = [pc EXCEPT !["gc"] = IF stage = <<>> THEN "nothing" ELSE "release"]
            /\ UNCHANGED <<stage, npool>>
  /\ UNCHANGED <<budget, devVars, at, h_pool, buffer_cache, refs, endVars>>

release_fetched ==
  /\ pc["gc"] = "release" /\ stage # <<>>
  /\ stage' = Tail(stage)
  /\ drop_reference("gc", Head(stage), "release")
  /\ UNCHANGED <<budget, devVars, h_pool, refs, npool, terminating, missed>>

next_round ==
  /\ \/ pc["gc"] = "release" /\ stage = <<>> /\ pc' = [pc EXCEPT !["gc"] = "scan"]
     \/ /\ pc["gc"] = "nothing"
        /\ pc' = [pc EXCEPT !["gc"] = IF terminating THEN "exit" ELSE "scan"]
  /\ UNCHANGED <<budget, devVars, hostVars, endVars>>

find_released_buffers ==
  find_released_remote_buffers \/ release_fetched \/ push_free("gc") \/ next_round

---------------------------------------------------------------------------
(* destroy                                                                 *)

(* Called when no call is under way; terminating is set without the mutex. *)
destroy ==
  /\ pc["main"] = "run" /\ \A c \in Clients : pc[c] = "idle"
  /\ terminating' = TRUE
  /\ pc' = [pc EXCEPT !["main"] = "join_gc"]
  /\ UNCHANGED <<budget, devVars, hostVars, dead, missed>>

(* The notification does not take the mutex either. *)
notify_manager ==
  /\ pc["main"] = "join_gc" /\ pc["gc"] = "exit"
  /\ missed' = (pc["mgr"] = "blocking")
  /\ pc' = notify_all([pc EXCEPT !["main"] = "join_mgr"])
  /\ UNCHANGED <<budget, devVars, hostVars, terminating, dead>>

drain ==
  /\ pc["main"] = "join_mgr" /\ pc["mgr"] = "exit"
  /\ IF Len(device_buffs_pool) > KeepThreshold
       THEN dead' = TRUE /\ UNCHANGED <<pc, device_buff, stream>>
       ELSE /\ device_buff' = [i \in 1 .. KeepThreshold |->
                 IF i <= Len(device_buffs_pool) THEN device_buffs_pool[i] ELSE device_buff[i]]
            /\ stream' = Append(stream, "main")
            /\ pc' = [pc EXCEPT !["main"] = "launched"]
            /\ UNCHANGED dead
  /\ UNCHANGED <<budget, pool, device_buffs_pool, held, clobbered, crowded, hostVars,
                 terminating, missed>>

(* The pools are deleted. *)
delete_pools ==
  /\ pc["main"] = "synced"
  /\ device_buffs_pool' = <<>>
  /\ pc' = [pc EXCEPT !["main"] = "done"]
  /\ UNCHANGED <<budget, pool, device_buff, stream, held, clobbered, crowded,
                 hostVars, endVars>>

---------------------------------------------------------------------------
spurious_wakeup(t) ==
  /\ pc[t] = "asleep"
  /\ budget.spurious > 0 /\ budget' = [budget EXCEPT !.spurious = @ - 1]
  /\ pc' = [pc EXCEPT ![t] = IF t = "mgr" THEN "check" ELSE "get"]
  /\ UNCHANGED <<devVars, hostVars, endVars>>

kernels == (\E t \in Clients \cup {"main"} : release_buffer_host(t)) \/ get_buffer_host

finish(c) ==
  take(c) \/ wait_empty(c) \/ launch_release(c) \/ relock(c) \/ count_first(c)
    \/ push_free(c) \/ push_remote(c)

start(c) ==
  \/ h_get_buffer(c) \/ get_buffers(c) \/ get_buffer_numa(c)
  \/ \E b \in DevBufs : release_devbuffer(c, b) \/ release_buffers(c, b)
  \/ \E b \in HostBufs : \/ release_hostbuffer(c, b) \/ release_remote(c, b)
                         \/ \E d \in Clients : share_host_buffer(c, d, b)

shutdown == notify_manager \/ drain \/ delete_pools

Next ==
  /\ ~dead
  /\ \/ \E c \in Clients : start(c) \/ finish(c)
     \/ manager \/ find_released_buffers \/ kernels
     \/ destroy \/ shutdown
     \/ \E t \in Clients \cup {"mgr"} : spurious_wakeup(t)

(* Threads run and kernels complete; nobody has to call anything, and nobody is
   woken but by a notification. *)
Fairness ==
  /\ \A c \in Clients : WF_vars(~dead /\ finish(c))
  /\ WF_vars(~dead /\ manager)
  /\ WF_vars(~dead /\ find_released_buffers)
  /\ WF_vars(~dead /\ kernels)
  /\ WF_vars(~dead /\ shutdown)

Spec == Init /\ [][Next]_vars /\ Fairness

---------------------------------------------------------------------------
(* Properties                                                              *)

(* Every field has its type; device_buffs_pool holds no null pointer. *)
TypeOK ==
  /\ \A k \in DOMAIN budget : budget[k] \in Nat
  /\ pc \in [Threads -> {"idle", "get", "asleep", "launch", "launched", "synced", "popped",
                         "dropped", "pushing", "check", "blocking", "fetch", "exit",
                         "scan", "nothing", "release", "run", "join_gc", "join_mgr", "done"}]
  /\ at \in [Threads -> HostBufs \cup {Null}]
  /\ pool \in Seq(DevBufs) /\ device_buffs_pool \in Seq(DevBufs)
  /\ device_buff \in [1 .. KeepThreshold -> DevBufs \cup {Null}]
  /\ stream \in Seq(Threads) /\ held \in [Clients -> SUBSET DevBufs]
  /\ h_pool \in Seq(HostBufs) /\ buffer_cache \in [HostBufs -> Int]
  /\ refs \in [Clients -> [HostBufs -> Nat]]
  /\ npool \in Seq(HostBufs) /\ stage \in Seq(HostBufs)
  /\ {terminating, dead, clobbered, crowded, missed} \subseteq BOOLEAN

Times(s, b) == Cardinality({i \in DOMAIN s : s[i] = b})

(* A GPU buffer is in exactly one place: on the GPU's stack, in the host's cache,
   in the staging array between two kernels, or with one client (__release_buffer_host,
   dev_buff_manager, destroy), unless the staging array, which is used without the
   mutex, was overwritten while a kernel or the manager had still to read it. *)
DeviceBufferInOnePlace ==
  clobbered \/ pc["main"] = "synced" \/
  \A b \in DevBufs :
    Times(pool, b) + Times(device_buffs_pool, b) + Cardinality({c \in Clients : b \in held[c]})
      + (IF InUse \ {"main"} # {} THEN Times(Given("mgr"), b) ELSE 0) = 1

(* A host buffer is free exactly once, or has as many references as its count says,
   those included that kernels gave up and nobody has collected yet.  The assertions
   of get_buffer_numa, share_host_buffer and __release_buffer_host on the counts hold:
   the only assertion that can fail is the one of destroy. *)
HostBufferCounted ==
  /\ dead => pc["main"] = "join_mgr"
  /\ \A b \in HostBufs :
       LET references(c) == refs[c][b] + (IF pc[c] = "pushing" /\ at[c] = b THEN 1 ELSE 0)
           between == {t \in Threads : pc[t] \in {"popped", "dropped"} /\ at[t] = b}
       IN  /\ buffer_cache[b] = MapThenSumSet(references, Clients)
                                  + Times(npool, b) + Times(stage, b)
           /\ Times(h_pool, b) + Cardinality(between) = IF buffer_cache[b] = 0 THEN 1 ELSE 0

(* When destroy drains the cache it finds no more than keep_threshold buffers, the
   size of the staging array it copies them to and the bound it asserts, unless a
   buffer was returned while the manager was refilling the cache: the releasing
   thread then sees the cache before the refill, and the manager has no upper bound. *)
DrainFits == (dead /\ pc["main"] = "join_mgr") => crowded

(* h_get_buffer returns unless at some moment no GPU buffer is free, although a waiting
   thread depends on the manager having been told that the cache is low. *)
GetReturns ==
  \A c \in Clients :
    pc[c] \in {"get", "asleep"} ~>
      \/ pc[c] \notin {"get", "asleep"} \/ dead
      \/ pool = <<>> /\ device_buffs_pool = <<>> /\ InUse = {}

(* What a kernel gives up is collected, although try_pop gives way to every push,
   unless the buffer manager is destroyed (find_released_buffers may then leave with
   a buffer that came between its last look and its reading of terminating). *)
RemoteCollected ==
  \A b \in HostBufs : (Times(npool, b) > 0) ~> (Times(npool, b) = 0 \/ terminating \/ dead)

(* destroy returns, unless its notification, sent without the mutex, came when the
   manager had found nothing to do and was not asleep yet. *)
DestroyReturns == terminating ~> (pc["main"] = "done" \/ dead \/ missed)

(* The invariant of the pools: types, and host buffers counted right. *)
PoolsInv == TypeOK /\ HostBufferCounted

(* Nobody waits for ever: neither a taker of a buffer, nor a buffer a kernel
   gave up, nor destroy. *)
NobodyWaitsForEver == GetReturns /\ RemoteCollected /\ DestroyReturns
=============================================================================
