----------------------------- MODULE OneShotGC -----------------------------
(***************************************************************************)
(* The transaction path of the OLTP engine ("Aeolus") and the one-shot     *)
(* garbage collection of its multi-version storage.                        *)
(*                                                                         *)
(* Worker threads run stored procedures one after the other                *)
(* (TransactionManager::executeFullQueue).  A transaction takes a start    *)
(* time, publishes it in its thread's table, registers with the delta      *)
(* store its start time selects, locks what it will write, reads and       *)
(* writes records, and ends.  An overwritten record is copied into the     *)
(* writer's delta store, and a delta store is reclaimed as a whole: when   *)
(* its last registered worker leaves (or a read-only transaction ends),    *)
(* the collector scans the published start times and, if all are beyond    *)
(* everything the store was used for, increments the store's tag, which    *)
(* invalidates every pointer into it.                                      *)
(*                                                                         *)
(* Each step of an action is one atomic access of the code: the window     *)
(* between taking a start time and publishing it, and the slot by slot     *)
(* scan of the collector, are steps of their own.                          *)
(***************************************************************************)
EXTENDS Integers, Sequences, FiniteSets

CONSTANTS
  NumWorkers,    \* worker threads; the registry lists them in the order 1, 2, ...
  Records,       \* records of the store
  NumDeltas,     \* global_conf::num_delta_storages
  DeltaSwitch,   \* 2^delta_switch_bit: consecutive start times of one delta
  TagWrap,       \* 2^tag_bits: what a pointer keeps of a delta's tag
  TxnIdBase,     \* 2^baseShift: a transaction's id is start time * TxnIdBase
  ReaderBias,    \* -INT64_MIN: a delta that is collected has -ReaderBias readers
  MaxTs          \* bound: the last start time the generator hands out

ASSUME OneShotAssumption ==
  /\ NumWorkers \in Nat \ {0}
  /\ NumDeltas \in Nat \ {0}
  /\ DeltaSwitch \in Nat \ {0}
  /\ TagWrap \in Nat \ {0, 1}
  /\ TxnIdBase \in Nat \ {0}
  /\ MaxTs \in Nat
  /\ ReaderBias \in Nat
  /\ NumWorkers < ReaderBias

Workers == 1 .. NumWorkers
Deltas == 0 .. NumDeltas - 1

VARIABLES
  gen,         \* txnPairGen::gen, the next start time
  pc,          \* where each worker is in executeFullQueue
  ts,          \* start time of the worker's transaction
  ro,          \* its StoredProcedure::readOnly
  todo,        \* records it still has to lock
  held,        \* records it has locked and not yet written
  min_active,  \* ThreadLocal_TransactionTable::min_active
  cur,         \* thread-local current_delta_id, NoDelta for -1
  readers,     \* CircularDeltaStore::readers
  epoch,       \* meta2::max_active_epoch of each delta and thread
  tag,         \* CircularDeltaStore::tag
  t_min,       \* PRIMARY_INDEX_VAL::ts.t_min of each record
  chain,       \* the versions reached from its delta_list, newest first
  lck,         \* PRIMARY_INDEX_VAL::write_lck
  gcAt,        \* the delta whose GC() the worker runs
  gcLast,      \* the last delta it will run GC() on
  gcRet,       \* where the worker continues after that
  gcIdx,       \* next registry slot get_min_activeTxn reads
  gcMin,       \* its running minimum
  exposed      \* history: a scan passed the worker between getTxn and the
               \* assignment of min_active

txnVars == <<gen, ts, ro, todo, held, lck>>
deltaVars == <<readers, epoch, tag>>
recVars == <<t_min, chain>>
gcVars == <<gcAt, gcLast, gcRet, gcIdx, gcMin>>
vars == <<gen, pc, ts, ro, todo, held, min_active, cur, readers, epoch, tag,
          t_min, chain, lck, gcAt, gcLast, gcRet, gcIdx, gcMin, exposed>>

NoDelta == -1
Never == MaxTs + 1           \* UINT64_MAX, above every start time

Version == [t_min : Nat, by : Nat, delta : Deltas, tag : Nat]

-----------------------------------------------------------------------------
(* The delta store a start time selects. *)
get_delta_ver(x) == (x \div DeltaSwitch) % NumDeltas

(* A tagged pointer is valid while its delta still has the tag it was made
   with, both cut to the width the pointer keeps. *)
isValid(v) == tag[v.delta] % TagWrap = v.tag % TagWrap

is_readable(tmin, start) == tmin <= start \/ tmin = start * TxnIdBase

(* get_readable_ver: the walk along the chain stops at the first readable
   version (here the k-th), and finds nothing behind an invalid pointer. *)
get_readable_ver(start, r, k) ==
  /\ \A i \in 1 .. k : isValid(chain[r][i])
  /\ \A i \in 1 .. k - 1 : ~is_readable(chain[r][i].t_min, start)
  /\ is_readable(chain[r][k].t_min, start)

(* The record itself if the transaction may read it, else a version. *)
CanRead(start, r) ==
  \/ is_readable(t_min[r], start)
  \/ \E k \in 1 .. Len(chain[r]) : get_readable_ver(start, r, k)

(* min > getMaxActiveEpoch(): the minimum is beyond every thread's epoch. *)
BeyondEpochs(d, min) == \A w \in Workers : min > epoch[d][w]

-----------------------------------------------------------------------------
Init ==
  /\ gen = 1
  /\ pc = [w \in Workers |-> "idle"]
  /\ ts = [w \in Workers |-> 0]
  /\ ro = [w \in Workers |-> FALSE]
  /\ todo = [w \in Workers |-> {}]
  /\ held = [w \in Workers |-> {}]
  /\ min_active = [w \in Workers |-> Never]
  /\ cur = [w \in Workers |-> NoDelta]
  /\ readers = [d \in Deltas |-> 0]
  /\ epoch = [d \in Deltas |-> [w \in Workers |-> 0]]
  /\ tag = [d \in Deltas |-> 1]
  /\ t_min = [r \in Records |-> 0]
  /\ chain = [r \in Records |-> <<>>]
  /\ lck = [r \in Records |-> FALSE]
  /\ gcAt = [w \in Workers |-> 0]
  /\ gcLast = [w \in Workers |-> 0]
  /\ gcRet = [w \in Workers |-> "idle"]
  /\ gcIdx = [w \in Workers |-> 1]
  /\ gcMin = [w \in Workers |-> Never]
  /\ exposed = [w \in Workers |-> FALSE]

-----------------------------------------------------------------------------
(* Txn::getTxn: the start time is taken here ... *)
BeginTxn(w, readOnly, writes) ==
  /\ pc[w] = "idle"
  /\ gen <= MaxTs
  /\ readOnly => writes = {}
  /\ ts' = [ts EXCEPT ![w] = gen]
  /\ gen' = gen + 1
  /\ ro' = [ro EXCEPT ![w] = readOnly]
  /\ todo' = [todo EXCEPT ![w] = writes]
  /\ pc' = [pc EXCEPT ![w] = "publish"]
  /\ UNCHANGED <<held, min_active, cur, lck, deltaVars, recVars, gcVars, exposed>>

(* ... and becomes visible to collectors here. *)
PublishMinActive(w) ==
  /\ pc[w] = "publish"
  /\ min_active' = [min_active EXCEPT ![w] = ts[w]]
  /\ pc' = [pc EXCEPT ![w] = "register"]
  /\ UNCHANGED <<txnVars, cur, deltaVars, recVars, gcVars, exposed>>

-----------------------------------------------------------------------------
(* Registration with a delta store. *)

(* A GC() of the deltas first .. last by worker w, which then goes on at ret. *)
StartGC(w, first, last, ret) ==
  /\ pc' = [pc EXCEPT ![w] = "gc_cas"]
  /\ gcAt' = [gcAt EXCEPT ![w] = first]
  /\ gcLast' = [gcLast EXCEPT ![w] = last]
  /\ gcRet' = [gcRet EXCEPT ![w] = ret]
  /\ UNCHANGED <<gcIdx, gcMin>>

(* The worker that takes the count from one to zero collects. *)
decrement_reader(w, d, ret) ==
  /\ readers' = [readers EXCEPT ![d] = @ - 1]
  /\ cur' = [cur EXCEPT ![w] = NoDelta]
  /\ \/ readers[d] = 1 /\ StartGC(w, d, d, ret)
     \/ readers[d] # 1 /\ pc' = [pc EXCEPT ![w] = ret] /\ UNCHANGED gcVars
  /\ UNCHANGED <<epoch, tag>>

(* A read-only transaction of a registered worker leaves its delta. *)
remove_active_txn(w) ==
  /\ pc[w] = "register" /\ ro[w] /\ cur[w] # NoDelta
  /\ decrement_reader(w, cur[w], "lock")
  /\ UNCHANGED <<txnVars, min_active, recVars, exposed>>

(* The worker is in no delta: it enters the one of its transaction, also when
   the transaction only reads. *)
add_active_txn(w) ==
  /\ pc[w] = "register" /\ cur[w] = NoDelta
  /\ pc' = [pc EXCEPT ![w] = "reader_inc"]
  /\ UNCHANGED <<txnVars, min_active, cur, deltaVars, recVars, gcVars, exposed>>

(* The transaction's delta is another one: leave the old, then enter the new. *)
switch_delta(w) ==
  /\ pc[w] = "register" /\ ~ro[w]
  /\ cur[w] # NoDelta /\ cur[w] # get_delta_ver(ts[w])
  /\ decrement_reader(w, cur[w], "reader_inc")
  /\ UNCHANGED <<txnVars, min_active, recVars, exposed>>

update_delta_epoch(w) ==
  /\ pc[w] = "register" /\ ~ro[w] /\ cur[w] = get_delta_ver(ts[w])
  /\ epoch' = [epoch EXCEPT ![cur[w]][w] = ts[w]]
  /\ pc' = [pc EXCEPT ![w] = "lock"]
  /\ UNCHANGED <<txnVars, min_active, cur, readers, tag, recVars, gcVars, exposed>>

(* readers++ also when the delta is being collected (a negative count); then
   the increment is lost when the collector stores 0, and has to be repeated.
   The thread's epoch is raised once the worker is counted. *)
increment_reader(w) ==
  LET d == get_delta_ver(ts[w]) IN
  /\ pc[w] = "reader_inc"
  /\ readers' = [readers EXCEPT ![d] = @ + 1]
  /\ \/ /\ readers[d] >= 0
        /\ cur' = [cur EXCEPT ![w] = d]
        /\ epoch' = [epoch EXCEPT ![d][w] = IF @ < ts[w] THEN ts[w] ELSE @]
        /\ pc' = [pc EXCEPT ![w] = "lock"]
     \/ /\ readers[d] < 0
        /\ pc' = [pc EXCEPT ![w] = "reader_spin"]
        /\ UNCHANGED <<cur, epoch>>
  /\ UNCHANGED <<txnVars, min_active, tag, recVars, gcVars, exposed>>

(* while (readers < 0); *)
spin_reader(w) ==
  /\ pc[w] = "reader_spin"
  /\ readers[get_delta_ver(ts[w])] >= 0
  /\ pc' = [pc EXCEPT ![w] = "reader_inc"]
  /\ UNCHANGED <<txnVars, min_active, cur, deltaVars, recVars, gcVars, exposed>>

-----------------------------------------------------------------------------
(* CircularDeltaStore::GC *)

(* The loop of try_GC_all_partitions: the next delta, or back to the caller. *)
NextGC(w) ==
  /\ IF gcAt[w] < gcLast[w]
       THEN /\ gcAt' = [gcAt EXCEPT ![w] = @ + 1]
            /\ pc' = [pc EXCEPT ![w] = "gc_cas"]
            /\ UNCHANGED <<gcLast, gcRet>>
       ELSE /\ gcAt' = [gcAt EXCEPT ![w] = 0]
            /\ gcLast' = [gcLast EXCEPT ![w] = 0]
            /\ gcRet' = [gcRet EXCEPT ![w] = "idle"]
            /\ pc' = [pc EXCEPT ![w] = gcRet[w]]

(* Variant: GC() takes the delta whoever is registered with it. *)
gc_acquire_always(w) ==
  /\ pc[w] = "gc_cas"
  /\ readers' = [readers EXCEPT ![gcAt[w]] = -ReaderBias]
  /\ pc' = [pc EXCEPT ![w] = "gc_scan"]
  /\ UNCHANGED <<txnVars, min_active, cur, epoch, tag, recVars, gcVars, exposed>>

(* readers.compare_exchange_weak(0, INT64_MIN) succeeds ... *)
gc_acquire(w) ==
  /\ pc[w] = "gc_cas" /\ readers[gcAt[w]] = 0
  /\ readers' = [readers EXCEPT ![gcAt[w]] = -ReaderBias]
  /\ pc' = [pc EXCEPT ![w] = "gc_scan"]
  /\ UNCHANGED <<txnVars, min_active, cur, epoch, tag, recVars, gcVars, exposed>>

(* ... or fails, which the weak form may also do when the count is 0. *)
gc_skip(w) ==
  /\ pc[w] = "gc_cas"
  /\ NextGC(w)
  /\ UNCHANGED <<txnVars, min_active, cur, deltaVars, recVars, gcIdx, gcMin, exposed>>

(* Variant: the last active start time is kept, not the least. *)
get_last_activeTxn(w) ==
  LET v == gcIdx[w] IN
  /\ pc[w] = "gc_scan" /\ v <= NumWorkers
  /\ gcMin' = [gcMin EXCEPT ![w] = IF min_active[v] < Never THEN min_active[v] ELSE @]
  /\ gcIdx' = [gcIdx EXCEPT ![w] = v + 1]
  /\ exposed' = [exposed EXCEPT ![v] = @ \/ pc[v] = "publish"]
  /\ UNCHANGED <<txnVars, pc, min_active, cur, deltaVars, recVars, gcAt, gcLast, gcRet>>

(* One iteration of get_min_activeTxn. *)
get_min_activeTxn(w) ==
  LET v == gcIdx[w] IN
  /\ pc[w] = "gc_scan" /\ v <= NumWorkers
  /\ gcMin' = [gcMin EXCEPT ![w] = IF min_active[v] < @ THEN min_active[v] ELSE @]
  /\ gcIdx' = [gcIdx EXCEPT ![w] = v + 1]
  /\ exposed' = [exposed EXCEPT ![v] = @ \/ pc[v] = "publish"]
  /\ UNCHANGED <<txnVars, pc, min_active, cur, deltaVars, recVars, gcAt, gcLast, gcRet>>

(* impl_gc_simple, and the reset it allows. *)
gc_reset(w) ==
  LET d == gcAt[w] IN
  /\ pc[w] = "gc_scan" /\ gcIdx[w] > NumWorkers
  /\ tag' = IF BeyondEpochs(d, gcMin[w]) THEN [tag EXCEPT ![d] = @ + 1] ELSE tag
  /\ gcIdx' = [gcIdx EXCEPT ![w] = 1]
  /\ gcMin' = [gcMin EXCEPT ![w] = Never]
  /\ pc' = [pc EXCEPT ![w] = "gc_done"]
  /\ UNCHANGED <<txnVars, min_active, cur, readers, epoch, recVars, gcAt, gcLast, gcRet, exposed>>

(* Variant: the delta is not handed back. *)
gc_release_forgotten(w) ==
  /\ pc[w] = "gc_done"
  /\ NextGC(w)
  /\ UNCHANGED <<txnVars, min_active, cur, deltaVars, recVars, gcIdx, gcMin, exposed>>

(* readers = 0 *)
gc_release(w) ==
  /\ pc[w] = "gc_done"
  /\ readers' = [readers EXCEPT ![gcAt[w]] = 0]
  /\ NextGC(w)
  /\ UNCHANGED <<txnVars, min_active, cur, epoch, tag, recVars, gcIdx, gcMin, exposed>>

-----------------------------------------------------------------------------
(* The stored procedure: write locks first, then reads and updates. *)

(* Variant: the lock is set without a test. *)
try_lock_untested(w, r) ==
  /\ pc[w] = "lock" /\ r \in todo[w]
  /\ lck' = [lck EXCEPT ![r] = TRUE]
  /\ todo' = [todo EXCEPT ![w] = @ \ {r}]
  /\ held' = [held EXCEPT ![w] = @ \cup {r}]
  /\ UNCHANGED <<gen, pc, ts, ro, min_active, cur, deltaVars, recVars, gcVars, exposed>>

try_lock(w, r) ==
  /\ pc[w] = "lock" /\ r \in todo[w] /\ ~lck[r]
  /\ lck' = [lck EXCEPT ![r] = TRUE]
  /\ todo' = [todo EXCEPT ![w] = @ \ {r}]
  /\ held' = [held EXCEPT ![w] = @ \cup {r}]
  /\ UNCHANGED <<gen, pc, ts, ro, min_active, cur, deltaVars, recVars, gcVars, exposed>>

(* A lock that is taken aborts the transaction. *)
lock_failed(w, r) ==
  /\ pc[w] = "lock" /\ r \in todo[w] /\ lck[r]
  /\ todo' = [todo EXCEPT ![w] = {}]
  /\ pc' = [pc EXCEPT ![w] = "abort"]
  /\ UNCHANGED <<gen, ts, ro, held, lck, min_active, cur, deltaVars, recVars, gcVars, exposed>>

locks_acquired(w) ==
  /\ pc[w] = "lock" /\ todo[w] = {}
  /\ pc' = [pc EXCEPT ![w] = "exec"]
  /\ UNCHANGED <<txnVars, min_active, cur, deltaVars, recVars, gcVars, exposed>>

unlock(w, r) ==
  /\ lck' = [lck EXCEPT ![r] = FALSE]
  /\ held' = [held EXCEPT ![w] = @ \ {r}]

release_locks(w, r) ==
  /\ pc[w] = "abort" /\ r \in held[w]
  /\ unlock(w, r)
  /\ UNCHANGED <<gen, pc, ts, ro, todo, min_active, cur, deltaVars, recVars, gcVars, exposed>>

(* The version that keeps what the record was; it points to the old head of
   the chain if that is still valid, and is the end of the chain if not. *)
create_versions(w, r) ==
  LET d == get_delta_ver(ts[w])
      v == [t_min |-> t_min[r], by |-> ts[w], delta |-> d, tag |-> tag[d]]
      next == IF chain[r] # <<>> /\ isValid(chain[r][1]) THEN chain[r] ELSE <<>>
  IN  chain' = [chain EXCEPT ![r] = <<v>> \o next]

(* Under the record's latch; the write lock goes right after the latch. *)
updateRecord(w, r) ==
  /\ pc[w] = "exec" /\ r \in held[w]
  /\ create_versions(w, r)
  /\ t_min' = [t_min EXCEPT ![r] = ts[w]]
  /\ unlock(w, r)
  /\ UNCHANGED <<gen, pc, ts, ro, todo, min_active, cur, deltaVars, gcVars, exposed>>

(* A read that finds its version leaves the modelled state as it is.  One that
   finds none, at the head of the chain or at its end, kills the process:
   LOG(FATAL) or an assertion.  The other threads run on until it is gone. *)
getIndexedRecord(w, r) ==
  /\ pc[w] = "exec" /\ ~CanRead(ts[w], r)
  /\ pc' = [pc EXCEPT ![w] = "dead"]
  /\ UNCHANGED <<txnVars, min_active, cur, deltaVars, recVars, gcVars, exposed>>

(* endTxn; a read-only transaction then tries every delta. *)
endTxn(w) ==
  /\ pc[w] \in {"exec", "abort"} /\ held[w] = {}
  /\ min_active' = [min_active EXCEPT ![w] = Never]
  /\ ts' = [ts EXCEPT ![w] = 0]
  /\ ro' = [ro EXCEPT ![w] = FALSE]
  /\ exposed' = [exposed EXCEPT ![w] = FALSE]
  /\ \/ ro[w] /\ StartGC(w, 0, NumDeltas - 1, "idle")
     \/ ~ro[w] /\ pc' = [pc EXCEPT ![w] = "idle"] /\ UNCHANGED gcVars
  /\ UNCHANGED <<gen, todo, held, lck, cur, deltaVars, recVars>>

-----------------------------------------------------------------------------
GcStep(w) ==
  \/ gc_acquire(w) \/ gc_skip(w) \/ get_min_activeTxn(w) \/ gc_reset(w) \/ gc_release(w)

(* Every step of a transaction once it has begun. *)
WorkerStep(w) ==
  \/ PublishMinActive(w)
  \/ remove_active_txn(w) \/ add_active_txn(w) \/ switch_delta(w) \/ update_delta_epoch(w)
  \/ increment_reader(w) \/ spin_reader(w)
  \/ GcStep(w)
  \/ \E r \in Records : \/ try_lock(w, r) \/ lock_failed(w, r) \/ release_locks(w, r)
                        \/ updateRecord(w, r) \/ getIndexedRecord(w, r)
  \/ locks_acquired(w)
  \/ endTxn(w)

Next ==
  \E w \in Workers :
    \/ \E readOnly \in BOOLEAN, writes \in SUBSET Records : BeginTxn(w, readOnly, writes)
    \/ WorkerStep(w)

Spec == Init /\ [][Next]_vars

(* A worker thread that is inside a transaction keeps running. *)
FairSpec == Spec /\ \A w \in Workers : WF_vars(WorkerStep(w))

-----------------------------------------------------------------------------
(* Properties *)

GcPc == {"gc_cas", "gc_scan", "gc_done"}
PcValues == {"idle", "publish", "register", "reader_inc", "reader_spin", "lock",
             "exec", "abort", "dead"} \cup GcPc

(* Workers counted in readers[d]. *)
Registered(d) == {w \in Workers : cur[w] = d}

(* A worker between the two stores of GC() on d: INT64_MIN and 0. *)
Collects(w, d) == pc[w] \in {"gc_scan", "gc_done"} /\ gcAt[w] = d

(* A worker runs a transaction: it has a start time. *)
Active(w) == ts[w] # 0

(* Every state variable keeps the type its declaration in the code gives it. *)
TypeOK ==
  /\ gen \in 1 .. MaxTs + 1
  /\ pc \in [Workers -> PcValues]
  /\ ts \in [Workers -> 0 .. MaxTs]
  /\ ro \in [Workers -> BOOLEAN]
  /\ todo \in [Workers -> SUBSET Records]
  /\ held \in [Workers -> SUBSET Records]
  /\ min_active \in [Workers -> 0 .. Never]
  /\ cur \in [Workers -> Deltas \cup {NoDelta}]
  /\ readers \in [Deltas -> Int]
  /\ epoch \in [Deltas -> [Workers -> 0 .. MaxTs]]
  /\ tag \in [Deltas -> Nat]
  /\ t_min \in [Records -> 0 .. MaxTs]
  /\ chain \in [Records -> Seq(Version)]
  /\ lck \in [Records -> BOOLEAN]
  /\ gcAt \in [Workers -> Deltas]
  /\ gcLast \in [Workers -> Deltas]
  /\ gcRet \in [Workers -> {"idle", "lock", "reader_inc"}]
  /\ gcIdx \in [Workers -> 1 .. NumWorkers + 1]
  /\ gcMin \in [Workers -> 0 .. Never]
  /\ exposed \in [Workers -> BOOLEAN]

(* While a delta is being collected (between the two stores of GC()) its count
   is negative, no worker is registered with it and one worker collects it:
   the increments of spinning workers never bring the count back to zero, and
   no worker that was counted is forgotten by the final readers = 0. *)
CollectorAlone ==
  \A d \in Deltas :
    /\ (readers[d] < 0) <=> (\E w \in Workers : Collects(w, d))
    /\ readers[d] < 0 => Registered(d) = {}
    /\ \A v, w \in Workers : Collects(v, d) /\ Collects(w, d) => v = w

(* Tags are compared exactly until a delta was reset TagWrap - 1 times. *)
NoWrap == \A d \in Deltas : tag[d] < TagWrap

(* The promise of one-shot GC: a transaction finds a readable version of every
   record as long as it runs, unless a collector scanned its slot after getTxn
   took its start time and before beginTxn stored it in min_active. *)
ReadableUnlessExposed ==
  NoWrap => \A w \in Workers, r \in Records :
              Active(w) /\ ~exposed[w] => CanRead(ts[w], r)

(* The step leaves the deltas of the transactions that may be writing alone. *)
WritersKeepTags ==
  \A w \in Workers :
    pc[w] \in {"lock", "exec"} /\ ~ro[w] => tag'[get_delta_ver(ts[w])] = tag[get_delta_ver(ts[w])]

(* A delta is never reset under a transaction that may be writing into it:
   the pointer create_versions returns is valid when updateRecord asserts so. *)
NoResetUnderWriter == [][WritersKeepTags]_vars

(* A write lock is held by the one transaction that acquired it, until it has
   written or released the record: none is leaked by an abort, and no update
   happens on a record some other transaction has locked. *)
LockOwnership ==
  /\ \A r \in Records : lck[r] <=> \E w \in Workers : r \in held[w]
  /\ \A v, w \in Workers : v # w => held[v] \cap held[w] = {}
  /\ \A w \in Workers : held[w] # {} => pc[w] \in {"lock", "exec", "abort", "dead"}

(* LOG_IF(FATAL, !(delta_list_ptr.isValid())): the tag of the chain's head is
   never stale for a transaction that has to read an older version. *)
DeltaTagVerified == \A w \in Workers : pc[w] # "dead"

(* Every transaction ends: no worker spins for ever on a delta some collector
   forgot to hand back, and no abort or collection hangs. *)
EveryTxnEnds == \A w \in Workers : pc[w] # "idle" ~> (pc[w] = "idle" \/ ~DeltaTagVerified)

-----------------------------------------------------------------------------
(* The inductive invariant behind ReadableUnlessExposed. *)

(* A start time lives from getTxn to endTxn, is published for the collectors
   once the worker is past beginTxn, and is beyond every epoch the worker left
   in a delta and every version anyone wrote. *)
PhaseInv ==
  /\ \A w \in Workers :
       /\ pc[w] = "idle" => ts[w] = 0
       /\ pc[w] \notin GcPc \cup {"idle"} => ts[w] # 0
       /\ pc[w] \in GcPc => (ts[w] = 0 <=> gcRet[w] = "idle")
       /\ Active(w) /\ pc[w] # "publish" => min_active[w] = ts[w]
       /\ ts[w] < gen
       /\ \A d \in Deltas : epoch[d][w] < gen /\ (Active(w) => epoch[d][w] <= ts[w])
  /\ \A r \in Records : t_min[r] < gen

(* A transaction that writes is registered with the delta of its start time,
   and has raised its epoch there to that time. *)
WriterInv ==
  \A w \in Workers :
    /\ pc[w] \in {"lock", "exec"} /\ ~ro[w] =>
         cur[w] = get_delta_ver(ts[w]) /\ epoch[cur[w]][w] = ts[w]
    /\ pc[w] \in {"reader_inc", "reader_spin"} => cur[w] = NoDelta
    /\ pc[w] \in GcPc /\ gcRet[w] = "reader_inc" => cur[w] = NoDelta
    /\ pc[w] \in GcPc /\ gcRet[w] = "lock" => ro[w]
    /\ ro[w] => todo[w] = {} /\ held[w] = {}

(* Workers that incremented the count of a delta while it was collected. *)
Spinning(d) == {w \in Workers : pc[w] = "reader_spin" /\ get_delta_ver(ts[w]) = d}

(* readers counts the registered workers, or is so far below zero that the
   increments of the spinning workers do not reach zero. *)
CountInv ==
  \A d \in Deltas :
    /\ readers[d] >= 0 => readers[d] = Cardinality(Registered(d))
    /\ readers[d] < 0 => readers[d] <= Cardinality(Spinning(d)) - ReaderBias

(* What get_min_activeTxn has established for the slots it has read: a running
   transaction it does not know of began after it, beyond the delta's epochs. *)
ScanInv ==
  /\ \A w \in Workers : pc[w] # "gc_scan" => gcIdx[w] = 1
  /\ \A w, v \in Workers :
       pc[w] = "gc_scan" /\ v < gcIdx[w] /\ Active(v) /\ ~exposed[v] =>
         gcMin[w] <= ts[v] \/ \A u \in Workers : epoch[gcAt[w]][u] < ts[v]

(* A version ends where the next newer one, or the record, begins; its pointer
   is never ahead of its delta, and while the pointer is current some thread's
   epoch in that delta is at least the start time of the version's writer. *)
ChainInv ==
  \A r \in Records :
    /\ chain[r] # <<>> => chain[r][1].by = t_min[r]
    /\ \A i \in 1 .. Len(chain[r]) :
         LET v == chain[r][i] IN
         /\ i > 1 => v.by = chain[r][i - 1].t_min
         /\ v.tag <= tag[v.delta]
         /\ v.tag = tag[v.delta] => \E u \in Workers : v.by <= epoch[v.delta][u]

(* All of it: the bookkeeping that lets a collector conclude from the start
   times it scanned that nobody needs a version of the delta any more. *)
GcInv == PhaseInv /\ WriterInv /\ CollectorAlone /\ CountInv /\ ScanInv /\ ChainInv

=============================================================================
