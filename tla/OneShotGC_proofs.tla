-------------------------- MODULE OneShotGC_proofs --------------------------
(***************************************************************************)
(* Proofs about OneShotGC, for any number of workers, records and deltas:  *)
(* types and locks, start times and their publication, and the             *)
(* registration of writers; what the scan of a collector establishes, and  *)
(* what a reset leaves for the readers; the count of a delta's readers,    *)
(* which keeps collectors and writers apart; and with all of them the      *)
(* safety of the collection: no version is reclaimed that a visible        *)
(* transaction has to read, and no delta under its writers.                *)
(***************************************************************************)
EXTENDS OneShotGC, TLAPS

(* The time a leaf may take, so that no proof depends on the speed of the machine. *)
USE SMTT(60)

-----------------------------------------------------------------------------
(* Types, locks, start times and the registration of writers. *)

(* A start time selects one of the delta stores. *)
LEMMA DeltaVerType ==
  ASSUME NEW x \in Nat
  PROVE  get_delta_ver(x) \in Deltas
BY OneShotAssumption DEF get_delta_ver, Deltas

(* A tag that has not wrapped is what the pointer keeps of it. *)
LEMMA ModSmall ==
  ASSUME NEW x \in Nat, x < TagWrap
  PROVE  x % TagWrap = x
BY OneShotAssumption

(* create_versions puts a version in front of the chain and moves the others
   one place back. *)
LEMMA ConsVersion ==
  ASSUME NEW v \in Version, NEW s \in Seq(Version)
  PROVE  /\ <<v>> \o s \in Seq(Version)
         /\ Len(<<v>> \o s) = Len(s) + 1 /\ Len(s) \in Nat
         /\ (<<v>> \o s)[1] = v
         /\ \A i \in 1 .. Len(s) : (<<v>> \o s)[i + 1] = s[i]
OBVIOUS

(* A writer registers with the delta of its transaction, at its start time. *)
LEMMA WriterRegister ==
  ASSUME TypeOK, PhaseInv, WriterInv, NEW w \in Workers, increment_reader(w)
  PROVE  WriterInv'
PROOF
  <1> USE DEF txnVars, recVars, gcVars
  <1>ty. /\ pc \in [Workers -> PcValues]
         /\ cur \in [Workers -> Deltas \cup {NoDelta}]
         /\ ts \in [Workers -> 0 .. MaxTs]
         /\ epoch \in [Deltas -> [Workers -> 0 .. MaxTs]]
    BY Zenon DEF TypeOK
  <1> DEFINE d == get_delta_ver(ts[w])
  <1>1. d \in Deltas
    BY <1>ty, DeltaVerType
  <1>2. CASE readers[d] < 0 /\ UNCHANGED <<cur, epoch>> /\ pc' = [pc EXCEPT ![w] = "reader_spin"]
    BY Zenon, <1>ty, <1>2 DEF increment_reader, WriterInv, PhaseInv, Active, GcPc
  <1>3. CASE /\ readers[d] >= 0
             /\ cur' = [cur EXCEPT ![w] = d]
             /\ epoch' = [epoch EXCEPT ![d][w] = IF @ < ts[w] THEN ts[w] ELSE @]
             /\ pc' = [pc EXCEPT ![w] = "lock"]
    <2>0. epoch[d][w] \in Nat /\ ts[w] \in Nat /\ epoch[d][w] <= ts[w]
      BY <1>ty, <1>1 DEF increment_reader, PhaseInv, Active, GcPc
    <2>1. epoch' = [epoch EXCEPT ![d][w] = ts[w]]
      <3>1. (IF epoch[d][w] < ts[w] THEN ts[w] ELSE epoch[d][w]) = ts[w]
        BY <2>0
      <3> QED
        BY ZenonT(30), <3>1, <1>3
    <2>2. /\ cur'[w] = get_delta_ver(ts'[w]) /\ epoch'[cur'[w]][w] = ts'[w] /\ pc'[w] = "lock"
          /\ UNCHANGED <<ts, ro, todo, held, gcRet>>
      BY <1>ty, <1>1, <1>3, <2>1 DEF increment_reader
    <2>3. ASSUME NEW v \in Workers, v # w
          PROVE  /\ pc'[v] = pc[v] /\ cur'[v] = cur[v]
                 /\ cur[v] \in Deltas => epoch'[cur[v]][v] = epoch[cur[v]][v]
      BY <1>ty, <1>1, <1>3, <2>1, <2>3
    <2>4. ASSUME NEW v \in Workers, v # w, pc[v] \in {"lock", "exec"}, ~ro[v]
          PROVE  cur[v] = get_delta_ver(ts[v]) /\ epoch'[cur[v]][v] = ts[v]
      <3>1. cur[v] = get_delta_ver(ts[v]) /\ epoch[cur[v]][v] = ts[v]
        BY Zenon, <2>4 DEF WriterInv
      <3>2. cur[v] \in Deltas
        BY <3>1, <1>ty, DeltaVerType
      <3> QED
        BY Zenon, <3>1, <3>2, <2>3, <2>4
    <2> HIDE DEF d
    <2> QED
      BY <2>2, <2>3, <2>4 DEF WriterInv, GcPc
  <1> QED
    BY Zenon, <1>2, <1>3 DEF increment_reader

(* Every step keeps writers registered with the delta of their start time. *)
LEMMA WriterStep ==
  ASSUME TypeOK, LockOwnership, PhaseInv, WriterInv, [Next]_vars
  PROVE  WriterInv'
PROOF
  <1> USE DEF txnVars, deltaVars, recVars, gcVars
  <1>ty. /\ pc \in [Workers -> PcValues]
         /\ ro \in [Workers -> BOOLEAN]
         /\ cur \in [Workers -> Deltas \cup {NoDelta}]
         /\ ts \in [Workers -> 0 .. MaxTs]
         /\ epoch \in [Deltas -> [Workers -> 0 .. MaxTs]]
         /\ gcRet \in [Workers -> {"idle", "lock", "reader_inc"}]
         /\ todo \in [Workers -> SUBSET Records]
         /\ held \in [Workers -> SUBSET Records]
    BY Zenon DEF TypeOK
  <1>frame. ASSUME UNCHANGED <<pc, ts, ro, todo, held, cur, epoch, gcRet>>
           PROVE  WriterInv'
    BY Zenon, <1>frame DEF WriterInv
  <1>1. ASSUME NEW w \in Workers, NEW readOnly \in BOOLEAN, NEW writes \in SUBSET Records,
                      BeginTxn(w, readOnly, writes)
               PROVE  WriterInv'
    <2>1. /\ pc'[w] = "publish" /\ (ro'[w] => todo'[w] = {}) /\ held'[w] = {}
          /\ UNCHANGED <<held, cur, epoch, gcRet>>
      <3>1. held[w] = {}
        BY Zenon, <1>1 DEF BeginTxn, LockOwnership
      <3> QED
        BY Zenon, <1>1, <1>ty, <3>1 DEF BeginTxn
    <2>2. \A v \in Workers : v # w =>
            pc'[v] = pc[v] /\ ts'[v] = ts[v] /\ ro'[v] = ro[v] /\ todo'[v] = todo[v]
      BY Zenon, <1>1, <1>ty DEF BeginTxn
    <2> QED
      BY <2>1, <2>2 DEF WriterInv, GcPc
  <1>2. ASSUME NEW w \in Workers, PublishMinActive(w)
               PROVE  WriterInv'
    BY Zenon, <1>2, <1>ty DEF PublishMinActive, WriterInv, PhaseInv, Active, GcPc
  <1>3. ASSUME NEW w \in Workers, remove_active_txn(w)
               PROVE  WriterInv'
    BY <1>3, <1>ty DEF remove_active_txn, decrement_reader, StartGC, WriterInv, PhaseInv, Active, GcPc
  <1>4. ASSUME NEW w \in Workers, add_active_txn(w)
               PROVE  WriterInv'
    BY Zenon, <1>4, <1>ty DEF add_active_txn, WriterInv, PhaseInv, Active, GcPc
  <1>5. ASSUME NEW w \in Workers, switch_delta(w)
               PROVE  WriterInv'
    BY <1>5, <1>ty DEF switch_delta, decrement_reader, StartGC, WriterInv, PhaseInv, Active, GcPc
  <1>6. ASSUME NEW w \in Workers, update_delta_epoch(w)
               PROVE  WriterInv'
    BY <1>6, <1>ty, DeltaVerType DEF update_delta_epoch, WriterInv, PhaseInv, Active, GcPc
  <1>7. ASSUME NEW w \in Workers, increment_reader(w)
               PROVE  WriterInv'
    BY Zenon, <1>7, WriterRegister
  <1>8. ASSUME NEW w \in Workers, spin_reader(w)
               PROVE  WriterInv'
    BY Zenon, <1>8, <1>ty DEF spin_reader, WriterInv, PhaseInv, Active, GcPc
  <1>9. ASSUME NEW w \in Workers, gc_acquire(w)
               PROVE  WriterInv'
    BY <1>9, <1>ty DEF gc_acquire, WriterInv, PhaseInv, Active, GcPc
  <1>10. ASSUME NEW w \in Workers, gc_skip(w)
               PROVE  WriterInv'
    BY <1>10, <1>ty DEF gc_skip, NextGC, WriterInv, PhaseInv, Active, GcPc
  <1>11. ASSUME NEW w \in Workers, get_min_activeTxn(w)
               PROVE  WriterInv'
    BY Zenon, <1>11, <1>frame DEF get_min_activeTxn
  <1>12. ASSUME NEW w \in Workers, gc_reset(w)
               PROVE  WriterInv'
    BY <1>12, <1>ty DEF gc_reset, WriterInv, PhaseInv, Active, GcPc
  <1>13. ASSUME NEW w \in Workers, gc_release(w)
               PROVE  WriterInv'
    BY <1>13, <1>ty DEF gc_release, NextGC, WriterInv, PhaseInv, Active, GcPc
  <1>14. ASSUME NEW w \in Workers, NEW r \in Records, try_lock(w, r)
               PROVE  WriterInv'
    BY <1>14, <1>ty DEF try_lock, WriterInv, PhaseInv, Active, GcPc
  <1>15. ASSUME NEW w \in Workers, NEW r \in Records, lock_failed(w, r)
               PROVE  WriterInv'
    BY <1>15, <1>ty DEF lock_failed, WriterInv, PhaseInv, Active, GcPc
  <1>16. ASSUME NEW w \in Workers, NEW r \in Records, release_locks(w, r)
               PROVE  WriterInv'
    BY Zenon, <1>16, <1>ty DEF release_locks, unlock, WriterInv, PhaseInv, Active, GcPc
  <1>17. ASSUME NEW w \in Workers, NEW r \in Records, updateRecord(w, r)
               PROVE  WriterInv'
    BY Zenon, <1>17, <1>ty DEF updateRecord, create_versions, unlock, WriterInv, PhaseInv, Active, GcPc
  <1>18. ASSUME NEW w \in Workers, NEW r \in Records, getIndexedRecord(w, r)
               PROVE  WriterInv'
    BY Zenon, <1>18, <1>ty DEF getIndexedRecord, WriterInv, PhaseInv, Active, GcPc
  <1>19. ASSUME NEW w \in Workers, locks_acquired(w)
               PROVE  WriterInv'
    BY <1>19, <1>ty DEF locks_acquired, WriterInv, PhaseInv, Active, GcPc
  <1>20. ASSUME NEW w \in Workers, endTxn(w)
               PROVE  WriterInv'
    BY <1>20, <1>ty DEF endTxn, StartGC, WriterInv, PhaseInv, Active, GcPc
  <1>21. CASE UNCHANGED vars
    BY Zenon, <1>21, <1>frame DEF vars
  <1> QED
    BY Zenon, <1>1, <1>2, <1>3, <1>4, <1>5, <1>6, <1>7, <1>8, <1>9, <1>10, <1>11, <1>12, <1>13, <1>14,
       <1>15, <1>16, <1>17, <1>18, <1>19, <1>20, <1>21
    DEF Next, WorkerStep, GcStep

(* Every step keeps start times, their publication and the epochs in order. *)
LEMMA PhaseStep ==
  ASSUME TypeOK, PhaseInv, [Next]_vars
  PROVE  PhaseInv'
PROOF
  <1> USE DEF txnVars, deltaVars, recVars, gcVars
  <1>ty. /\ gen \in 1 .. MaxTs + 1
         /\ pc \in [Workers -> PcValues]
         /\ ts \in [Workers -> 0 .. MaxTs]
         /\ min_active \in [Workers -> 0 .. Never]
         /\ gcRet \in [Workers -> {"idle", "lock", "reader_inc"}]
         /\ epoch \in [Deltas -> [Workers -> 0 .. MaxTs]]
         /\ t_min \in [Records -> 0 .. MaxTs]
         /\ cur \in [Workers -> Deltas \cup {NoDelta}]
    BY Zenon DEF TypeOK
  <1>frame. ASSUME UNCHANGED <<gen, pc, ts, min_active, epoch, t_min, gcRet>>
           PROVE  PhaseInv'
    BY Zenon, <1>frame DEF PhaseInv, Active, GcPc
  <1>1. ASSUME NEW w \in Workers, NEW readOnly \in BOOLEAN, NEW writes \in SUBSET Records,
                      BeginTxn(w, readOnly, writes)
               PROVE  PhaseInv'
    BY <1>1, <1>ty, OneShotAssumption DEF BeginTxn, PhaseInv, Active, GcPc
  <1>2. ASSUME NEW w \in Workers, PublishMinActive(w)
               PROVE  PhaseInv'
    BY Zenon, <1>2, <1>ty, OneShotAssumption DEF PublishMinActive, PhaseInv, Active, GcPc
  <1>3. ASSUME NEW w \in Workers, remove_active_txn(w)
               PROVE  PhaseInv'
    BY <1>3, <1>ty, OneShotAssumption DEF remove_active_txn, decrement_reader, StartGC, PhaseInv, Active, GcPc
  <1>4. ASSUME NEW w \in Workers, add_active_txn(w)
               PROVE  PhaseInv'
    BY Zenon, <1>4, <1>ty, OneShotAssumption DEF add_active_txn, PhaseInv, Active, GcPc
  <1>5. ASSUME NEW w \in Workers, switch_delta(w)
               PROVE  PhaseInv'
    BY <1>5, <1>ty, OneShotAssumption DEF switch_delta, decrement_reader, StartGC, PhaseInv, Active, GcPc
  <1>6. ASSUME NEW w \in Workers, update_delta_epoch(w)
               PROVE  PhaseInv'
    BY <1>6, <1>ty, DeltaVerType DEF update_delta_epoch, PhaseInv, Active, GcPc
  <1>7. ASSUME NEW w \in Workers, increment_reader(w)
               PROVE  PhaseInv'
    <2> DEFINE d == get_delta_ver(ts[w])
    <2>1. d \in Deltas
      BY <1>ty, DeltaVerType
    <2>2. CASE readers[d] < 0 /\ UNCHANGED <<cur, epoch>> /\ pc' = [pc EXCEPT ![w] = "reader_spin"]
      BY Zenon, <1>7, <1>ty, <2>2 DEF increment_reader, PhaseInv, Active, GcPc
    <2>3. CASE /\ readers[d] >= 0
               /\ cur' = [cur EXCEPT ![w] = d]
               /\ epoch' = [epoch EXCEPT ![d][w] = IF @ < ts[w] THEN ts[w] ELSE @]
               /\ pc' = [pc EXCEPT ![w] = "lock"]
      <3>0. epoch[d][w] \in Nat /\ ts[w] \in Nat /\ epoch[d][w] <= ts[w]
        BY <1>7, <1>ty, <2>1 DEF increment_reader, PhaseInv, Active, GcPc
      <3>1. epoch' = [epoch EXCEPT ![d][w] = ts[w]]
        <4>1. (IF epoch[d][w] < ts[w] THEN ts[w] ELSE epoch[d][w]) = ts[w]
          BY <3>0
        <4> QED
          BY ZenonT(30), <4>1, <2>3
      <3> QED
        BY <1>7, <1>ty, <2>1, <2>3, <3>1 DEF increment_reader, PhaseInv, Active, GcPc
    <2> QED
      BY Zenon, <1>7, <2>2, <2>3 DEF increment_reader
  <1>8. ASSUME NEW w \in Workers, spin_reader(w)
               PROVE  PhaseInv'
    BY Zenon, <1>8, <1>ty, OneShotAssumption DEF spin_reader, PhaseInv, Active, GcPc
  <1>9. ASSUME NEW w \in Workers, gc_acquire(w)
               PROVE  PhaseInv'
    BY Zenon, <1>9, <1>ty, OneShotAssumption DEF gc_acquire, PhaseInv, Active, GcPc
  <1>10. ASSUME NEW w \in Workers, gc_skip(w)
               PROVE  PhaseInv'
    BY <1>10, <1>ty, OneShotAssumption DEF gc_skip, NextGC, PhaseInv, Active, GcPc
  <1>11. ASSUME NEW w \in Workers, get_min_activeTxn(w)
               PROVE  PhaseInv'
    BY Zenon, <1>11, <1>frame DEF get_min_activeTxn
  <1>12. ASSUME NEW w \in Workers, gc_reset(w)
               PROVE  PhaseInv'
    BY Zenon, <1>12, <1>ty, OneShotAssumption DEF gc_reset, PhaseInv, Active, GcPc
  <1>13. ASSUME NEW w \in Workers, gc_release(w)
               PROVE  PhaseInv'
    BY <1>13, <1>ty, OneShotAssumption DEF gc_release, NextGC, PhaseInv, Active, GcPc
  <1>14. ASSUME NEW w \in Workers, NEW r \in Records, try_lock(w, r)
               PROVE  PhaseInv'
    BY Zenon, <1>14, <1>frame DEF try_lock
  <1>15. ASSUME NEW w \in Workers, NEW r \in Records, lock_failed(w, r)
               PROVE  PhaseInv'
    BY Zenon, <1>15, <1>ty, OneShotAssumption DEF lock_failed, PhaseInv, Active, GcPc
  <1>16. ASSUME NEW w \in Workers, NEW r \in Records, release_locks(w, r)
               PROVE  PhaseInv'
    BY Zenon, <1>16, <1>frame DEF release_locks, unlock
  <1>17. ASSUME NEW w \in Workers, NEW r \in Records, updateRecord(w, r)
               PROVE  PhaseInv'
    BY Zenon, <1>17, <1>ty, OneShotAssumption DEF updateRecord, create_versions, unlock, PhaseInv, Active, GcPc
  <1>18. ASSUME NEW w \in Workers, NEW r \in Records, getIndexedRecord(w, r)
               PROVE  PhaseInv'
    BY Zenon, <1>18, <1>ty, OneShotAssumption DEF getIndexedRecord, PhaseInv, Active, GcPc
  <1>19. ASSUME NEW w \in Workers, locks_acquired(w)
               PROVE  PhaseInv'
    BY Zenon, <1>19, <1>ty, OneShotAssumption DEF locks_acquired, PhaseInv, Active, GcPc
  <1>20. ASSUME NEW w \in Workers, endTxn(w)
               PROVE  PhaseInv'
    BY <1>20, <1>ty, OneShotAssumption DEF endTxn, StartGC, PhaseInv, Active, GcPc
  <1>21. CASE UNCHANGED vars
    BY Zenon, <1>21, <1>frame DEF vars
  <1> QED
    BY Zenon, <1>1, <1>2, <1>3, <1>4, <1>5, <1>6, <1>7, <1>8, <1>9, <1>10, <1>11, <1>12, <1>13, <1>14,
       <1>15, <1>16, <1>17, <1>18, <1>19, <1>20, <1>21
    DEF Next, WorkerStep, GcStep

(* Every step keeps the ownership of the write locks. *)
LEMMA LockStep ==
  ASSUME TypeOK, LockOwnership, [Next]_vars
  PROVE  LockOwnership'
PROOF
  <1> USE DEF txnVars, deltaVars, recVars, gcVars
  <1>ty. /\ pc \in [Workers -> PcValues]
         /\ lck \in [Records -> BOOLEAN]
         /\ held \in [Workers -> SUBSET Records]
         /\ gcRet \in [Workers -> {"idle", "lock", "reader_inc"}]
    BY Zenon DEF TypeOK
  <1>frame. ASSUME UNCHANGED <<pc, held, lck>>
           PROVE  LockOwnership'
    BY Zenon, <1>frame DEF LockOwnership
  <1>1. ASSUME NEW w \in Workers, NEW readOnly \in BOOLEAN, NEW writes \in SUBSET Records,
                      BeginTxn(w, readOnly, writes)
               PROVE  LockOwnership'
    BY Zenon, <1>1, <1>ty DEF BeginTxn, LockOwnership
  <1>2. ASSUME NEW w \in Workers, PublishMinActive(w)
               PROVE  LockOwnership'
    BY Zenon, <1>2, <1>ty DEF PublishMinActive, LockOwnership
  <1>3. ASSUME NEW w \in Workers, remove_active_txn(w)
               PROVE  LockOwnership'
    BY <1>3, <1>ty DEF remove_active_txn, decrement_reader, StartGC, LockOwnership
  <1>4. ASSUME NEW w \in Workers, add_active_txn(w)
               PROVE  LockOwnership'
    BY Zenon, <1>4, <1>ty DEF add_active_txn, LockOwnership
  <1>5. ASSUME NEW w \in Workers, switch_delta(w)
               PROVE  LockOwnership'
    BY <1>5, <1>ty DEF switch_delta, decrement_reader, StartGC, LockOwnership
  <1>6. ASSUME NEW w \in Workers, update_delta_epoch(w)
               PROVE  LockOwnership'
    BY <1>6, <1>ty DEF update_delta_epoch, LockOwnership
  <1>7. ASSUME NEW w \in Workers, increment_reader(w)
               PROVE  LockOwnership'
    BY <1>7, <1>ty DEF increment_reader, LockOwnership
  <1>8. ASSUME NEW w \in Workers, spin_reader(w)
               PROVE  LockOwnership'
    BY Zenon, <1>8, <1>ty DEF spin_reader, LockOwnership
  <1>9. ASSUME NEW w \in Workers, gc_acquire(w)
               PROVE  LockOwnership'
    BY Zenon, <1>9, <1>ty DEF gc_acquire, LockOwnership
  <1>10. ASSUME NEW w \in Workers, gc_skip(w)
               PROVE  LockOwnership'
    BY <1>10, <1>ty DEF gc_skip, NextGC, LockOwnership
  <1>11. ASSUME NEW w \in Workers, get_min_activeTxn(w)
               PROVE  LockOwnership'
    BY Zenon, <1>11, <1>frame DEF get_min_activeTxn
  <1>12. ASSUME NEW w \in Workers, gc_reset(w)
               PROVE  LockOwnership'
    BY Zenon, <1>12, <1>ty DEF gc_reset, LockOwnership
  <1>13. ASSUME NEW w \in Workers, gc_release(w)
               PROVE  LockOwnership'
    BY <1>13, <1>ty DEF gc_release, NextGC, LockOwnership
  <1>14. ASSUME NEW w \in Workers, NEW r \in Records, try_lock(w, r)
               PROVE  LockOwnership'
    BY <1>14, <1>ty DEF try_lock, LockOwnership
  <1>15. ASSUME NEW w \in Workers, NEW r \in Records, lock_failed(w, r)
               PROVE  LockOwnership'
    BY <1>15, <1>ty DEF lock_failed, LockOwnership
  <1>16. ASSUME NEW w \in Workers, NEW r \in Records, release_locks(w, r)
               PROVE  LockOwnership'
    BY <1>16, <1>ty DEF release_locks, unlock, LockOwnership
  <1>17. ASSUME NEW w \in Workers, NEW r \in Records, updateRecord(w, r)
               PROVE  LockOwnership'
    BY <1>17, <1>ty DEF updateRecord, create_versions, unlock, LockOwnership
  <1>18. ASSUME NEW w \in Workers, NEW r \in Records, getIndexedRecord(w, r)
               PROVE  LockOwnership'
    BY ZenonT(60), <1>18, <1>ty DEF getIndexedRecord, LockOwnership
  <1>19. ASSUME NEW w \in Workers, locks_acquired(w)
               PROVE  LockOwnership'
    BY Zenon, <1>19, <1>ty DEF locks_acquired, LockOwnership
  <1>20. ASSUME NEW w \in Workers, endTxn(w)
               PROVE  LockOwnership'
    BY <1>20, <1>ty DEF endTxn, StartGC, LockOwnership
  <1>21. CASE UNCHANGED vars
    BY Zenon, <1>21, <1>frame DEF vars
  <1> QED
    BY Zenon, <1>1, <1>2, <1>3, <1>4, <1>5, <1>6, <1>7, <1>8, <1>9, <1>10, <1>11, <1>12, <1>13, <1>14,
       <1>15, <1>16, <1>17, <1>18, <1>19, <1>20, <1>21
    DEF Next, WorkerStep, GcStep

(* Every step keeps the types. *)
LEMMA TypeStep ==
  ASSUME TypeOK, [Next]_vars
  PROVE  TypeOK'
PROOF
  <1> USE DEF txnVars, deltaVars, recVars, gcVars
  <1>gen. gen \in 1 .. MaxTs + 1
    BY Zenon DEF TypeOK
  <1>pc. pc \in [Workers -> PcValues]
    BY Zenon DEF TypeOK
  <1>ts. ts \in [Workers -> 0 .. MaxTs]
    BY Zenon DEF TypeOK
  <1>ro. ro \in [Workers -> BOOLEAN]
    BY Zenon DEF TypeOK
  <1>todo. todo \in [Workers -> SUBSET Records]
    BY Zenon DEF TypeOK
  <1>held. held \in [Workers -> SUBSET Records]
    BY Zenon DEF TypeOK
  <1>min_active. min_active \in [Workers -> 0 .. Never]
    BY Zenon DEF TypeOK
  <1>cur. cur \in [Workers -> Deltas \cup {NoDelta}]
    BY Zenon DEF TypeOK
  <1>readers. readers \in [Deltas -> Int]
    BY Zenon DEF TypeOK
  <1>epoch. epoch \in [Deltas -> [Workers -> 0 .. MaxTs]]
    BY Zenon DEF TypeOK
  <1>tag. tag \in [Deltas -> Nat]
    BY Zenon DEF TypeOK
  <1>t_min. t_min \in [Records -> 0 .. MaxTs]
    BY Zenon DEF TypeOK
  <1>chain. chain \in [Records -> Seq(Version)]
    BY Zenon DEF TypeOK
  <1>lck. lck \in [Records -> BOOLEAN]
    BY Zenon DEF TypeOK
  <1>gcAt. gcAt \in [Workers -> Deltas]
    BY Zenon DEF TypeOK
  <1>gcLast. gcLast \in [Workers -> Deltas]
    BY Zenon DEF TypeOK
  <1>gcRet. gcRet \in [Workers -> {"idle", "lock", "reader_inc"}]
    BY Zenon DEF TypeOK
  <1>gcIdx. gcIdx \in [Workers -> 1 .. NumWorkers + 1]
    BY Zenon DEF TypeOK
  <1>gcMin. gcMin \in [Workers -> 0 .. Never]
    BY Zenon DEF TypeOK
  <1>exposed. exposed \in [Workers -> BOOLEAN]
    BY Zenon DEF TypeOK
  <1>1. ASSUME NEW w \in Workers, NEW readOnly \in BOOLEAN, NEW writes \in SUBSET Records,
                      BeginTxn(w, readOnly, writes)
               PROVE  TypeOK'
    <2>1. gen' \in 1 .. MaxTs + 1
      BY <1>1, <1>gen, OneShotAssumption DEF BeginTxn
    <2>2. pc' \in [Workers -> PcValues]
      BY Zenon, <1>1, <1>pc, OneShotAssumption DEF BeginTxn, PcValues, GcPc
    <2>3. ts' \in [Workers -> 0 .. MaxTs]
      BY <1>1, <1>ts, <1>gen, OneShotAssumption DEF BeginTxn
    <2>4. ro' \in [Workers -> BOOLEAN]
      BY Zenon, <1>1, <1>ro, OneShotAssumption DEF BeginTxn
    <2>5. todo' \in [Workers -> SUBSET Records]
      BY Zenon, <1>1, <1>todo, OneShotAssumption DEF BeginTxn
    <2>6. UNCHANGED <<held, min_active, cur, readers, epoch, tag, t_min, chain, lck, gcAt, gcLast,
                     gcRet, gcIdx, gcMin, exposed>>
      BY Zenon, <1>1 DEF BeginTxn
    <2> QED
      BY ZenonT(30), <2>1, <2>2, <2>3, <2>4, <2>5, <2>6 DEF TypeOK
  <1>2. ASSUME NEW w \in Workers, PublishMinActive(w)
               PROVE  TypeOK'
    <2>1. pc' \in [Workers -> PcValues]
      BY Zenon, <1>2, <1>pc, OneShotAssumption DEF PublishMinActive, PcValues, GcPc
    <2>2. min_active' \in [Workers -> 0 .. Never]
      BY <1>2, <1>min_active, <1>ts, OneShotAssumption DEF PublishMinActive, Never
    <2>3. UNCHANGED <<gen, ts, ro, todo, held, cur, readers, epoch, tag, t_min, chain, lck, gcAt,
                     gcLast, gcRet, gcIdx, gcMin, exposed>>
      BY Zenon, <1>2 DEF PublishMinActive
    <2> QED
      BY ZenonT(30), <2>1, <2>2, <2>3 DEF TypeOK
  <1>3. ASSUME NEW w \in Workers, remove_active_txn(w)
               PROVE  TypeOK'
    <2>1. pc' \in [Workers -> PcValues]
      BY Zenon, <1>3, <1>pc, OneShotAssumption DEF remove_active_txn, decrement_reader, StartGC, PcValues, GcPc
    <2>2. cur' \in [Workers -> Deltas \cup {NoDelta}]
      BY Zenon, <1>3, <1>cur, OneShotAssumption DEF remove_active_txn, decrement_reader, StartGC, NoDelta
    <2>3. readers' \in [Deltas -> Int]
      BY <1>3, <1>readers, <1>cur, OneShotAssumption DEF remove_active_txn, decrement_reader, StartGC
    <2>4. gcAt' \in [Workers -> Deltas]
      BY Zenon, <1>3, <1>gcAt, <1>cur, OneShotAssumption DEF remove_active_txn, decrement_reader, StartGC, NoDelta
    <2>5. gcLast' \in [Workers -> Deltas]
      BY Zenon, <1>3, <1>gcLast, <1>cur, OneShotAssumption DEF remove_active_txn, decrement_reader, StartGC
    <2>6. gcRet' \in [Workers -> {"idle", "lock", "reader_inc"}]
      BY Zenon, <1>3, <1>gcRet, OneShotAssumption DEF remove_active_txn, decrement_reader, StartGC
    <2>7. UNCHANGED <<gen, ts, ro, todo, held, min_active, epoch, tag, t_min, chain, lck, gcIdx,
                     gcMin, exposed>>
      BY Zenon, <1>3 DEF remove_active_txn, decrement_reader, StartGC
    <2> QED
      BY ZenonT(30), <2>1, <2>2, <2>3, <2>4, <2>5, <2>6, <2>7 DEF TypeOK
  <1>4. ASSUME NEW w \in Workers, add_active_txn(w)
               PROVE  TypeOK'
    <2>1. pc' \in [Workers -> PcValues]
      BY Zenon, <1>4, <1>pc, OneShotAssumption DEF add_active_txn, PcValues, GcPc
    <2>2. UNCHANGED <<gen, ts, ro, todo, held, min_active, cur, readers, epoch, tag, t_min, chain,
                     lck, gcAt, gcLast, gcRet, gcIdx, gcMin, exposed>>
      BY Zenon, <1>4 DEF add_active_txn
    <2> QED
      BY Zenon, <2>1, <2>2 DEF TypeOK
  <1>5. ASSUME NEW w \in Workers, switch_delta(w)
               PROVE  TypeOK'
    <2>1. pc' \in [Workers -> PcValues]
      BY Zenon, <1>5, <1>pc, OneShotAssumption DEF switch_delta, decrement_reader, StartGC, PcValues, GcPc
    <2>2. cur' \in [Workers -> Deltas \cup {NoDelta}]
      BY Zenon, <1>5, <1>cur, OneShotAssumption DEF switch_delta, decrement_reader, StartGC, NoDelta
    <2>3. readers' \in [Deltas -> Int]
      BY <1>5, <1>readers, <1>cur, OneShotAssumption DEF switch_delta, decrement_reader, StartGC
    <2>4. gcAt' \in [Workers -> Deltas]
      BY Zenon, <1>5, <1>gcAt, <1>cur, OneShotAssumption DEF switch_delta, decrement_reader, StartGC
    <2>5. gcLast' \in [Workers -> Deltas]
      BY Zenon, <1>5, <1>gcLast, <1>cur, OneShotAssumption DEF switch_delta, decrement_reader, StartGC
    <2>6. gcRet' \in [Workers -> {"idle", "lock", "reader_inc"}]
      BY Zenon, <1>5, <1>gcRet, OneShotAssumption DEF switch_delta, decrement_reader, StartGC
    <2>7. UNCHANGED <<gen, ts, ro, todo, held, min_active, epoch, tag, t_min, chain, lck, gcIdx,
                     gcMin, exposed>>
      BY Zenon, <1>5 DEF switch_delta, decrement_reader, StartGC
    <2> QED
      BY ZenonT(30), <2>1, <2>2, <2>3, <2>4, <2>5, <2>6, <2>7 DEF TypeOK
  <1>6. ASSUME NEW w \in Workers, update_delta_epoch(w)
               PROVE  TypeOK'
    <2>1. epoch' \in [Deltas -> [Workers -> 0 .. MaxTs]]
      BY ZenonT(30), <1>6, <1>epoch, <1>ts, DeltaVerType, OneShotAssumption DEF update_delta_epoch, NoDelta, Deltas
    <2>2. pc' \in [Workers -> PcValues]
      BY Zenon, <1>6, <1>pc, OneShotAssumption DEF update_delta_epoch, PcValues, GcPc
    <2>3. UNCHANGED <<gen, ts, ro, todo, held, min_active, cur, readers, tag, t_min, chain, lck,
                     gcAt, gcLast, gcRet, gcIdx, gcMin, exposed>>
      BY Zenon, <1>6 DEF update_delta_epoch
    <2> QED
      BY ZenonT(30), <2>1, <2>2, <2>3 DEF TypeOK
  <1>7. ASSUME NEW w \in Workers, increment_reader(w)
               PROVE  TypeOK'
    <2>1. readers' \in [Deltas -> Int]
      BY <1>7, <1>readers, <1>ts, DeltaVerType, OneShotAssumption DEF increment_reader
    <2>2. cur' \in [Workers -> Deltas \cup {NoDelta}]
      BY <1>7, <1>cur, <1>ts, DeltaVerType, OneShotAssumption DEF increment_reader
    <2>d. get_delta_ver(ts[w]) \in Deltas
      BY <1>ts, DeltaVerType
    <2>e. (IF epoch[get_delta_ver(ts[w])][w] < ts[w] THEN ts[w] ELSE epoch[get_delta_ver(ts[w])][w])
             \in 0 .. MaxTs
      BY Zenon, <2>d, <1>epoch, <1>ts
    <2>3. epoch' \in [Deltas -> [Workers -> 0 .. MaxTs]]
      <3>1. CASE UNCHANGED epoch
        BY Zenon, <3>1, <1>epoch
      <3>2. CASE epoch' = [epoch EXCEPT ![get_delta_ver(ts[w])][w] = IF @ < ts[w] THEN ts[w] ELSE @]
        BY Zenon, <3>2, <2>d, <2>e, <1>epoch
      <3> QED
        BY Zenon, <1>7, <3>1, <3>2 DEF increment_reader
    <2>4. pc' \in [Workers -> PcValues]
      BY Zenon, <1>7, <1>pc, OneShotAssumption DEF increment_reader, PcValues, GcPc
    <2>5. UNCHANGED <<gen, ts, ro, todo, held, min_active, tag, t_min, chain, lck, gcAt, gcLast,
                     gcRet, gcIdx, gcMin, exposed>>
      BY Zenon, <1>7 DEF increment_reader
    <2> QED
      BY ZenonT(30), <2>1, <2>2, <2>3, <2>4, <2>5 DEF TypeOK
  <1>8. ASSUME NEW w \in Workers, spin_reader(w)
               PROVE  TypeOK'
    <2>1. pc' \in [Workers -> PcValues]
      BY Zenon, <1>8, <1>pc, OneShotAssumption DEF spin_reader, PcValues, GcPc
    <2>2. UNCHANGED <<gen, ts, ro, todo, held, min_active, cur, readers, epoch, tag, t_min, chain,
                     lck, gcAt, gcLast, gcRet, gcIdx, gcMin, exposed>>
      BY Zenon, <1>8 DEF spin_reader
    <2> QED
      BY Zenon, <2>1, <2>2 DEF TypeOK
  <1>9. ASSUME NEW w \in Workers, gc_acquire(w)
               PROVE  TypeOK'
    <2>1. readers' \in [Deltas -> Int]
      BY <1>9, <1>readers, <1>gcAt, OneShotAssumption DEF gc_acquire
    <2>2. pc' \in [Workers -> PcValues]
      BY Zenon, <1>9, <1>pc, OneShotAssumption DEF gc_acquire, PcValues, GcPc
    <2>3. UNCHANGED <<gen, ts, ro, todo, held, min_active, cur, epoch, tag, t_min, chain, lck, gcAt,
                     gcLast, gcRet, gcIdx, gcMin, exposed>>
      BY Zenon, <1>9 DEF gc_acquire
    <2> QED
      BY ZenonT(30), <2>1, <2>2, <2>3 DEF TypeOK
  <1>10. ASSUME NEW w \in Workers, gc_skip(w)
               PROVE  TypeOK'
    <2>1. gcAt' \in [Workers -> Deltas]
      BY <1>10, <1>gcAt, <1>gcLast, OneShotAssumption DEF gc_skip, NextGC, Deltas
    <2>2. gcLast' \in [Workers -> Deltas]
      BY <1>10, <1>gcLast, OneShotAssumption DEF gc_skip, NextGC, Deltas
    <2>3. gcRet' \in [Workers -> {"idle", "lock", "reader_inc"}]
      BY Zenon, <1>10, <1>gcRet, OneShotAssumption DEF gc_skip, NextGC
    <2>4. pc' \in [Workers -> PcValues]
      BY Zenon, <1>10, <1>pc, <1>gcRet, OneShotAssumption DEF gc_skip, NextGC, PcValues, GcPc
    <2>5. UNCHANGED <<gen, ts, ro, todo, held, min_active, cur, readers, epoch, tag, t_min, chain,
                     lck, gcIdx, gcMin, exposed>>
      BY Zenon, <1>10 DEF gc_skip, NextGC
    <2> QED
      BY ZenonT(30), <2>1, <2>2, <2>3, <2>4, <2>5 DEF TypeOK
  <1>11. ASSUME NEW w \in Workers, get_min_activeTxn(w)
               PROVE  TypeOK'
    <2>1. gcMin' \in [Workers -> 0 .. Never]
      <3>1. gcIdx[w] \in Workers
        <4>1. gcIdx[w] \in 1 .. NumWorkers + 1 /\ gcIdx[w] <= NumWorkers /\ NumWorkers \in Nat
          BY Zenon, <1>11, <1>gcIdx, OneShotAssumption DEF get_min_activeTxn
        <4> QED
          BY <4>1 DEF Workers
      <3>2. min_active[gcIdx[w]] \in 0 .. Never /\ gcMin[w] \in 0 .. Never
        BY Zenon, <3>1, <1>gcMin, <1>min_active
      <3>3. \E x \in 0 .. Never : gcMin' = [gcMin EXCEPT ![w] = x]
        BY Zenon, <1>11, <3>2 DEF get_min_activeTxn
      <3> QED
        BY Zenon, <1>gcMin, <3>3
    <2>2. gcIdx' \in [Workers -> 1 .. NumWorkers + 1]
      BY <1>11, <1>gcIdx, OneShotAssumption DEF get_min_activeTxn, Workers
    <2>3. exposed' \in [Workers -> BOOLEAN]
      BY ZenonT(30), <1>11, <1>exposed, <1>gcIdx, OneShotAssumption DEF get_min_activeTxn
    <2>4. UNCHANGED <<gen, pc, ts, ro, todo, held, min_active, cur, readers, epoch, tag, t_min,
                     chain, lck, gcAt, gcLast, gcRet>>
      BY Zenon, <1>11 DEF get_min_activeTxn
    <2> QED
      BY ZenonT(30), <2>1, <2>2, <2>3, <2>4 DEF TypeOK
  <1>12. ASSUME NEW w \in Workers, gc_reset(w)
               PROVE  TypeOK'
    <2>1. tag' \in [Deltas -> Nat]
      BY <1>12, <1>tag, <1>gcAt, OneShotAssumption DEF gc_reset
    <2>2. gcIdx' \in [Workers -> 1 .. NumWorkers + 1]
      BY <1>12, <1>gcIdx, OneShotAssumption DEF gc_reset
    <2>3. gcMin' \in [Workers -> 0 .. Never]
      BY <1>12, <1>gcMin, OneShotAssumption DEF gc_reset, Never
    <2>4. pc' \in [Workers -> PcValues]
      BY Zenon, <1>12, <1>pc, OneShotAssumption DEF gc_reset, PcValues, GcPc
    <2>5. UNCHANGED <<gen, ts, ro, todo, held, min_active, cur, readers, epoch, t_min, chain, lck,
                     gcAt, gcLast, gcRet, exposed>>
      BY Zenon, <1>12 DEF gc_reset
    <2> QED
      BY ZenonT(30), <2>1, <2>2, <2>3, <2>4, <2>5 DEF TypeOK
  <1>13. ASSUME NEW w \in Workers, gc_release(w)
               PROVE  TypeOK'
    <2>1. readers' \in [Deltas -> Int]
      BY <1>13, <1>readers, <1>gcAt, OneShotAssumption DEF gc_release, NextGC
    <2>2. gcAt' \in [Workers -> Deltas]
      BY <1>13, <1>gcAt, <1>gcLast, OneShotAssumption DEF gc_release, NextGC, Deltas
    <2>3. gcLast' \in [Workers -> Deltas]
      BY <1>13, <1>gcLast, OneShotAssumption DEF gc_release, NextGC, Deltas
    <2>4. gcRet' \in [Workers -> {"idle", "lock", "reader_inc"}]
      BY Zenon, <1>13, <1>gcRet, OneShotAssumption DEF gc_release, NextGC
    <2>5. pc' \in [Workers -> PcValues]
      BY Zenon, <1>13, <1>pc, <1>gcRet, OneShotAssumption DEF gc_release, NextGC, PcValues, GcPc
    <2>6. UNCHANGED <<gen, ts, ro, todo, held, min_active, cur, epoch, tag, t_min, chain, lck,
                     gcIdx, gcMin, exposed>>
      BY Zenon, <1>13 DEF gc_release, NextGC
    <2> QED
      BY ZenonT(30), <2>1, <2>2, <2>3, <2>4, <2>5, <2>6 DEF TypeOK
  <1>14. ASSUME NEW w \in Workers, NEW r \in Records, try_lock(w, r)
               PROVE  TypeOK'
    <2>1. lck' \in [Records -> BOOLEAN]
      BY Zenon, <1>14, <1>lck, OneShotAssumption DEF try_lock
    <2>2. todo' \in [Workers -> SUBSET Records]
      BY Zenon, <1>14, <1>todo, OneShotAssumption DEF try_lock
    <2>3. held' \in [Workers -> SUBSET Records]
      BY Zenon, <1>14, <1>held, OneShotAssumption DEF try_lock
    <2>4. UNCHANGED <<gen, pc, ts, ro, min_active, cur, readers, epoch, tag, t_min, chain, gcAt,
                     gcLast, gcRet, gcIdx, gcMin, exposed>>
      BY Zenon, <1>14 DEF try_lock
    <2> QED
      BY ZenonT(30), <2>1, <2>2, <2>3, <2>4 DEF TypeOK
  <1>15. ASSUME NEW w \in Workers, NEW r \in Records, lock_failed(w, r)
               PROVE  TypeOK'
    <2>1. todo' \in [Workers -> SUBSET Records]
      BY Zenon, <1>15, <1>todo, OneShotAssumption DEF lock_failed
    <2>2. pc' \in [Workers -> PcValues]
      BY Zenon, <1>15, <1>pc, OneShotAssumption DEF lock_failed, PcValues, GcPc
    <2>3. UNCHANGED <<gen, ts, ro, held, min_active, cur, readers, epoch, tag, t_min, chain, lck,
                     gcAt, gcLast, gcRet, gcIdx, gcMin, exposed>>
      BY Zenon, <1>15 DEF lock_failed
    <2> QED
      BY ZenonT(30), <2>1, <2>2, <2>3 DEF TypeOK
  <1>16. ASSUME NEW w \in Workers, NEW r \in Records, release_locks(w, r)
               PROVE  TypeOK'
    <2>1. lck' \in [Records -> BOOLEAN]
      BY Zenon, <1>16, <1>lck, OneShotAssumption DEF release_locks, unlock
    <2>2. held' \in [Workers -> SUBSET Records]
      BY Zenon, <1>16, <1>held, OneShotAssumption DEF release_locks, unlock
    <2>3. UNCHANGED <<gen, pc, ts, ro, todo, min_active, cur, readers, epoch, tag, t_min, chain,
                     gcAt, gcLast, gcRet, gcIdx, gcMin, exposed>>
      BY Zenon, <1>16 DEF release_locks, unlock
    <2> QED
      BY ZenonT(30), <2>1, <2>2, <2>3 DEF TypeOK
  <1>17. ASSUME NEW w \in Workers, NEW r \in Records, updateRecord(w, r)
               PROVE  TypeOK'
    <2> DEFINE d == get_delta_ver(ts[w])
               v == [t_min |-> t_min[r], by |-> ts[w], delta |-> d, tag |-> tag[d]]
               next == IF chain[r] # <<>> /\ isValid(chain[r][1]) THEN chain[r] ELSE <<>>
    <2>v. v \in Version
      <3>1. t_min[r] \in 0 .. MaxTs /\ ts[w] \in 0 .. MaxTs /\ tag \in [Deltas -> Nat] /\ MaxTs \in Nat
        BY Zenon, OneShotAssumption DEF TypeOK
      <3>2. t_min[r] \in Nat /\ ts[w] \in Nat
        BY <3>1
      <3>3. d \in Deltas /\ tag[d] \in Nat
        BY Zenon, <3>1, <3>2, DeltaVerType
      <3> QED
        BY Zenon, <3>2, <3>3 DEF Version
    <2>n. next \in Seq(Version)
      BY DEF TypeOK
    <2>c. <<v>> \o next \in Seq(Version)
      BY ZenonT(30), <2>v, <2>n, ConsVersion
    <2>1. chain' \in [Records -> Seq(Version)]
      BY Zenon, <1>17, <2>c DEF updateRecord, create_versions, TypeOK
    <2>2. t_min' \in [Records -> 0 .. MaxTs]
      BY Zenon, <1>17, <1>t_min, <1>ts, OneShotAssumption DEF updateRecord, create_versions, unlock
    <2>3. lck' \in [Records -> BOOLEAN]
      BY Zenon, <1>17, <1>lck, OneShotAssumption DEF updateRecord, create_versions, unlock
    <2>4. held' \in [Workers -> SUBSET Records]
      BY ZenonT(60), <1>17, <1>held, OneShotAssumption DEF updateRecord, create_versions, unlock
    <2>5. UNCHANGED <<gen, pc, ts, ro, todo, min_active, cur, readers, epoch, tag, gcAt, gcLast,
                     gcRet, gcIdx, gcMin, exposed>>
      BY Zenon, <1>17 DEF updateRecord, create_versions, unlock
    <2> QED
      BY ZenonT(30), <2>1, <2>2, <2>3, <2>4, <2>5 DEF TypeOK
  <1>18. ASSUME NEW w \in Workers, NEW r \in Records, getIndexedRecord(w, r)
               PROVE  TypeOK'
    <2>1. pc' \in [Workers -> PcValues]
      BY Zenon, <1>18, <1>pc, OneShotAssumption DEF getIndexedRecord, PcValues, GcPc
    <2>2. UNCHANGED <<gen, ts, ro, todo, held, min_active, cur, readers, epoch, tag, t_min, chain,
                     lck, gcAt, gcLast, gcRet, gcIdx, gcMin, exposed>>
      BY Zenon, <1>18 DEF getIndexedRecord
    <2> QED
      BY ZenonT(30), <2>1, <2>2 DEF TypeOK
  <1>19. ASSUME NEW w \in Workers, locks_acquired(w)
               PROVE  TypeOK'
    <2>1. pc' \in [Workers -> PcValues]
      BY Zenon, <1>19, <1>pc, OneShotAssumption DEF locks_acquired, PcValues, GcPc
    <2>2. UNCHANGED <<gen, ts, ro, todo, held, min_active, cur, readers, epoch, tag, t_min, chain,
                     lck, gcAt, gcLast, gcRet, gcIdx, gcMin, exposed>>
      BY Zenon, <1>19 DEF locks_acquired
    <2> QED
      BY Zenon, <2>1, <2>2 DEF TypeOK
  <1>20. ASSUME NEW w \in Workers, endTxn(w)
               PROVE  TypeOK'
    <2>1. min_active' \in [Workers -> 0 .. Never]
      BY <1>20, <1>min_active, OneShotAssumption DEF endTxn, StartGC, Never
    <2>2. ts' \in [Workers -> 0 .. MaxTs]
      BY <1>20, <1>ts, OneShotAssumption DEF endTxn, StartGC
    <2>3. ro' \in [Workers -> BOOLEAN]
      BY Zenon, <1>20, <1>ro, OneShotAssumption DEF endTxn, StartGC
    <2>4. exposed' \in [Workers -> BOOLEAN]
      BY Zenon, <1>20, <1>exposed, OneShotAssumption DEF endTxn, StartGC
    <2>5. pc' \in [Workers -> PcValues]
      BY Zenon, <1>20, <1>pc, OneShotAssumption DEF endTxn, StartGC, PcValues, GcPc
    <2>6. gcAt' \in [Workers -> Deltas]
      BY <1>20, <1>gcAt, OneShotAssumption DEF endTxn, StartGC, Deltas
    <2>7. gcLast' \in [Workers -> Deltas]
      BY <1>20, <1>gcLast, OneShotAssumption DEF endTxn, StartGC, Deltas
    <2>8. gcRet' \in [Workers -> {"idle", "lock", "reader_inc"}]
      BY Zenon, <1>20, <1>gcRet, OneShotAssumption DEF endTxn, StartGC
    <2>9. UNCHANGED <<gen, todo, held, cur, readers, epoch, tag, t_min, chain, lck, gcIdx, gcMin>>
      BY ZenonT(60), <1>20 DEF endTxn, StartGC
    <2> QED
      BY ZenonT(30), <2>1, <2>2, <2>3, <2>4, <2>5, <2>6, <2>7, <2>8, <2>9 DEF TypeOK
  <1>21. CASE UNCHANGED vars
    BY Zenon, <1>21 DEF vars, TypeOK
  <1> QED
    BY Zenon, <1>1, <1>2, <1>3, <1>4, <1>5, <1>6, <1>7, <1>8, <1>9, <1>10, <1>11, <1>12, <1>13, <1>14,
       <1>15, <1>16, <1>17, <1>18, <1>19, <1>20, <1>21
    DEF Next, WorkerStep, GcStep

(* Every variable of the engine keeps its type in every behaviour. *)
THEOREM TypeCorrect == Spec => []TypeOK
PROOF
  <1>1. Init => TypeOK
    BY OneShotAssumption DEF Init, TypeOK, PcValues, Never, NoDelta, Deltas
  <1>2. TypeOK /\ [Next]_vars => TypeOK'
    BY Zenon, TypeStep
  <1> QED
    BY <1>1, <1>2, PTL DEF Spec

(* No write lock is lost, shared or leaked, for any number of workers and
   records (AtomicTryLock::try_lock in the stored procedures, release_locks on abort, release after
   the update). *)
THEOREM LocksOwned == Spec => []LockOwnership
PROOF
  <1>1. Init => LockOwnership
    BY Zenon DEF Init, LockOwnership
  <1>2. TypeOK /\ LockOwnership /\ [Next]_vars => LockOwnership'
    BY Zenon, LockStep
  <1> QED
    BY <1>1, <1>2, TypeCorrect, PTL DEF Spec

-----------------------------------------------------------------------------
(* The scan of a collector, and what it leaves for the readers. *)

(* Every step keeps what a scan has established for the slots it has read. *)
LEMMA ScanStep ==
  ASSUME TypeOK, TypeOK', PhaseInv, WriterInv, CollectorAlone, ScanInv, [Next]_vars
  PROVE  ScanInv'
PROOF
  <1> USE DEF txnVars, deltaVars, recVars, gcVars
  <1>ty. /\ pc \in [Workers -> PcValues]
         /\ cur \in [Workers -> Deltas \cup {NoDelta}]
         /\ ts \in [Workers -> 0 .. MaxTs]
         /\ readers \in [Deltas -> Int]
         /\ epoch \in [Deltas -> [Workers -> 0 .. MaxTs]]
         /\ min_active \in [Workers -> 0 .. Never]
         /\ gcAt \in [Workers -> Deltas]
         /\ gcIdx \in [Workers -> 1 .. NumWorkers + 1]
         /\ gcMin \in [Workers -> 0 .. Never]
         /\ exposed \in [Workers -> BOOLEAN]
         /\ gcRet \in [Workers -> {"idle", "lock", "reader_inc"}]
    BY Zenon DEF TypeOK
  <1>ty2. gcMin' \in [Workers -> 0 .. Never] /\ Never \in Nat
    BY OneShotAssumption DEF TypeOK, Never
  <1>frame. ASSUME UNCHANGED <<pc, ts, epoch, gcAt, gcIdx, gcMin, exposed>>
           PROVE  ScanInv'
    BY Zenon, <1>frame DEF ScanInv, Active
  <1>1. ASSUME NEW w \in Workers, NEW readOnly \in BOOLEAN, NEW writes \in SUBSET Records,
                      BeginTxn(w, readOnly, writes)
               PROVE  ScanInv'
    <2>1. pc[w] # "gc_scan" /\ pc'[w] # "gc_scan"
          /\ (\A x \in Workers : x # w => pc'[x] = pc[x] /\ ts'[x] = ts[x]) /\ ts'[w] = gen
      BY Zenon, <1>1, <1>ty DEF BeginTxn
    <2>2. UNCHANGED <<epoch, gcAt, gcIdx, gcMin, exposed>>
      BY Zenon, <1>1 DEF BeginTxn
    <2>3. \A d \in Deltas, u \in Workers : epoch[d][u] < gen
      BY Zenon DEF PhaseInv
    <2> QED
      BY ZenonT(60), <2>1, <2>2, <2>3, <1>ty DEF ScanInv, Active
  <1>2. ASSUME NEW w \in Workers, PublishMinActive(w)
               PROVE  ScanInv'
    BY Zenon, <1>2, <1>ty DEF PublishMinActive, ScanInv, Active
  <1>3. ASSUME NEW w \in Workers, remove_active_txn(w)
               PROVE  ScanInv'
    BY ZenonT(60), <1>3, <1>ty DEF remove_active_txn, decrement_reader, StartGC, ScanInv, Active
  <1>4. ASSUME NEW w \in Workers, add_active_txn(w)
               PROVE  ScanInv'
    BY Zenon, <1>4, <1>ty DEF add_active_txn, ScanInv, Active
  <1>5. ASSUME NEW w \in Workers, switch_delta(w)
               PROVE  ScanInv'
    BY ZenonT(60), <1>5, <1>ty DEF switch_delta, decrement_reader, StartGC, ScanInv, Active
  <1>6. ASSUME NEW w \in Workers, update_delta_epoch(w)
               PROVE  ScanInv'
    <2>1. PICK c \in Deltas : c = get_delta_ver(ts[w])
      BY <1>ty, DeltaVerType
    <2>2. \A x \in Workers : pc[x] = "gc_scan" => epoch'[gcAt[x]] = epoch[gcAt[x]]
      <3> SUFFICES ASSUME NEW x \in Workers, pc[x] = "gc_scan"
                   PROVE  epoch'[gcAt[x]] = epoch[gcAt[x]]
        BY Zenon
      <3>1. gcAt[x] \in Deltas /\ readers[gcAt[x]] < 0 /\ Registered(gcAt[x]) = {}
        BY <1>ty DEF CollectorAlone, Collects
      <3>2. epoch' = epoch \/ gcAt[x] # c
        BY ZenonT(60), <1>6, <2>1, <3>1, <1>ty DEF update_delta_epoch, Registered
      <3> QED
        BY Zenon, <1>6, <2>1, <3>1, <3>2, <1>ty DEF update_delta_epoch
    <2>3. pc[w] # "gc_scan" /\ pc'[w] # "gc_scan" /\ \A x \in Workers : x # w => pc'[x] = pc[x]
      BY Zenon, <1>6, <1>ty DEF update_delta_epoch
    <2>4. UNCHANGED <<ts, gcAt, gcIdx, gcMin, exposed>>
      BY ZenonT(60), <1>6 DEF update_delta_epoch
    <2> QED
      BY ZenonT(60), <2>2, <2>3, <2>4 DEF ScanInv, Active
  <1>7. ASSUME NEW w \in Workers, increment_reader(w)
               PROVE  ScanInv'
    <2>1. PICK c \in Deltas : c = get_delta_ver(ts[w])
      BY <1>ty, DeltaVerType
    <2>2. \A x \in Workers : pc[x] = "gc_scan" => epoch'[gcAt[x]] = epoch[gcAt[x]]
      <3> SUFFICES ASSUME NEW x \in Workers, pc[x] = "gc_scan"
                   PROVE  epoch'[gcAt[x]] = epoch[gcAt[x]]
        BY Zenon
      <3>1. gcAt[x] \in Deltas /\ readers[gcAt[x]] < 0 /\ Registered(gcAt[x]) = {}
        BY Zenon, <1>ty DEF CollectorAlone, Collects
      <3>2. epoch' = epoch \/ gcAt[x] # c
        BY <1>7, <2>1, <3>1, <1>ty DEF increment_reader, Registered
      <3> QED
        BY ZenonT(60), <1>7, <2>1, <3>1, <3>2, <1>ty DEF increment_reader
    <2>3. pc[w] # "gc_scan" /\ pc'[w] # "gc_scan" /\ \A x \in Workers : x # w => pc'[x] = pc[x]
      BY ZenonT(60), <1>7, <1>ty DEF increment_reader
    <2>4. UNCHANGED <<ts, gcAt, gcIdx, gcMin, exposed>>
      BY ZenonT(60), <1>7 DEF increment_reader
    <2> QED
      BY Zenon, <2>2, <2>3, <2>4 DEF ScanInv, Active
  <1>8. ASSUME NEW w \in Workers, spin_reader(w)
               PROVE  ScanInv'
    BY ZenonT(60), <1>8, <1>ty DEF spin_reader, ScanInv, Active
  <1>9. ASSUME NEW w \in Workers, gc_acquire(w)
               PROVE  ScanInv'
    BY <1>9, <1>ty DEF gc_acquire, ScanInv, Active, Workers
  <1>10. ASSUME NEW w \in Workers, gc_skip(w)
               PROVE  ScanInv'
    BY ZenonT(30), <1>10, <1>ty DEF gc_skip, NextGC, ScanInv, Active
  <1>11. ASSUME NEW w \in Workers, get_min_activeTxn(w)
               PROVE  ScanInv'
    <2>1. UNCHANGED <<pc, ts, gcAt, epoch>> /\ pc[w] = "gc_scan" /\ gcIdx[w] \in Workers
      BY <1>11, <1>ty DEF get_min_activeTxn, Workers
    <2>2. /\ gcMin'[w] <= gcMin[w] /\ gcMin'[w] <= min_active[gcIdx[w]] /\ gcIdx'[w] = gcIdx[w] + 1
          /\ \A x \in Workers : x # w => gcMin'[x] = gcMin[x] /\ gcIdx'[x] = gcIdx[x]
      BY <1>11, <2>1, <1>ty DEF get_min_activeTxn, Never
    <2>3. /\ pc[gcIdx[w]] = "publish" => exposed'[gcIdx[w]]
          /\ \A x \in Workers : exposed[x] => exposed'[x]
      BY ZenonT(30), <1>11, <2>1, <1>ty DEF get_min_activeTxn
    <2>0. \A x \in Workers : pc'[x] # "gc_scan" => gcIdx'[x] = 1
      BY ZenonT(60), <2>1, <2>2 DEF ScanInv
    <2> SUFFICES ASSUME NEW x \in Workers, NEW v \in Workers,
                        pc[x] = "gc_scan", v < gcIdx'[x], ts[v] # 0, ~exposed'[v]
                 PROVE  gcMin'[x] <= ts[v] \/ \A u \in Workers : epoch[gcAt[x]][u] < ts[v]
      BY ZenonT(60), <2>0, <2>1 DEF ScanInv, Active
    <2>4. CASE v < gcIdx[x]
      <3>1. gcMin[x] <= ts[v] \/ \A u \in Workers : epoch[gcAt[x]][u] < ts[v]
        BY Zenon, <2>3, <2>4 DEF ScanInv, Active
      <3>2. gcMin'[x] <= gcMin[x] /\ gcMin'[x] \in Int /\ gcMin[x] \in Int /\ ts[v] \in Int
        BY <2>2, <1>ty, <1>ty2
      <3> QED
        BY <3>1, <3>2
    <2>5. CASE ~(v < gcIdx[x])
      <3>1. x = w /\ v = gcIdx[w]
        BY <2>2, <2>5, <1>ty DEF Workers
      <3>2. min_active[v] = ts[v]
        BY Zenon, <2>3, <3>1 DEF PhaseInv, Active
      <3> QED
        BY Zenon, <2>2, <3>1, <3>2
    <2> QED
      BY Zenon, <2>4, <2>5
  <1>12. ASSUME NEW w \in Workers, gc_reset(w)
               PROVE  ScanInv'
    BY ZenonT(60), <1>12, <1>ty DEF gc_reset, ScanInv, Active
  <1>13. ASSUME NEW w \in Workers, gc_release(w)
               PROVE  ScanInv'
    <2>1. pc'[w] # "gc_scan" /\ \A x \in Workers : x # w => pc'[x] = pc[x] /\ gcAt'[x] = gcAt[x]
      BY ZenonT(60), <1>13, <1>ty DEF gc_release, NextGC
    <2>2. UNCHANGED <<ts, epoch, gcIdx, gcMin, exposed>> /\ pc[w] # "gc_scan"
      BY Zenon, <1>13 DEF gc_release
    <2> QED
      BY ZenonT(60), <2>1, <2>2 DEF ScanInv, Active
  <1>14. ASSUME NEW w \in Workers, NEW r \in Records, try_lock(w, r)
               PROVE  ScanInv'
    BY ZenonT(60), <1>14, <1>frame DEF try_lock
  <1>15. ASSUME NEW w \in Workers, NEW r \in Records, lock_failed(w, r)
               PROVE  ScanInv'
    BY ZenonT(60), <1>15, <1>ty DEF lock_failed, ScanInv, Active
  <1>16. ASSUME NEW w \in Workers, NEW r \in Records, release_locks(w, r)
               PROVE  ScanInv'
    BY ZenonT(60), <1>16, <1>frame DEF release_locks, unlock
  <1>17. ASSUME NEW w \in Workers, NEW r \in Records, updateRecord(w, r)
               PROVE  ScanInv'
    BY ZenonT(60), <1>17, <1>frame DEF updateRecord, create_versions, unlock
  <1>18. ASSUME NEW w \in Workers, NEW r \in Records, getIndexedRecord(w, r)
               PROVE  ScanInv'
    BY ZenonT(60), <1>18, <1>ty DEF getIndexedRecord, ScanInv, Active
  <1>19. ASSUME NEW w \in Workers, locks_acquired(w)
               PROVE  ScanInv'
    BY Zenon, <1>19, <1>ty DEF locks_acquired, ScanInv, Active
  <1>20. ASSUME NEW w \in Workers, endTxn(w)
               PROVE  ScanInv'
    BY ZenonT(30), <1>20, <1>ty DEF endTxn, StartGC, ScanInv, Active
  <1>21. CASE UNCHANGED vars
    BY Zenon, <1>21, <1>frame DEF vars
  <1> QED
    BY ZenonT(60), <1>1, <1>2, <1>3, <1>4, <1>5, <1>6, <1>7, <1>8, <1>9, <1>10, <1>11, <1>12, <1>13, <1>14,
       <1>15, <1>16, <1>17, <1>18, <1>19, <1>20, <1>21
    DEF Next, WorkerStep, GcStep

(* A step that creates no version and reclaims none takes nothing from the transactions
   that were running, and gives the ones that start the records themselves. *)
LEMMA ReadSame ==
  ASSUME ReadableUnlessExposed, UNCHANGED <<t_min, chain, tag>>,
         \A v \in Workers : ts'[v] # 0 /\ ~exposed'[v] =>
           \/ ts'[v] = ts[v] /\ ~exposed[v]
           \/ \A r \in Records : t_min[r] <= ts'[v]
  PROVE  ReadableUnlessExposed'
PROOF
  <1>1. NoWrap' => NoWrap
    BY Zenon DEF NoWrap
  <1> SUFFICES ASSUME NoWrap, NEW v \in Workers, NEW r \in Records, ts'[v] # 0, ~exposed'[v]
               PROVE  CanRead(ts[v], r)'
    BY ZenonT(60), <1>1 DEF ReadableUnlessExposed, Active
  <1>2. CASE ts'[v] = ts[v] /\ ~exposed[v]
    <2>1. CanRead(ts[v], r)
      BY Zenon, <1>2 DEF ReadableUnlessExposed, Active
    <2> QED
      BY Zenon, <1>2, <2>1 DEF CanRead, get_readable_ver, isValid
  <1>3. CASE t_min[r] <= ts'[v]
    BY Zenon, <1>3 DEF CanRead, is_readable
  <1> QED
    BY Zenon, <1>2, <1>3

(* The reset of a delta takes no version a transaction that is not exposed has to read. *)
LEMMA ReadReset ==
  ASSUME TypeOK, ScanInv, ChainInv, ReadableUnlessExposed,
         NEW w \in Workers, gc_reset(w)
  PROVE  ReadableUnlessExposed'
PROOF
  <1> USE DEF txnVars, deltaVars, recVars, gcVars
  <1>ty. /\ gen \in 1 .. MaxTs + 1
         /\ pc \in [Workers -> PcValues]
         /\ ts \in [Workers -> 0 .. MaxTs]
         /\ epoch \in [Deltas -> [Workers -> 0 .. MaxTs]]
         /\ tag \in [Deltas -> Nat]
         /\ t_min \in [Records -> 0 .. MaxTs]
         /\ chain \in [Records -> Seq(Version)]
         /\ gcAt \in [Workers -> Deltas]
         /\ gcIdx \in [Workers -> 1 .. NumWorkers + 1]
         /\ gcMin \in [Workers -> 0 .. Never]
         /\ exposed \in [Workers -> BOOLEAN]
    BY ZenonT(60) DEF TypeOK
  <1>el. \A r \in Records : \A i \in 1 .. Len(chain[r]) :
           /\ chain[r][i] \in Version
           /\ chain[r][i].by \in Nat /\ chain[r][i].delta \in Deltas /\ chain[r][i].tag \in Nat
    <2> TAKE r \in Records
    <2> TAKE i \in 1 .. Len(chain[r])
    <2>1. chain[r] \in Seq(Version)
      BY Zenon, <1>ty
    <2>2. chain[r][i] \in Version
      BY <2>1
    <2> QED
      BY Zenon, <2>2 DEF Version
  <1>1. UNCHANGED <<t_min, chain, ts, exposed>>
    BY Zenon DEF gc_reset
  <1>2. CASE UNCHANGED tag
    BY ZenonT(60), <1>1, <1>2, ReadSame
  <1>3. CASE BeyondEpochs(gcAt[w], gcMin[w]) /\ tag' = [tag EXCEPT ![gcAt[w]] = @ + 1]
    <2>0. PICK d \in Deltas : d = gcAt[w]
      BY Zenon, <1>ty
    <2>1. tag'[d] = tag[d] + 1 /\ \A e \in Deltas : e # d => tag'[e] = tag[e]
      BY Zenon, <1>3, <2>0, <1>ty
    <2>2. ASSUME NEW v \in Workers, ts[v] # 0, ~exposed[v], NEW u \in Workers
          PROVE  epoch[d][u] < ts[v]
      <3>0. gcIdx[w] > NumWorkers /\ pc[w] = "gc_scan"
        BY Zenon DEF gc_reset
      <3>1. v < gcIdx[w]
        <4>1. gcIdx[w] \in Int /\ NumWorkers \in Int
          BY <1>ty, OneShotAssumption
        <4> QED
          BY <3>0, <4>1 DEF Workers
      <3>2. gcMin[w] <= ts[v] \/ epoch[d][u] < ts[v]
        BY Zenon, <2>0, <2>2, <3>0, <3>1 DEF ScanInv, Active
      <3>3. epoch[d][u] < gcMin[w] /\ epoch[d][u] \in Nat /\ gcMin[w] \in Nat /\ ts[v] \in Nat
        <4>1. gcMin[w] > epoch[d][u]
          BY Zenon, <1>3, <2>0 DEF BeyondEpochs
        <4>2. epoch[d] \in [Workers -> 0 .. MaxTs] /\ gcMin[w] \in 0 .. Never /\ ts[v] \in 0 .. MaxTs
          BY Zenon, <1>ty
        <4>3. MaxTs \in Nat
          BY Zenon, OneShotAssumption
        <4> QED
          BY <4>1, <4>2, <4>3 DEF Never
      <3> QED
        BY <3>2, <3>3
    <2> SUFFICES ASSUME NoWrap', NEW v \in Workers, NEW r \in Records, ts[v] # 0, ~exposed[v],
                        ~is_readable(t_min[r], ts[v])
                 PROVE  \E k \in 1 .. Len(chain[r]) :
                          /\ \A i \in 1 .. k : tag'[chain[r][i].delta] % TagWrap = chain[r][i].tag % TagWrap
                          /\ \A i \in 1 .. k - 1 : ~is_readable(chain[r][i].t_min, ts[v])
                          /\ is_readable(chain[r][k].t_min, ts[v])
      <3>1. SUFFICES ASSUME NoWrap', NEW v \in Workers, NEW r \in Records, ts'[v] # 0, ~exposed'[v]
                     PROVE  CanRead(ts[v], r)'
        BY Zenon, <1>1 DEF ReadableUnlessExposed, Active
      <3>2. ts'[v] = ts[v] /\ exposed'[v] = exposed[v] /\ t_min'[r] = t_min[r] /\ chain'[r] = chain[r]
        BY Zenon, <1>1
      <3>3. CASE is_readable(t_min[r], ts[v])
        BY Zenon, <3>2, <3>3 DEF CanRead
      <3>4. CASE ~is_readable(t_min[r], ts[v])
        <4>1. PICK k \in 1 .. Len(chain[r]) :
                /\ \A i \in 1 .. k : tag'[chain[r][i].delta] % TagWrap = chain[r][i].tag % TagWrap
                /\ \A i \in 1 .. k - 1 : ~is_readable(chain[r][i].t_min, ts[v])
                /\ is_readable(chain[r][k].t_min, ts[v])
          BY Zenon, <3>1, <3>2, <3>4
        <4>2. get_readable_ver(ts[v], r, k)'
          BY Zenon, <3>2, <4>1 DEF get_readable_ver, isValid
        <4> QED
          BY Zenon, <3>2, <4>2 DEF CanRead
      <3> QED
        BY Zenon, <3>3, <3>4
    <2>3. \A e \in Deltas : tag[e] \in Nat /\ tag[e] < TagWrap
      <3> TAKE e \in Deltas
      <3>1. tag[e] \in Nat /\ (tag'[e] = tag[e] \/ tag'[e] = tag[e] + 1)
        BY ZenonT(30), <2>1, <1>ty
      <3>2. tag'[e] < TagWrap
        BY Zenon DEF NoWrap
      <3> QED
        BY <3>1, <3>2, OneShotAssumption
    <2>4. PICK k \in 1 .. Len(chain[r]) :
            /\ \A i \in 1 .. k : tag[chain[r][i].delta] % TagWrap = chain[r][i].tag % TagWrap
            /\ \A i \in 1 .. k - 1 : ~is_readable(chain[r][i].t_min, ts[v])
            /\ is_readable(chain[r][k].t_min, ts[v])
      BY Zenon, <2>3 DEF ReadableUnlessExposed, NoWrap, Active, CanRead, get_readable_ver, isValid
    <2>5. ASSUME NEW i \in 1 .. k
          PROVE  chain[r][i].delta # d
      <3> SUFFICES ASSUME chain[r][i].delta = d
                   PROVE  FALSE
        BY Zenon
      <3>0. chain[r] \in Seq(Version)
        BY <1>ty
      <3>1. i \in 1 .. Len(chain[r]) /\ Len(chain[r]) \in Nat
        BY <3>0
      <3>2. /\ chain[r][i].tag \in Nat /\ chain[r][i].by \in Nat
            /\ chain[r][i].tag <= tag[d]
        BY Zenon, <3>1, <1>el DEF ChainInv
      <3>3. chain[r][i].tag = tag[d]
        <4>1. chain[r][i].tag < TagWrap /\ tag[d] < TagWrap
          BY <2>3, <3>2, OneShotAssumption
        <4>2. chain[r][i].tag % TagWrap = chain[r][i].tag /\ tag[d] % TagWrap = tag[d]
          BY Zenon, <2>3, <3>2, <4>1, ModSmall
        <4> QED
          BY <2>4, <4>2
      <3>4. PICK u \in Workers : chain[r][i].by <= epoch[d][u]
        BY <3>1, <3>3 DEF ChainInv
      <3>5. chain[r][i].by <= ts[v]
        <4>1. epoch[d][u] < ts[v]
          BY Zenon, <2>2
        <4>2. epoch[d][u] \in Int /\ ts[v] \in Int
          BY <1>ty
        <4> QED
          BY <4>1, <4>2, <3>2, <3>4
      <3>6. CASE i = 1
        BY <3>1, <3>5, <3>6 DEF ChainInv, is_readable
      <3>7. CASE i > 1
        <4>1. chain[r][i].by = chain[r][i - 1].t_min
          BY Zenon, <3>1, <3>7 DEF ChainInv
        <4>2. i - 1 \in 1 .. k - 1
          BY <3>7
        <4> QED
          BY Zenon, <2>4, <3>5, <4>1, <4>2 DEF is_readable
      <3> QED
        BY <3>6, <3>7
    <2>6. \A i \in 1 .. k : tag'[chain[r][i].delta] = tag[chain[r][i].delta]
      <3> TAKE i \in 1 .. k
      <3>0. chain[r] \in Seq(Version)
        BY Zenon, <1>ty
      <3>i. i \in 1 .. Len(chain[r])
        BY <3>0
      <3>1. chain[r][i].delta \in Deltas
        BY Zenon, <1>el, <3>i
      <3> QED
        BY Zenon, <2>1, <2>5, <3>1
    <2> QED
      BY ZenonT(60), <2>4, <2>6
  <1> QED
    BY Zenon, <1>2, <1>3 DEF gc_reset

(* A new version leaves the older ones readable behind it. *)
LEMMA ReadUpdate ==
  ASSUME TypeOK, ReadableUnlessExposed,
         NEW w \in Workers, NEW r \in Records, updateRecord(w, r)
  PROVE  ReadableUnlessExposed'
PROOF
  <1> USE DEF txnVars, deltaVars, recVars, gcVars
  <1>ty. /\ gen \in 1 .. MaxTs + 1
         /\ pc \in [Workers -> PcValues]
         /\ ts \in [Workers -> 0 .. MaxTs]
         /\ epoch \in [Deltas -> [Workers -> 0 .. MaxTs]]
         /\ tag \in [Deltas -> Nat]
         /\ t_min \in [Records -> 0 .. MaxTs]
         /\ chain \in [Records -> Seq(Version)]
         /\ gcAt \in [Workers -> Deltas]
         /\ gcIdx \in [Workers -> 1 .. NumWorkers + 1]
         /\ gcMin \in [Workers -> 0 .. Never]
         /\ exposed \in [Workers -> BOOLEAN]
    BY Zenon DEF TypeOK
  <1>1. PICK d \in Deltas : d = get_delta_ver(ts[w])
    BY <1>ty, DeltaVerType
  <1> DEFINE new == [t_min |-> t_min[r], by |-> ts[w], delta |-> d, tag |-> tag[d]]
             next == IF chain[r] # <<>> /\ isValid(chain[r][1]) THEN chain[r] ELSE <<>>
  <1>2. /\ chain' = [chain EXCEPT ![r] = <<new>> \o next]
        /\ t_min' = [t_min EXCEPT ![r] = ts[w]]
        /\ UNCHANGED <<tag, ts, exposed>>
    BY Zenon, <1>1 DEF updateRecord, create_versions
  <1>4. new \in Version /\ next \in Seq(Version)
    <2>1. t_min[r] \in Nat /\ ts[w] \in Nat /\ tag[d] \in Nat
      BY <1>ty, OneShotAssumption
    <2>2. new \in Version
      BY Zenon, <2>1 DEF Version
    <2>3. next \in Seq(Version)
      BY <1>ty
    <2> QED
      BY Zenon, <2>2, <2>3
  <1> HIDE DEF new, next
  <1>5. /\ Len(<<new>> \o next) = Len(next) + 1 /\ Len(next) \in Nat
        /\ (<<new>> \o next)[1] = new
        /\ \A i \in 1 .. Len(next) : (<<new>> \o next)[i + 1] = next[i]
    BY ZenonT(30), <1>4, ConsVersion
  <1> SUFFICES ASSUME NoWrap, NEW v \in Workers, NEW q \in Records, ts[v] # 0, ~exposed[v],
                      ~is_readable(t_min'[q], ts[v])
               PROVE  \E k \in 1 .. Len(chain'[q]) :
                        /\ \A i \in 1 .. k : isValid(chain'[q][i])
                        /\ \A i \in 1 .. k - 1 : ~is_readable(chain'[q][i].t_min, ts[v])
                        /\ is_readable(chain'[q][k].t_min, ts[v])
    BY ZenonT(30), <1>2 DEF ReadableUnlessExposed, NoWrap, Active, CanRead, get_readable_ver, isValid
  <1>6. CanRead(ts[v], q)
    BY Zenon DEF ReadableUnlessExposed, Active
  <1>7. CASE q # r
    BY ZenonT(60), <1>2, <1>6, <1>7, <1>ty DEF CanRead, get_readable_ver
  <1>8. CASE q = r
    <2>1. chain'[q] = <<new>> \o next
      BY ZenonT(30), <1>2, <1>8, <1>ty
    <2>2. isValid(new)
      BY Zenon DEF isValid, new
    <2>3. CASE is_readable(t_min[r], ts[v])
      <3>1. chain'[q][1] = new /\ 1 \in 1 .. Len(chain'[q])
        BY <2>1, <1>5
      <3>2. is_readable(new.t_min, ts[v])
        BY Zenon, <2>3 DEF new
      <3>3. (\A i \in 1 .. 1 : isValid(chain'[q][i])) /\ \A i \in 1 .. 1 - 1 : FALSE
        BY <2>2, <3>1
      <3> QED
        BY Zenon, <3>1, <3>2, <3>3
    <2>4. CASE ~is_readable(t_min[r], ts[v])
      <3>1. PICK k \in 1 .. Len(chain[r]) : get_readable_ver(ts[v], r, k)
        BY Zenon, <1>6, <1>8, <2>4 DEF CanRead
      <3>2. next = chain[r] /\ Len(chain[r]) \in Nat
        <4>1. chain[r] \in Seq(Version) /\ k \in 1 .. Len(chain[r])
          BY Zenon, <1>ty
        <4>2. 1 \in 1 .. k /\ isValid(chain[r][1])
          BY <3>1, <4>1 DEF get_readable_ver
        <4> QED
          BY <4>1, <4>2 DEF next
      <3>3. k + 1 \in 1 .. Len(chain'[q])
        BY <2>1, <3>2, <1>5
      <3>4. \A i \in 1 .. k : chain'[q][i + 1] = chain[r][i]
        BY <2>1, <3>2, <1>5
      <3>5. chain'[q][1] = new /\ new.t_min = t_min[r]
        BY Zenon, <2>1, <1>5 DEF new
      <3>6. \A i \in 1 .. k + 1 : i = 1 \/ (i - 1 \in 1 .. k /\ chain'[q][i] = chain[r][i - 1])
        <4> TAKE i \in 1 .. k + 1
        <4>1. CASE i = 1
          BY Zenon, <4>1
        <4>2. CASE i # 1
          <5>1. i - 1 \in 1 .. k /\ (i - 1) + 1 = i
            BY <4>2
          <5> QED
            BY Zenon, <5>1, <3>4
        <4> QED
          BY Zenon, <4>1, <4>2
      <3>7. \A i \in 1 .. k + 1 : isValid(chain'[q][i])
        BY <3>1, <3>5, <3>6, <2>2 DEF get_readable_ver
      <3>8. \A i \in 1 .. (k + 1) - 1 : ~is_readable(chain'[q][i].t_min, ts[v])
        <4> TAKE i \in 1 .. (k + 1) - 1
        <4>1. CASE i = 1
          BY Zenon, <4>1, <3>5, <2>4
        <4>2. CASE i # 1
          <5>1. i - 1 \in 1 .. k - 1 /\ i \in 1 .. k + 1
            BY <4>2
          <5> QED
            BY ZenonT(60), <5>1, <3>6, <3>1, <4>2 DEF get_readable_ver
        <4> QED
          BY Zenon, <4>1, <4>2
      <3>9. is_readable(chain'[q][k + 1].t_min, ts[v])
        BY <3>1, <3>4 DEF get_readable_ver
      <3> QED
        BY Zenon, <3>3, <3>7, <3>8, <3>9
    <2> QED
      BY Zenon, <2>3, <2>4
  <1> QED
    BY Zenon, <1>7, <1>8

(* No step takes the version it has to read from a transaction that is not exposed. *)
LEMMA ReadStep ==
  ASSUME TypeOK, PhaseInv, WriterInv, ScanInv, ChainInv, ReadableUnlessExposed, [Next]_vars
  PROVE  ReadableUnlessExposed'
PROOF
  <1> USE DEF txnVars, deltaVars, recVars, gcVars
  <1>ty. /\ gen \in 1 .. MaxTs + 1
         /\ pc \in [Workers -> PcValues]
         /\ ts \in [Workers -> 0 .. MaxTs]
         /\ epoch \in [Deltas -> [Workers -> 0 .. MaxTs]]
         /\ tag \in [Deltas -> Nat]
         /\ t_min \in [Records -> 0 .. MaxTs]
         /\ chain \in [Records -> Seq(Version)]
         /\ gcAt \in [Workers -> Deltas]
         /\ gcIdx \in [Workers -> 1 .. NumWorkers + 1]
         /\ gcMin \in [Workers -> 0 .. Never]
         /\ exposed \in [Workers -> BOOLEAN]
    BY DEF TypeOK
  <1>el. \A r \in Records : \A i \in 1 .. Len(chain[r]) :
           /\ chain[r][i] \in Version
           /\ chain[r][i].by \in Nat /\ chain[r][i].delta \in Deltas /\ chain[r][i].tag \in Nat
    <2> TAKE r \in Records
    <2> TAKE i \in 1 .. Len(chain[r])
    <2>1. chain[r] \in Seq(Version)
      BY Zenon, <1>ty
    <2>2. chain[r][i] \in Version
      BY <2>1
    <2> QED
      BY Zenon, <2>2 DEF Version
  <1>frame. ASSUME UNCHANGED <<ts, tag, t_min, chain, exposed>>
           PROVE  ReadableUnlessExposed'
    BY Zenon, <1>frame DEF ReadableUnlessExposed, NoWrap, Active, CanRead, get_readable_ver, isValid
  <1>1. ASSUME NEW w \in Workers, NEW readOnly \in BOOLEAN, NEW writes \in SUBSET Records,
                      BeginTxn(w, readOnly, writes)
               PROVE  ReadableUnlessExposed'
    <2>1. /\ UNCHANGED <<t_min, chain, tag, exposed>> /\ ts'[w] = gen
          /\ \A v \in Workers : v # w => ts'[v] = ts[v]
      BY <1>1, <1>ty DEF BeginTxn
    <2>2. \A r \in Records : t_min[r] <= gen
      BY <1>ty DEF PhaseInv
    <2> QED
      BY Zenon, <2>1, <2>2, ReadSame
  <1>2. ASSUME NEW w \in Workers, PublishMinActive(w)
               PROVE  ReadableUnlessExposed'
    BY Zenon, <1>2, <1>frame DEF PublishMinActive
  <1>3. ASSUME NEW w \in Workers, remove_active_txn(w)
               PROVE  ReadableUnlessExposed'
    BY <1>3, <1>frame DEF remove_active_txn, decrement_reader, StartGC
  <1>4. ASSUME NEW w \in Workers, add_active_txn(w)
               PROVE  ReadableUnlessExposed'
    BY Zenon, <1>4, <1>frame DEF add_active_txn
  <1>5. ASSUME NEW w \in Workers, switch_delta(w)
               PROVE  ReadableUnlessExposed'
    BY Zenon, <1>5, <1>frame DEF switch_delta, decrement_reader, StartGC
  <1>6. ASSUME NEW w \in Workers, update_delta_epoch(w)
               PROVE  ReadableUnlessExposed'
    BY Zenon, <1>6, <1>frame DEF update_delta_epoch
  <1>7. ASSUME NEW w \in Workers, increment_reader(w)
               PROVE  ReadableUnlessExposed'
    BY <1>7, <1>frame DEF increment_reader
  <1>8. ASSUME NEW w \in Workers, spin_reader(w)
               PROVE  ReadableUnlessExposed'
    BY Zenon, <1>8, <1>frame DEF spin_reader
  <1>9. ASSUME NEW w \in Workers, gc_acquire(w)
               PROVE  ReadableUnlessExposed'
    BY Zenon, <1>9, <1>frame DEF gc_acquire
  <1>10. ASSUME NEW w \in Workers, gc_skip(w)
               PROVE  ReadableUnlessExposed'
    BY Zenon, <1>10, <1>frame DEF gc_skip, NextGC
  <1>11. ASSUME NEW w \in Workers, get_min_activeTxn(w)
               PROVE  ReadableUnlessExposed'
    <2>1. UNCHANGED <<t_min, chain, tag, ts>> /\ \A v \in Workers : exposed[v] => exposed'[v]
      BY Zenon, <1>11, <1>ty DEF get_min_activeTxn
    <2> QED
      BY Zenon, <2>1, ReadSame
  <1>12. ASSUME NEW w \in Workers, gc_reset(w)
               PROVE  ReadableUnlessExposed'
    BY Zenon, <1>12, ReadReset
  <1>13. ASSUME NEW w \in Workers, gc_release(w)
               PROVE  ReadableUnlessExposed'
    BY Zenon, <1>13, <1>frame DEF gc_release, NextGC
  <1>14. ASSUME NEW w \in Workers, NEW r \in Records, try_lock(w, r)
               PROVE  ReadableUnlessExposed'
    BY Zenon, <1>14, <1>frame DEF try_lock
  <1>15. ASSUME NEW w \in Workers, NEW r \in Records, lock_failed(w, r)
               PROVE  ReadableUnlessExposed'
    BY Zenon, <1>15, <1>frame DEF lock_failed
  <1>16. ASSUME NEW w \in Workers, NEW r \in Records, release_locks(w, r)
               PROVE  ReadableUnlessExposed'
    BY Zenon, <1>16, <1>frame DEF release_locks, unlock
  <1>17. ASSUME NEW w \in Workers, NEW r \in Records, updateRecord(w, r)
               PROVE  ReadableUnlessExposed'
    BY Zenon, <1>17, ReadUpdate
  <1>18. ASSUME NEW w \in Workers, NEW r \in Records, getIndexedRecord(w, r)
               PROVE  ReadableUnlessExposed'
    BY Zenon, <1>18, <1>frame DEF getIndexedRecord
  <1>19. ASSUME NEW w \in Workers, locks_acquired(w)
               PROVE  ReadableUnlessExposed'
    BY Zenon, <1>19, <1>frame DEF locks_acquired
  <1>20. ASSUME NEW w \in Workers, endTxn(w)
               PROVE  ReadableUnlessExposed'
    <2>1. /\ UNCHANGED <<t_min, chain, tag>> /\ ts'[w] = 0
          /\ \A v \in Workers : v # w => ts'[v] = ts[v] /\ exposed'[v] = exposed[v]
      BY Zenon, <1>20, <1>ty DEF endTxn
    <2> QED
      BY Zenon, <2>1, ReadSame
  <1>21. CASE UNCHANGED vars
    BY ZenonT(60), <1>21, <1>frame DEF vars
  <1> QED
    BY ZenonT(60), <1>1, <1>2, <1>3, <1>4, <1>5, <1>6, <1>7, <1>8, <1>9, <1>10, <1>11, <1>12, <1>13, <1>14,
       <1>15, <1>16, <1>17, <1>18, <1>19, <1>20, <1>21
    DEF Next, WorkerStep, GcStep

(* updateRecord links the version it creates into the chain. *)
LEMMA ChainUpdate ==
  ASSUME TypeOK, WriterInv, ChainInv,
         NEW w \in Workers, NEW r \in Records, updateRecord(w, r)
  PROVE  ChainInv'
PROOF
  <1> USE DEF txnVars, deltaVars, recVars, gcVars
  <1>ty. /\ pc \in [Workers -> PcValues]
         /\ ro \in [Workers -> BOOLEAN]
         /\ cur \in [Workers -> Deltas \cup {NoDelta}]
         /\ ts \in [Workers -> 0 .. MaxTs]
         /\ epoch \in [Deltas -> [Workers -> 0 .. MaxTs]]
         /\ tag \in [Deltas -> Nat]
         /\ t_min \in [Records -> 0 .. MaxTs]
         /\ chain \in [Records -> Seq(Version)]
         /\ held \in [Workers -> SUBSET Records]
    BY ZenonT(60) DEF TypeOK
  <1>el. \A q \in Records : \A i \in 1 .. Len(chain[q]) :
           /\ chain[q][i] \in Version
           /\ chain[q][i].by \in Nat /\ chain[q][i].delta \in Deltas /\ chain[q][i].tag \in Nat
    <2> TAKE q \in Records
    <2> TAKE i \in 1 .. Len(chain[q])
    <2>1. chain[q] \in Seq(Version)
      BY Zenon, <1>ty
    <2>2. chain[q][i] \in Version
      BY <2>1
    <2> QED
      BY Zenon, <2>2 DEF Version
  <1>1. PICK d \in Deltas : d = get_delta_ver(ts[w])
    BY <1>ty, DeltaVerType
  <1> DEFINE new == [t_min |-> t_min[r], by |-> ts[w], delta |-> d, tag |-> tag[d]]
             next == IF chain[r] # <<>> /\ isValid(chain[r][1]) THEN chain[r] ELSE <<>>
  <1>2. /\ chain' = [chain EXCEPT ![r] = <<new>> \o next]
        /\ t_min' = [t_min EXCEPT ![r] = ts[w]]
        /\ UNCHANGED <<tag, epoch>>
    BY Zenon, <1>1 DEF updateRecord, create_versions
  <1>3. d = cur[w] /\ epoch[d][w] = ts[w]
    BY ZenonT(60), <1>1, <1>ty DEF updateRecord, WriterInv
  <1>4. new \in Version /\ next \in Seq(Version)
    <2>1. t_min[r] \in Nat /\ ts[w] \in Nat /\ tag[d] \in Nat
      BY <1>ty, OneShotAssumption
    <2>2. new \in Version
      BY ZenonT(30), <2>1 DEF Version
    <2>3. next \in Seq(Version)
      BY <1>ty
    <2> QED
      BY Zenon, <2>2, <2>3
  <1> HIDE DEF new, next
  <1>5. /\ Len(<<new>> \o next) = Len(next) + 1 /\ Len(next) \in Nat
        /\ (<<new>> \o next)[1] = new
        /\ \A i \in 1 .. Len(next) : (<<new>> \o next)[i + 1] = next[i]
    BY ZenonT(30), <1>4, ConsVersion
  <1>u. tag' = tag /\ epoch' = epoch
    BY Zenon, <1>2
  <1> SUFFICES ASSUME NEW q \in Records
               PROVE  /\ chain'[q] # <<>> => chain'[q][1].by = t_min'[q]
                      /\ \A i \in 1 .. Len(chain'[q]) :
                           /\ i > 1 => chain'[q][i].by = chain'[q][i - 1].t_min
                           /\ chain'[q][i].tag <= tag'[chain'[q][i].delta]
                           /\ chain'[q][i].tag = tag'[chain'[q][i].delta] =>
                                \E u \in Workers : chain'[q][i].by <= epoch'[chain'[q][i].delta][u]
    BY ZenonT(60) DEF ChainInv
  <1> SUFFICES /\ chain'[q] # <<>> => chain'[q][1].by = t_min'[q]
           /\ \A i \in 1 .. Len(chain'[q]) :
                /\ i > 1 => chain'[q][i].by = chain'[q][i - 1].t_min
                /\ chain'[q][i].tag <= tag[chain'[q][i].delta]
                /\ chain'[q][i].tag = tag[chain'[q][i].delta] =>
                     \E u \in Workers : chain'[q][i].by <= epoch[chain'[q][i].delta][u]
    BY Zenon, <1>u
  <1>6. CASE q # r
    <2>1. chain'[q] = chain[q] /\ t_min'[q] = t_min[q]
      BY Zenon, <1>2, <1>6, <1>ty
    <2>2. /\ chain[q] # <<>> => chain[q][1].by = t_min[q]
          /\ \A i \in 1 .. Len(chain[q]) :
               /\ i > 1 => chain[q][i].by = chain[q][i - 1].t_min
               /\ chain[q][i].tag <= tag[chain[q][i].delta]
               /\ chain[q][i].tag = tag[chain[q][i].delta] =>
                    \E u \in Workers : chain[q][i].by <= epoch[chain[q][i].delta][u]
      BY ZenonT(60) DEF ChainInv
    <2> QED
      BY ZenonT(30), <2>1, <2>2
  <1>7. CASE q = r
    <2>1. chain'[q] = <<new>> \o next /\ t_min'[q] = ts[w]
      BY Zenon, <1>2, <1>7, <1>ty
    <2>2. chain'[q][1].by = t_min'[q]
      <3>1. new.by = ts[w]
        BY Zenon DEF new
      <3> QED
        BY Zenon, <2>1, <3>1, <1>5
    <2> SUFFICES ASSUME NEW i \in 1 .. Len(next) + 1
                 PROVE  /\ i > 1 => chain'[q][i].by = chain'[q][i - 1].t_min
                        /\ chain'[q][i].tag <= tag[chain'[q][i].delta]
                        /\ chain'[q][i].tag = tag[chain'[q][i].delta] =>
                             \E u \in Workers : chain'[q][i].by <= epoch[chain'[q][i].delta][u]
      BY ZenonT(30), <2>1, <2>2, <1>5
    <2>3. CASE i = 1
      <3>1. chain'[q][i] = new
        BY Zenon, <2>1, <2>3, <1>5
      <3>2. tag[d] <= tag[d] /\ ts[w] <= epoch[d][w]
        BY <1>3, <1>ty
      <3>3. ~(i > 1)
        BY <2>3
      <3>4. new.tag = tag[d] /\ new.delta = d /\ new.by = ts[w]
        BY Zenon DEF new
      <3> QED
        BY Zenon, <3>1, <3>2, <3>3, <3>4
    <2>4. CASE i > 1
      <3>1. i - 1 \in 1 .. Len(next) /\ chain'[q][i] = next[i - 1]
        BY <2>1, <2>4, <1>5
      <3>2. next = chain[r] /\ chain[r] # <<>> /\ i - 1 \in 1 .. Len(chain[r])
        BY <3>1 DEF next
      <3>3. chain'[q][i] = chain[r][i - 1]
        BY Zenon, <3>1, <3>2
      <3>4. chain'[q][i].by = chain'[q][i - 1].t_min
        <4>1. CASE i = 2
          <5>1. chain[r][1].by = t_min[r]
            BY Zenon, <3>2 DEF ChainInv
          <5>0. i - 1 = 1
            BY <4>1
          <5>2. chain'[q][i] = chain[r][1] /\ chain'[q][i - 1] = new
            BY Zenon, <5>0, <3>3, <2>1, <1>5
          <5>3. new.t_min = t_min[r]
            BY DEF new
          <5> QED
            BY Zenon, <5>1, <5>2, <5>3
        <4>2. CASE i > 2
          <5>1. i - 2 \in 1 .. Len(next) /\ chain'[q][i - 1] = next[i - 2]
            <6>1. i - 2 \in 1 .. Len(next) /\ (i - 2) + 1 = i - 1
              BY <4>2, <3>1, <1>5
            <6> QED
              BY Zenon, <6>1, <2>1, <1>5
          <5>2. chain[r][i - 1].by = chain[r][(i - 1) - 1].t_min
            BY <3>2, <4>2 DEF ChainInv
          <5> QED
            BY <5>1, <5>2, <3>2, <3>3
        <4> QED
          BY <2>4, <4>1, <4>2
      <3>5. /\ chain[r][i - 1].tag <= tag[chain[r][i - 1].delta]
            /\ chain[r][i - 1].tag = tag[chain[r][i - 1].delta] =>
                 \E u \in Workers : chain[r][i - 1].by <= epoch[chain[r][i - 1].delta][u]
        BY Zenon, <3>2 DEF ChainInv
      <3> QED
        BY Zenon, <3>3, <3>4, <3>5
    <2>5. i = 1 \/ i > 1
      BY <1>5
    <2> QED
      BY Zenon, <2>3, <2>4, <2>5
  <1> QED
    BY Zenon, <1>6, <1>7

(* Every step keeps the version chains linked, and their pointers behind the deltas' tags. *)
LEMMA ChainStep ==
  ASSUME TypeOK, TypeOK', PhaseInv, WriterInv, ChainInv, [Next]_vars
  PROVE  ChainInv'
PROOF
  <1> USE DEF txnVars, deltaVars, recVars, gcVars
  <1>ty. /\ pc \in [Workers -> PcValues]
         /\ ro \in [Workers -> BOOLEAN]
         /\ cur \in [Workers -> Deltas \cup {NoDelta}]
         /\ ts \in [Workers -> 0 .. MaxTs]
         /\ epoch \in [Deltas -> [Workers -> 0 .. MaxTs]]
         /\ tag \in [Deltas -> Nat]
         /\ t_min \in [Records -> 0 .. MaxTs]
         /\ chain \in [Records -> Seq(Version)]
         /\ held \in [Workers -> SUBSET Records]
    BY Zenon DEF TypeOK
  <1>el. \A r \in Records : \A i \in 1 .. Len(chain[r]) :
           /\ chain[r][i] \in Version
           /\ chain[r][i].by \in Nat /\ chain[r][i].delta \in Deltas /\ chain[r][i].tag \in Nat
    <2> TAKE r \in Records
    <2> TAKE i \in 1 .. Len(chain[r])
    <2>1. chain[r] \in Seq(Version)
      BY Zenon, <1>ty
    <2>2. chain[r][i] \in Version
      BY <2>1
    <2> QED
      BY Zenon, <2>2 DEF Version
  <1>grow. ASSUME UNCHANGED <<chain, t_min, tag>>,
                  \A d \in Deltas, u \in Workers : epoch[d][u] <= epoch'[d][u],
                  epoch' \in [Deltas -> [Workers -> 0 .. MaxTs]]
           PROVE  ChainInv'
    <2>1. ASSUME NEW r \in Records, NEW i \in 1 .. Len(chain[r]), NEW u \in Workers,
                 chain[r][i].by <= epoch[chain[r][i].delta][u]
          PROVE  chain[r][i].by <= epoch'[chain[r][i].delta][u]
      <3>1. PICK d \in Deltas : d = chain[r][i].delta
        BY Zenon, <1>el
      <3>2. chain[r][i].by \in Nat /\ chain[r][i].by <= epoch[d][u] /\ epoch[d][u] <= epoch'[d][u]
        BY Zenon, <1>el, <1>grow, <2>1, <3>1
      <3>3. epoch[d][u] \in 0 .. MaxTs /\ epoch'[d][u] \in 0 .. MaxTs
        BY Zenon, <1>ty, <1>grow
      <3>4. chain[r][i].by <= epoch'[d][u]
        BY <3>2, <3>3
      <3> QED
        BY Zenon, <3>1, <3>4
    <2> SUFFICES ASSUME NEW r \in Records
                 PROVE  /\ chain'[r] # <<>> => chain'[r][1].by = t_min'[r]
                        /\ \A i \in 1 .. Len(chain'[r]) :
                             /\ i > 1 => chain'[r][i].by = chain'[r][i - 1].t_min
                             /\ chain'[r][i].tag <= tag'[chain'[r][i].delta]
                             /\ chain'[r][i].tag = tag'[chain'[r][i].delta] =>
                                  \E u \in Workers : chain'[r][i].by <= epoch'[chain'[r][i].delta][u]
      BY ZenonT(60) DEF ChainInv
    <2>2. /\ chain[r] # <<>> => chain[r][1].by = t_min[r]
          /\ \A i \in 1 .. Len(chain[r]) :
               /\ i > 1 => chain[r][i].by = chain[r][i - 1].t_min
               /\ chain[r][i].tag <= tag[chain[r][i].delta]
               /\ chain[r][i].tag = tag[chain[r][i].delta] =>
                    \E u \in Workers : chain[r][i].by <= epoch[chain[r][i].delta][u]
      BY ZenonT(60) DEF ChainInv
    <2>3. /\ chain[r] # <<>> => chain[r][1].by = t_min[r]
          /\ \A i \in 1 .. Len(chain[r]) :
               /\ i > 1 => chain[r][i].by = chain[r][i - 1].t_min
               /\ chain[r][i].tag <= tag[chain[r][i].delta]
               /\ chain[r][i].tag = tag[chain[r][i].delta] =>
                    \E u \in Workers : chain[r][i].by <= epoch'[chain[r][i].delta][u]
      BY Zenon, <2>1, <2>2
    <2> QED
      BY Zenon, <1>grow, <2>3
  <1>frame. ASSUME UNCHANGED <<epoch, tag, t_min, chain>>
           PROVE  ChainInv'
    BY <1>frame DEF ChainInv
  <1>1. ASSUME NEW w \in Workers, NEW readOnly \in BOOLEAN, NEW writes \in SUBSET Records,
                      BeginTxn(w, readOnly, writes)
               PROVE  ChainInv'
    BY Zenon, <1>1, <1>frame DEF BeginTxn
  <1>2. ASSUME NEW w \in Workers, PublishMinActive(w)
               PROVE  ChainInv'
    BY Zenon, <1>2, <1>frame DEF PublishMinActive
  <1>3. ASSUME NEW w \in Workers, remove_active_txn(w)
               PROVE  ChainInv'
    BY Zenon, <1>3, <1>frame DEF remove_active_txn, decrement_reader, StartGC
  <1>4. ASSUME NEW w \in Workers, add_active_txn(w)
               PROVE  ChainInv'
    BY Zenon, <1>4, <1>frame DEF add_active_txn
  <1>5. ASSUME NEW w \in Workers, switch_delta(w)
               PROVE  ChainInv'
    BY Zenon, <1>5, <1>frame DEF switch_delta, decrement_reader, StartGC
  <1>6. ASSUME NEW w \in Workers, update_delta_epoch(w)
               PROVE  ChainInv'
    <2>1. UNCHANGED <<chain, t_min, tag>>
      BY Zenon, <1>6 DEF update_delta_epoch
    <2>2. \A d \in Deltas, u \in Workers : epoch[d][u] <= epoch'[d][u]
      <3>1. PICK d \in Deltas : d = cur[w]
        BY <1>6, <1>ty, DeltaVerType DEF update_delta_epoch
      <3>2. epoch[d][w] <= ts[w] /\ epoch' = [epoch EXCEPT ![d][w] = ts[w]]
        BY ZenonT(60), <1>6, <3>1 DEF update_delta_epoch, PhaseInv, Active, GcPc
      <3> QED
        BY <3>2, <1>ty
    <2> QED
      BY ZenonT(60), <2>1, <2>2, <1>grow DEF TypeOK
  <1>7. ASSUME NEW w \in Workers, increment_reader(w)
               PROVE  ChainInv'
    <2>1. UNCHANGED <<chain, t_min, tag>>
      BY ZenonT(60), <1>7 DEF increment_reader
    <2>2. \A d \in Deltas, u \in Workers : epoch[d][u] <= epoch'[d][u]
      <3>1. CASE UNCHANGED epoch
        BY <3>1, <1>ty
      <3>2. CASE epoch' = [epoch EXCEPT ![get_delta_ver(ts[w])][w] = IF @ < ts[w] THEN ts[w] ELSE @]
        <4>1. get_delta_ver(ts[w]) \in Deltas
          BY <1>ty, DeltaVerType
        <4> QED
          BY <3>2, <4>1, <1>ty
      <3> QED
        BY Zenon, <1>7, <3>1, <3>2 DEF increment_reader
    <2> QED
      BY Zenon, <2>1, <2>2, <1>grow DEF TypeOK
  <1>8. ASSUME NEW w \in Workers, spin_reader(w)
               PROVE  ChainInv'
    BY Zenon, <1>8, <1>frame DEF spin_reader
  <1>9. ASSUME NEW w \in Workers, gc_acquire(w)
               PROVE  ChainInv'
    BY Zenon, <1>9, <1>frame DEF gc_acquire
  <1>10. ASSUME NEW w \in Workers, gc_skip(w)
               PROVE  ChainInv'
    BY Zenon, <1>10, <1>frame DEF gc_skip, NextGC
  <1>11. ASSUME NEW w \in Workers, get_min_activeTxn(w)
               PROVE  ChainInv'
    BY ZenonT(60), <1>11, <1>frame DEF get_min_activeTxn
  <1>12. ASSUME NEW w \in Workers, gc_reset(w)
               PROVE  ChainInv'
    <2>1. UNCHANGED <<chain, t_min, epoch>>
      BY Zenon, <1>12 DEF gc_reset
    <2>2. \A d \in Deltas : tag'[d] = tag[d] \/ tag'[d] = tag[d] + 1
      BY Zenon, <1>12, <1>ty DEF gc_reset
    <2> SUFFICES ASSUME NEW r \in Records
                 PROVE  /\ chain'[r] # <<>> => chain'[r][1].by = t_min'[r]
                        /\ \A i \in 1 .. Len(chain'[r]) :
                             /\ i > 1 => chain'[r][i].by = chain'[r][i - 1].t_min
                             /\ chain'[r][i].tag <= tag'[chain'[r][i].delta]
                             /\ chain'[r][i].tag = tag'[chain'[r][i].delta] =>
                                  \E u \in Workers : chain'[r][i].by <= epoch'[chain'[r][i].delta][u]
      BY ZenonT(60) DEF ChainInv
    <2>3. /\ chain[r] # <<>> => chain[r][1].by = t_min[r]
          /\ \A i \in 1 .. Len(chain[r]) :
               /\ i > 1 => chain[r][i].by = chain[r][i - 1].t_min
               /\ chain[r][i].tag <= tag[chain[r][i].delta]
               /\ chain[r][i].tag = tag[chain[r][i].delta] =>
                    \E u \in Workers : chain[r][i].by <= epoch[chain[r][i].delta][u]
      BY ZenonT(60) DEF ChainInv
    <2>4. ASSUME NEW i \in 1 .. Len(chain[r])
          PROVE  /\ chain[r][i].tag <= tag'[chain[r][i].delta]
                 /\ chain[r][i].tag = tag'[chain[r][i].delta] =>
                      chain[r][i].tag = tag[chain[r][i].delta]
      <3>1. PICK d \in Deltas : d = chain[r][i].delta
        BY Zenon, <1>el
      <3>2. chain[r][i].tag \in Nat /\ tag[d] \in Nat /\ chain[r][i].tag <= tag[d]
        BY Zenon, <1>el, <1>ty, <2>3, <3>1
      <3>3. tag'[d] = tag[d] \/ tag'[d] = tag[d] + 1
        BY Zenon, <2>2
      <3>4. chain[r][i].tag <= tag'[d] /\ (chain[r][i].tag = tag'[d] => chain[r][i].tag = tag[d])
        BY <3>2, <3>3
      <3> QED
        BY Zenon, <3>1, <3>4
    <2>5. /\ chain[r] # <<>> => chain[r][1].by = t_min[r]
          /\ \A i \in 1 .. Len(chain[r]) :
               /\ i > 1 => chain[r][i].by = chain[r][i - 1].t_min
               /\ chain[r][i].tag <= tag'[chain[r][i].delta]
               /\ chain[r][i].tag = tag'[chain[r][i].delta] =>
                    \E u \in Workers : chain[r][i].by <= epoch[chain[r][i].delta][u]
      BY Zenon, <2>3, <2>4
    <2> QED
      BY Zenon, <2>1, <2>5
  <1>13. ASSUME NEW w \in Workers, gc_release(w)
               PROVE  ChainInv'
    BY Zenon, <1>13, <1>frame DEF gc_release, NextGC
  <1>14. ASSUME NEW w \in Workers, NEW r \in Records, try_lock(w, r)
               PROVE  ChainInv'
    BY Zenon, <1>14, <1>frame DEF try_lock
  <1>15. ASSUME NEW w \in Workers, NEW r \in Records, lock_failed(w, r)
               PROVE  ChainInv'
    BY Zenon, <1>15, <1>frame DEF lock_failed
  <1>16. ASSUME NEW w \in Workers, NEW r \in Records, release_locks(w, r)
               PROVE  ChainInv'
    BY <1>16, <1>frame DEF release_locks, unlock
  <1>17. ASSUME NEW w \in Workers, NEW r \in Records, updateRecord(w, r)
               PROVE  ChainInv'
    BY Zenon, <1>17, ChainUpdate
  <1>18. ASSUME NEW w \in Workers, NEW r \in Records, getIndexedRecord(w, r)
               PROVE  ChainInv'
    BY <1>18, <1>frame DEF getIndexedRecord
  <1>19. ASSUME NEW w \in Workers, locks_acquired(w)
               PROVE  ChainInv'
    BY Zenon, <1>19, <1>frame DEF locks_acquired
  <1>20. ASSUME NEW w \in Workers, endTxn(w)
               PROVE  ChainInv'
    BY <1>20, <1>frame DEF endTxn, StartGC
  <1>21. CASE UNCHANGED vars
    BY Zenon, <1>21, <1>frame DEF vars
  <1> QED
    BY ZenonT(60), <1>1, <1>2, <1>3, <1>4, <1>5, <1>6, <1>7, <1>8, <1>9, <1>10, <1>11, <1>12, <1>13, <1>14,
       <1>15, <1>16, <1>17, <1>18, <1>19, <1>20, <1>21
    DEF Next, WorkerStep, GcStep

(* No step resets the delta a transaction may be writing into. *)
LEMMA ResetStep ==
  ASSUME TypeOK, WriterInv, CollectorAlone, [Next]_vars
  PROVE  WritersKeepTags
PROOF
  <1> USE DEF txnVars, deltaVars, recVars, gcVars
  <1>ty. /\ pc \in [Workers -> PcValues]
         /\ ro \in [Workers -> BOOLEAN]
         /\ ts \in [Workers -> 0 .. MaxTs]
         /\ tag \in [Deltas -> Nat]
         /\ gcAt \in [Workers -> Deltas]
    BY Zenon DEF TypeOK
  <1>frame. ASSUME UNCHANGED <<tag>>
           PROVE  WritersKeepTags
    BY Zenon, <1>frame DEF WritersKeepTags
  <1>1. ASSUME NEW w \in Workers, NEW readOnly \in BOOLEAN, NEW writes \in SUBSET Records,
                      BeginTxn(w, readOnly, writes)
               PROVE  WritersKeepTags
    BY <1>1, <1>frame DEF BeginTxn
  <1>2. ASSUME NEW w \in Workers, PublishMinActive(w)
               PROVE  WritersKeepTags
    BY Zenon, <1>2, <1>frame DEF PublishMinActive
  <1>3. ASSUME NEW w \in Workers, remove_active_txn(w)
               PROVE  WritersKeepTags
    BY <1>3, <1>frame DEF remove_active_txn, decrement_reader, StartGC
  <1>4. ASSUME NEW w \in Workers, add_active_txn(w)
               PROVE  WritersKeepTags
    BY ZenonT(60), <1>4, <1>frame DEF add_active_txn
  <1>5. ASSUME NEW w \in Workers, switch_delta(w)
               PROVE  WritersKeepTags
    BY <1>5, <1>frame DEF switch_delta, decrement_reader, StartGC
  <1>6. ASSUME NEW w \in Workers, update_delta_epoch(w)
               PROVE  WritersKeepTags
    BY Zenon, <1>6, <1>frame DEF update_delta_epoch
  <1>7. ASSUME NEW w \in Workers, increment_reader(w)
               PROVE  WritersKeepTags
    BY Zenon, <1>7, <1>frame DEF increment_reader
  <1>8. ASSUME NEW w \in Workers, spin_reader(w)
               PROVE  WritersKeepTags
    BY Zenon, <1>8, <1>frame DEF spin_reader
  <1>9. ASSUME NEW w \in Workers, gc_acquire(w)
               PROVE  WritersKeepTags
    BY Zenon, <1>9, <1>frame DEF gc_acquire
  <1>10. ASSUME NEW w \in Workers, gc_skip(w)
               PROVE  WritersKeepTags
    BY Zenon, <1>10, <1>frame DEF gc_skip, NextGC
  <1>11. ASSUME NEW w \in Workers, get_min_activeTxn(w)
               PROVE  WritersKeepTags
    BY <1>11, <1>frame DEF get_min_activeTxn
  <1>12. ASSUME NEW w \in Workers, gc_reset(w)
               PROVE  WritersKeepTags
    <2>1. pc[w] = "gc_scan" /\ (tag' = tag \/ tag' = [tag EXCEPT ![gcAt[w]] = @ + 1])
      BY Zenon, <1>12 DEF gc_reset
    <2>2. gcAt[w] \in Deltas /\ Registered(gcAt[w]) = {}
      BY ZenonT(60), <2>1, <1>ty DEF CollectorAlone, Collects
    <2> SUFFICES ASSUME NEW v \in Workers, pc[v] \in {"lock", "exec"}, ~ro[v]
                 PROVE  tag'[get_delta_ver(ts[v])] = tag[get_delta_ver(ts[v])]
      BY Zenon DEF WritersKeepTags
    <2>3. get_delta_ver(ts[v]) # gcAt[w]
      BY <2>2 DEF WriterInv, Registered
    <2> QED
      BY <2>1, <2>2, <2>3, <1>ty, DeltaVerType
  <1>13. ASSUME NEW w \in Workers, gc_release(w)
               PROVE  WritersKeepTags
    BY Zenon, <1>13, <1>frame DEF gc_release, NextGC
  <1>14. ASSUME NEW w \in Workers, NEW r \in Records, try_lock(w, r)
               PROVE  WritersKeepTags
    BY Zenon, <1>14, <1>frame DEF try_lock
  <1>15. ASSUME NEW w \in Workers, NEW r \in Records, lock_failed(w, r)
               PROVE  WritersKeepTags
    BY <1>15, <1>frame DEF lock_failed
  <1>16. ASSUME NEW w \in Workers, NEW r \in Records, release_locks(w, r)
               PROVE  WritersKeepTags
    BY ZenonT(60), <1>16, <1>frame DEF release_locks, unlock
  <1>17. ASSUME NEW w \in Workers, NEW r \in Records, updateRecord(w, r)
               PROVE  WritersKeepTags
    BY <1>17, <1>frame DEF updateRecord, create_versions, unlock
  <1>18. ASSUME NEW w \in Workers, NEW r \in Records, getIndexedRecord(w, r)
               PROVE  WritersKeepTags
    BY Zenon, <1>18, <1>frame DEF getIndexedRecord
  <1>19. ASSUME NEW w \in Workers, locks_acquired(w)
               PROVE  WritersKeepTags
    BY ZenonT(60), <1>19, <1>frame DEF locks_acquired
  <1>20. ASSUME NEW w \in Workers, endTxn(w)
               PROVE  WritersKeepTags
    BY Zenon, <1>20, <1>frame DEF endTxn, StartGC
  <1>21. CASE UNCHANGED vars
    BY <1>21, <1>frame DEF vars
  <1> QED
    BY ZenonT(60), <1>1, <1>2, <1>3, <1>4, <1>5, <1>6, <1>7, <1>8, <1>9, <1>10, <1>11, <1>12, <1>13, <1>14,
       <1>15, <1>16, <1>17, <1>18, <1>19, <1>20, <1>21
    DEF Next, WorkerStep, GcStep

-----------------------------------------------------------------------------
(* The count of a delta's readers. *)

INSTANCE FiniteSetTheorems

(* The workers can be counted. *)
LEMMA WorkersFinite == IsFiniteSet(Workers) /\ Cardinality(Workers) = NumWorkers
BY FS_Interval, OneShotAssumption DEF Workers

(* So can those that are registered with a delta, or spin on it. *)
LEMMA ReadersFinite ==
  ASSUME NEW d
  PROVE  /\ IsFiniteSet(Registered(d)) /\ Cardinality(Registered(d)) \in Nat
         /\ IsFiniteSet(Spinning(d)) /\ Cardinality(Spinning(d)) \in Nat
PROOF
  <1>1. Registered(d) \subseteq Workers /\ Spinning(d) \subseteq Workers
    BY Zenon DEF Registered, Spinning
  <1> QED
    BY Zenon, <1>1, WorkersFinite, FS_Subset, FS_CardinalityType

(* CollectorAlone and CountInv, for one delta. *)
AloneAt(d) ==
  /\ (readers[d] < 0) <=> (\E w \in Workers : Collects(w, d))
  /\ readers[d] < 0 => Registered(d) = {}
  /\ \A v, w \in Workers : Collects(v, d) /\ Collects(w, d) => v = w

CountAt(d) ==
  /\ readers[d] >= 0 => readers[d] = Cardinality(Registered(d))
  /\ readers[d] < 0 => readers[d] <= Cardinality(Spinning(d)) - ReaderBias

(* A delta that no step of a worker is about keeps its readers and collector. *)
LEMMA DeltaUnmoved ==
  ASSUME CollectorAlone, CountInv, NEW d \in Deltas, readers'[d] = readers[d],
         Registered(d)' = Registered(d), Spinning(d)' = Spinning(d),
         \A v \in Workers : Collects(v, d)' <=> Collects(v, d)
  PROVE  AloneAt(d)' /\ CountAt(d)'
PROOF
  <1>1. AloneAt(d) /\ CountAt(d)
    BY Zenon DEF CollectorAlone, CountInv, AloneAt, CountAt
  <1>2. AloneAt(d)'
    BY Zenon, <1>1 DEF AloneAt
  <1>3. CountAt(d)'
    BY Zenon, <1>1 DEF CountAt
  <1> QED
    BY Zenon, <1>2, <1>3

(* A step that is about one delta, c, is right if it is right for c. *)
LEMMA OneDelta ==
  ASSUME CollectorAlone, CountInv, NEW c \in Deltas, AloneAt(c)', CountAt(c)',
         \A d \in Deltas : d # c => /\ readers'[d] = readers[d]
                                    /\ Registered(d)' = Registered(d) /\ Spinning(d)' = Spinning(d)
                                    /\ \A v \in Workers : Collects(v, d)' <=> Collects(v, d)
  PROVE  CollectorAlone' /\ CountInv'
PROOF
  <1>1. ASSUME NEW d \in Deltas
        PROVE  AloneAt(d)' /\ CountAt(d)'
    <2>1. CASE d = c
      BY Zenon, <2>1
    <2>2. CASE d # c
      BY Zenon, <2>2, DeltaUnmoved
    <2> QED
      BY Zenon, <2>1, <2>2
  <1> QED
    BY ZenonT(60), <1>1 DEF CollectorAlone, CountInv, AloneAt, CountAt

(* A worker that leaves its delta is counted no more. *)
LEMMA CountLeave ==
  ASSUME TypeOK, CollectorAlone, CountInv, NEW w \in Workers, NEW ret \in {"lock", "reader_inc"},
         pc[w] = "register", cur[w] # NoDelta, decrement_reader(w, cur[w], ret), UNCHANGED ts
  PROVE  CollectorAlone' /\ CountInv'
PROOF
  <1>ty. /\ pc \in [Workers -> PcValues]
         /\ cur \in [Workers -> Deltas \cup {NoDelta}]
         /\ readers \in [Deltas -> Int]
         /\ gcAt \in [Workers -> Deltas]
    BY Zenon DEF TypeOK
  <1>0. PICK c \in Deltas : c = cur[w]
    BY Zenon, <1>ty
  <1>1. w \in Registered(c)
    BY Zenon, <1>0 DEF Registered
  <1>2. readers[c] >= 0 /\ readers[c] = Cardinality(Registered(c)) /\ readers[c] \in Int
    BY <1>1, <1>ty DEF CollectorAlone, CountInv
  <1>3. /\ readers' = [readers EXCEPT ![c] = @ - 1]
        /\ cur' = [cur EXCEPT ![w] = NoDelta]
        /\ \A v \in Workers : v # w => pc'[v] = pc[v] /\ gcAt'[v] = gcAt[v]
        /\ pc'[w] \in {"gc_cas", "lock", "reader_inc"}
    BY Zenon, <1>0, <1>ty DEF decrement_reader, StartGC, gcVars
  <1>4. Registered(c)' = Registered(c) \ {w}
    BY Zenon, <1>0, <1>3, <1>ty DEF Registered, NoDelta, Deltas
  <1>5. \A d \in Deltas : d # c => Registered(d)' = Registered(d)
    BY <1>0, <1>3, <1>ty DEF Registered, NoDelta, Deltas
  <1>6. \A d \in Deltas : Spinning(d)' = Spinning(d)
    BY Zenon, <1>3, <1>ty DEF Spinning
  <1>7. \A v \in Workers, d \in Deltas : Collects(v, d)' <=> Collects(v, d)
    BY Zenon, <1>3, <1>ty DEF Collects
  <1>8. Cardinality(Registered(c) \ {w}) = Cardinality(Registered(c)) - 1
    BY ZenonT(30), <1>1, ReadersFinite, FS_RemoveElement
  <1>9. /\ readers'[c] = readers[c] - 1 /\ readers[c] - 1 >= 0
        /\ \A d \in Deltas : d # c => readers'[d] = readers[d]
    <2>1. readers[c] # 0
      BY Zenon, <1>1, <1>2, ReadersFinite, FS_EmptySet
    <2> QED
      BY <1>2, <1>3, <1>ty, <2>1
  <1>10. AloneAt(c)'
    <2>0. ~(readers[c] < 0)
      BY <1>2
    <2>1. \A v \in Workers : ~Collects(v, c)
      BY Zenon, <2>0 DEF CollectorAlone
    <2>2. ~(readers'[c] < 0)
      BY <1>2, <1>9
    <2> QED
      BY Zenon, <1>7, <2>1, <2>2 DEF AloneAt
  <1>11. CountAt(c)'
    <2>1. ~(readers'[c] < 0)
      BY <1>2, <1>9
    <2>2. readers'[c] = Cardinality(Registered(c)')
      BY Zenon, <1>2, <1>4, <1>8, <1>9
    <2> QED
      BY Zenon, <2>1, <2>2 DEF CountAt
  <1>12. \A d \in Deltas : d # c => readers'[d] = readers[d]
    BY Zenon, <1>9
  <1> QED
    BY ZenonT(30), <1>5, <1>6, <1>7, <1>10, <1>11, <1>12, OneDelta

(* A worker that finds its delta uncollected is counted. *)
LEMMA CountEnter ==
  ASSUME TypeOK, WriterInv, CollectorAlone, CountInv, NEW w \in Workers, NEW c \in Deltas,
         increment_reader(w), c = get_delta_ver(ts[w]), readers[c] >= 0
  PROVE  CollectorAlone' /\ CountInv'
PROOF
  <1>ty. /\ pc \in [Workers -> PcValues]
         /\ cur \in [Workers -> Deltas \cup {NoDelta}]
         /\ readers \in [Deltas -> Int]
    BY Zenon DEF TypeOK
  <1>1. /\ cur[w] = NoDelta /\ pc[w] = "reader_inc" /\ UNCHANGED <<ts, gcAt>>
        /\ readers' = [readers EXCEPT ![c] = @ + 1]
        /\ cur' = [cur EXCEPT ![w] = c] /\ pc' = [pc EXCEPT ![w] = "lock"]
    BY <1>ty DEF increment_reader, WriterInv, txnVars, gcVars
  <1>2. readers'[c] = readers[c] + 1 /\ readers[c] \in Int /\ \A d \in Deltas : d # c => readers'[d] = readers[d]
    BY Zenon, <1>1, <1>ty
  <1>3. Registered(c)' = Registered(c) \cup {w} /\ w \notin Registered(c)
    BY <1>1, <1>ty DEF Registered, NoDelta, Deltas
  <1>4. \A d \in Deltas : d # c => Registered(d)' = Registered(d)
    BY <1>1, <1>ty DEF Registered, NoDelta, Deltas
  <1>5. \A d \in Deltas : Spinning(d)' = Spinning(d)
    BY Zenon, <1>1, <1>ty DEF Spinning
  <1>6. \A v \in Workers, d \in Deltas : Collects(v, d)' <=> Collects(v, d)
    BY Zenon, <1>1, <1>ty DEF Collects
  <1>7. Cardinality(Registered(c) \cup {w}) = Cardinality(Registered(c)) + 1
    BY ZenonT(30), <1>3, ReadersFinite, FS_AddElement
  <1>8. readers[c] = Cardinality(Registered(c)) /\ \A v \in Workers : ~Collects(v, c)
    BY <1>2 DEF CountInv, CollectorAlone
  <1>9. AloneAt(c)'
    <2>1. ~(readers'[c] < 0)
      BY <1>2
    <2> QED
      BY Zenon, <1>6, <1>8, <2>1 DEF AloneAt
  <1>10. CountAt(c)'
    <2>1. ~(readers'[c] < 0)
      BY <1>2
    <2>2. readers'[c] = Cardinality(Registered(c)')
      BY Zenon, <1>2, <1>3, <1>7, <1>8
    <2> QED
      BY Zenon, <2>1, <2>2 DEF CountAt
  <1> QED
    BY Zenon, <1>2, <1>4, <1>5, <1>6, <1>9, <1>10, OneDelta

(* A worker that finds its delta collected spins: its increment does not bring the
   count back to zero. *)
LEMMA CountSpin ==
  ASSUME TypeOK, WriterInv, CollectorAlone, CountInv, NEW w \in Workers, NEW c \in Deltas,
         increment_reader(w), c = get_delta_ver(ts[w]), readers[c] < 0
  PROVE  CollectorAlone' /\ CountInv'
PROOF
  <1>ty. /\ pc \in [Workers -> PcValues]
         /\ readers \in [Deltas -> Int]
    BY Zenon DEF TypeOK
  <1>1. /\ pc[w] = "reader_inc" /\ UNCHANGED <<ts, gcAt, cur>>
        /\ readers' = [readers EXCEPT ![c] = @ + 1] /\ pc' = [pc EXCEPT ![w] = "reader_spin"]
    BY <1>ty DEF increment_reader, txnVars, gcVars
  <1>2. readers'[c] = readers[c] + 1 /\ readers[c] \in Int /\ \A d \in Deltas : d # c => readers'[d] = readers[d]
    BY Zenon, <1>1, <1>ty
  <1>3. Spinning(c)' = Spinning(c) \cup {w} /\ w \notin Spinning(c)
    BY Zenon, <1>1, <1>ty DEF Spinning
  <1>4. \A d \in Deltas : d # c => Spinning(d)' = Spinning(d)
    BY <1>1, <1>ty DEF Spinning
  <1>5. \A d \in Deltas : Registered(d)' = Registered(d)
    BY Zenon, <1>1 DEF Registered
  <1>6. \A v \in Workers, d \in Deltas : Collects(v, d)' <=> Collects(v, d)
    BY Zenon, <1>1, <1>ty DEF Collects
  <1>7. Cardinality(Spinning(c) \cup {w}) = Cardinality(Spinning(c)) + 1 /\ Cardinality(Spinning(c)) \in Nat
    BY ZenonT(30), <1>3, ReadersFinite, FS_AddElement
  <1>8. Cardinality(Spinning(c)) + 1 <= NumWorkers
    <2>1. Spinning(c) \cup {w} \subseteq Workers
      BY Zenon DEF Spinning
    <2>2. Cardinality(Spinning(c) \cup {w}) <= Cardinality(Workers)
      BY Zenon, <2>1, WorkersFinite, FS_Subset
    <2> QED
      BY Zenon, <2>2, <1>7, WorkersFinite
  <1>9. readers[c] <= Cardinality(Spinning(c)) - ReaderBias
    BY Zenon DEF CountInv
  <1>10. readers'[c] <= (Cardinality(Spinning(c)) + 1) - ReaderBias /\ readers'[c] < 0
    BY <1>2, <1>7, <1>8, <1>9, OneShotAssumption
  <1>11. AloneAt(c)'
    <2>1. AloneAt(c)
      BY Zenon DEF CollectorAlone, AloneAt
    <2> QED
      BY Zenon, <1>5, <1>6, <1>10, <2>1 DEF AloneAt
  <1>12. CountAt(c)'
    BY <1>3, <1>7, <1>10, <1>2 DEF CountAt
  <1> QED
    BY Zenon, <1>2, <1>4, <1>5, <1>6, <1>11, <1>12, OneDelta

(* The collector of a delta is alone: nobody was counted. *)
LEMMA CountAcquire ==
  ASSUME TypeOK, CollectorAlone, CountInv, NEW w \in Workers, gc_acquire(w)
  PROVE  CollectorAlone' /\ CountInv'
PROOF
  <1>ty. /\ pc \in [Workers -> PcValues]
         /\ readers \in [Deltas -> Int]
         /\ gcAt \in [Workers -> Deltas]
         /\ ReaderBias \in Nat \ {0}
    BY OneShotAssumption DEF TypeOK
  <1>0. PICK c \in Deltas : c = gcAt[w]
    BY Zenon, <1>ty
  <1>1. /\ readers[c] = 0 /\ pc[w] = "gc_cas" /\ UNCHANGED <<ts, cur, gcAt>>
        /\ pc' = [pc EXCEPT ![w] = "gc_scan"] /\ readers' = [readers EXCEPT ![c] = -ReaderBias]
    BY Zenon, <1>0, <1>ty DEF gc_acquire, txnVars, gcVars
  <1>2. readers'[c] = -ReaderBias /\ -ReaderBias < 0 /\ \A d \in Deltas : d # c => readers'[d] = readers[d]
    BY <1>1, <1>ty
  <1>3. Registered(c) = {}
    BY <1>1, ReadersFinite, FS_EmptySet DEF CountInv
  <1>4. \A d \in Deltas : Registered(d)' = Registered(d)
    BY Zenon, <1>1 DEF Registered
  <1>5. \A d \in Deltas : Spinning(d)' = Spinning(d)
    BY Zenon, <1>1, <1>ty DEF Spinning
  <1>6. \A v \in Workers, d \in Deltas : Collects(v, d)' <=> (Collects(v, d) \/ (v = w /\ d = c))
    BY Zenon, <1>0, <1>1, <1>ty DEF Collects
  <1>7. \A v \in Workers : ~Collects(v, c)
    BY <1>1 DEF CollectorAlone
  <1>8. AloneAt(c)'
    BY Zenon, <1>2, <1>3, <1>4, <1>6, <1>7 DEF AloneAt
  <1>9. CountAt(c)'
    <2>1. Cardinality(Spinning(c)) \in Nat
      BY Zenon, ReadersFinite
    <2> QED
      BY <1>2, <1>5, <1>ty, <2>1 DEF CountAt
  <1> QED
    BY Zenon, <1>2, <1>4, <1>5, <1>6, <1>8, <1>9, OneDelta

(* A delta that was collected has no reader. *)
LEMMA CountFree ==
  ASSUME TypeOK, CollectorAlone, CountInv, NEW w \in Workers, gc_release(w)
  PROVE  CollectorAlone' /\ CountInv'
PROOF
  <1>ty. /\ pc \in [Workers -> PcValues]
         /\ readers \in [Deltas -> Int]
         /\ gcAt \in [Workers -> Deltas]
         /\ gcRet \in [Workers -> {"idle", "lock", "reader_inc"}]
    BY Zenon DEF TypeOK
  <1>0. PICK c \in Deltas : c = gcAt[w]
    BY Zenon, <1>ty
  <1>1. pc[w] = "gc_done" /\ UNCHANGED <<ts, cur>> /\ readers' = [readers EXCEPT ![c] = 0]
    BY Zenon, <1>0, <1>ty DEF gc_release, txnVars
  <1>2. pc'[w] \in {"gc_cas", "idle", "lock", "reader_inc"}
        /\ \A v \in Workers : v # w => pc'[v] = pc[v] /\ gcAt'[v] = gcAt[v]
    BY <1>ty DEF gc_release, NextGC
  <1>3. Collects(w, c)
    BY Zenon, <1>0, <1>1 DEF Collects
  <1>4. Registered(c) = {} /\ \A v \in Workers : Collects(v, c) => v = w
    BY Zenon, <1>3 DEF CollectorAlone
  <1>5. readers'[c] = 0 /\ \A d \in Deltas : d # c => readers'[d] = readers[d]
    BY Zenon, <1>1, <1>ty
  <1>6. \A d \in Deltas : Registered(d)' = Registered(d)
    BY Zenon, <1>1 DEF Registered
  <1>7. \A d \in Deltas : Spinning(d)' = Spinning(d)
    BY <1>1, <1>2, <1>ty DEF Spinning
  <1>8. \A v \in Workers, d \in Deltas : Collects(v, d)' <=> (Collects(v, d) /\ v # w)
    BY Zenon, <1>1, <1>2, <1>ty DEF Collects
  <1>9. \A d \in Deltas : d # c => ~Collects(w, d)
    BY Zenon, <1>0 DEF Collects
  <1>10. ~(readers'[c] < 0)
    BY <1>5
  <1>11. AloneAt(c)'
    BY Zenon, <1>4, <1>8, <1>10 DEF AloneAt
  <1>12. CountAt(c)'
    <2>1. Cardinality(Registered(c)') = 0
      BY Zenon, <1>4, <1>6, FS_EmptySet
    <2> QED
      BY Zenon, <1>5, <1>10, <2>1 DEF CountAt
  <1>13. \A d \in Deltas : d # c => \A v \in Workers : Collects(v, d)' <=> Collects(v, d)
    BY Zenon, <1>8, <1>9
  <1> QED
    BY ZenonT(30), <1>5, <1>6, <1>7, <1>11, <1>12, <1>13, OneDelta

(* Every step keeps the count of a delta's readers right, and its collector alone. *)
LEMMA CountStep ==
  ASSUME TypeOK, WriterInv, CollectorAlone, CountInv, [Next]_vars
  PROVE  CollectorAlone' /\ CountInv'
PROOF
  <1> USE DEF txnVars, deltaVars, recVars, gcVars
  <1>ty. /\ pc \in [Workers -> PcValues]
         /\ cur \in [Workers -> Deltas \cup {NoDelta}]
         /\ ts \in [Workers -> 0 .. MaxTs]
         /\ readers \in [Deltas -> Int]
         /\ gcAt \in [Workers -> Deltas]
         /\ gcRet \in [Workers -> {"idle", "lock", "reader_inc"}]
    BY Zenon DEF TypeOK
  <1>quiet. ASSUME UNCHANGED readers,
                   \A d \in Deltas : Registered(d)' = Registered(d) /\ Spinning(d)' = Spinning(d),
                   \A v \in Workers, d \in Deltas : Collects(v, d)' <=> Collects(v, d)
            PROVE  CollectorAlone' /\ CountInv'
    BY Zenon, <1>quiet DEF CollectorAlone, CountInv
  <1>frame. ASSUME UNCHANGED <<pc, ts, cur, readers, gcAt>>
           PROVE  CollectorAlone' /\ CountInv'
    <2>1. \A d \in Deltas : Registered(d)' = Registered(d) /\ Spinning(d)' = Spinning(d)
      BY Zenon, <1>frame DEF Registered, Spinning
    <2>2. \A v \in Workers, d \in Deltas : Collects(v, d)' <=> Collects(v, d)
      BY Zenon, <1>frame DEF Collects
    <2> QED
      BY Zenon, <2>1, <2>2, <1>frame, <1>quiet
  <1>1. ASSUME NEW w \in Workers, NEW readOnly \in BOOLEAN, NEW writes \in SUBSET Records,
                      BeginTxn(w, readOnly, writes)
               PROVE  CollectorAlone' /\ CountInv'
    <2>1. \A d \in Deltas : Registered(d)' = Registered(d) /\ Spinning(d)' = Spinning(d)
      BY Zenon, <1>1, <1>ty DEF BeginTxn, Registered, Spinning
    <2>2. \A v \in Workers, d \in Deltas : Collects(v, d)' <=> Collects(v, d)
      BY Zenon, <1>1, <1>ty DEF BeginTxn, Collects
    <2>3. UNCHANGED readers
      BY Zenon, <1>1 DEF BeginTxn
    <2> QED
      BY Zenon, <2>1, <2>2, <2>3, <1>quiet
  <1>2. ASSUME NEW w \in Workers, PublishMinActive(w)
               PROVE  CollectorAlone' /\ CountInv'
    <2>1. \A d \in Deltas : Registered(d)' = Registered(d) /\ Spinning(d)' = Spinning(d)
      BY Zenon, <1>2, <1>ty DEF PublishMinActive, Registered, Spinning
    <2>2. \A v \in Workers, d \in Deltas : Collects(v, d)' <=> Collects(v, d)
      BY Zenon, <1>2, <1>ty DEF PublishMinActive, Collects
    <2>3. UNCHANGED readers
      BY Zenon, <1>2 DEF PublishMinActive
    <2> QED
      BY <2>1, <2>2, <2>3, <1>quiet
  <1>3. ASSUME NEW w \in Workers, remove_active_txn(w)
               PROVE  CollectorAlone' /\ CountInv'
    BY ZenonT(60), <1>3, CountLeave DEF remove_active_txn
  <1>4. ASSUME NEW w \in Workers, add_active_txn(w)
               PROVE  CollectorAlone' /\ CountInv'
    <2>1. \A d \in Deltas : Registered(d)' = Registered(d) /\ Spinning(d)' = Spinning(d)
      BY Zenon, <1>4, <1>ty DEF add_active_txn, Registered, Spinning
    <2>2. \A v \in Workers, d \in Deltas : Collects(v, d)' <=> Collects(v, d)
      BY <1>4, <1>ty DEF add_active_txn, Collects
    <2>3. UNCHANGED readers
      BY Zenon, <1>4 DEF add_active_txn
    <2> QED
      BY Zenon, <2>1, <2>2, <2>3, <1>quiet
  <1>5. ASSUME NEW w \in Workers, switch_delta(w)
               PROVE  CollectorAlone' /\ CountInv'
    BY ZenonT(60), <1>5, CountLeave DEF switch_delta
  <1>6. ASSUME NEW w \in Workers, update_delta_epoch(w)
               PROVE  CollectorAlone' /\ CountInv'
    <2>1. \A d \in Deltas : Registered(d)' = Registered(d) /\ Spinning(d)' = Spinning(d)
      BY Zenon, <1>6, <1>ty DEF update_delta_epoch, Registered, Spinning
    <2>2. \A v \in Workers, d \in Deltas : Collects(v, d)' <=> Collects(v, d)
      BY Zenon, <1>6, <1>ty DEF update_delta_epoch, Collects
    <2>3. UNCHANGED readers
      BY Zenon, <1>6 DEF update_delta_epoch
    <2> QED
      BY Zenon, <2>1, <2>2, <2>3, <1>quiet
  <1>7. ASSUME NEW w \in Workers, increment_reader(w)
               PROVE  CollectorAlone' /\ CountInv'
    <2>1. get_delta_ver(ts[w]) \in Deltas
      BY <1>ty, DeltaVerType
    <2>2. PICK c \in Deltas : c = get_delta_ver(ts[w])
      BY Zenon, <2>1
    <2>3. readers[c] >= 0 \/ readers[c] < 0
      BY <1>ty
    <2> QED
      BY <1>7, <2>2, <2>3, CountEnter, CountSpin
  <1>8. ASSUME NEW w \in Workers, spin_reader(w)
               PROVE  CollectorAlone' /\ CountInv'
    <2> DEFINE c == get_delta_ver(ts[w])
    <2>1. UNCHANGED readers /\ readers[c] >= 0 /\ pc[w] = "reader_spin" /\ UNCHANGED <<ts, cur, gcAt>>
          /\ pc' = [pc EXCEPT ![w] = "reader_inc"]
      BY Zenon, <1>8 DEF spin_reader
    <2>2. \A d \in Deltas : Registered(d)' = Registered(d) /\ (d # c => Spinning(d)' = Spinning(d))
      BY Zenon, <2>1, <1>ty DEF Registered, Spinning
    <2>3. \A v \in Workers, d \in Deltas : Collects(v, d)' <=> Collects(v, d)
      BY Zenon, <2>1, <1>ty DEF Collects
    <2> QED
      BY <2>1, <2>2, <2>3, <1>ty DEF CollectorAlone, CountInv
  <1>9. ASSUME NEW w \in Workers, gc_acquire(w)
               PROVE  CollectorAlone' /\ CountInv'
    BY ZenonT(60), <1>9, CountAcquire
  <1>10. ASSUME NEW w \in Workers, gc_skip(w)
               PROVE  CollectorAlone' /\ CountInv'
    <2>1. \A d \in Deltas : Registered(d)' = Registered(d) /\ Spinning(d)' = Spinning(d)
      BY Zenon, <1>10, <1>ty DEF gc_skip, NextGC, Registered, Spinning
    <2>2. \A v \in Workers, d \in Deltas : Collects(v, d)' <=> Collects(v, d)
      BY <1>10, <1>ty DEF gc_skip, NextGC, Collects
    <2>3. UNCHANGED readers
      BY Zenon, <1>10 DEF gc_skip, NextGC
    <2> QED
      BY Zenon, <2>1, <2>2, <2>3, <1>quiet
  <1>11. ASSUME NEW w \in Workers, get_min_activeTxn(w)
               PROVE  CollectorAlone' /\ CountInv'
    BY ZenonT(60), <1>11, <1>frame DEF get_min_activeTxn
  <1>12. ASSUME NEW w \in Workers, gc_reset(w)
               PROVE  CollectorAlone' /\ CountInv'
    <2>1. \A d \in Deltas : Registered(d)' = Registered(d) /\ Spinning(d)' = Spinning(d)
      BY Zenon, <1>12, <1>ty DEF gc_reset, Registered, Spinning
    <2>2. \A v \in Workers, d \in Deltas : Collects(v, d)' <=> Collects(v, d)
      BY Zenon, <1>12, <1>ty DEF gc_reset, Collects
    <2>3. UNCHANGED readers
      BY Zenon, <1>12 DEF gc_reset
    <2> QED
      BY Zenon, <2>1, <2>2, <2>3, <1>quiet
  <1>13. ASSUME NEW w \in Workers, gc_release(w)
               PROVE  CollectorAlone' /\ CountInv'
    BY Zenon, <1>13, CountFree
  <1>14. ASSUME NEW w \in Workers, NEW r \in Records, try_lock(w, r)
               PROVE  CollectorAlone' /\ CountInv'
    BY ZenonT(30), <1>14, <1>frame DEF try_lock
  <1>15. ASSUME NEW w \in Workers, NEW r \in Records, lock_failed(w, r)
               PROVE  CollectorAlone' /\ CountInv'
    <2>1. \A d \in Deltas : Registered(d)' = Registered(d) /\ Spinning(d)' = Spinning(d)
      BY Zenon, <1>15, <1>ty DEF lock_failed, Registered, Spinning
    <2>2. \A v \in Workers, d \in Deltas : Collects(v, d)' <=> Collects(v, d)
      BY Zenon, <1>15, <1>ty DEF lock_failed, Collects
    <2>3. UNCHANGED readers
      BY Zenon, <1>15 DEF lock_failed
    <2> QED
      BY ZenonT(60), <2>1, <2>2, <2>3, <1>quiet
  <1>16. ASSUME NEW w \in Workers, NEW r \in Records, release_locks(w, r)
               PROVE  CollectorAlone' /\ CountInv'
    BY Zenon, <1>16, <1>frame DEF release_locks, unlock
  <1>17. ASSUME NEW w \in Workers, NEW r \in Records, updateRecord(w, r)
               PROVE  CollectorAlone' /\ CountInv'
    BY ZenonT(60), <1>17, <1>frame DEF updateRecord, create_versions, unlock
  <1>18. ASSUME NEW w \in Workers, NEW r \in Records, getIndexedRecord(w, r)
               PROVE  CollectorAlone' /\ CountInv'
    <2>1. \A d \in Deltas : Registered(d)' = Registered(d) /\ Spinning(d)' = Spinning(d)
      BY Zenon, <1>18, <1>ty DEF getIndexedRecord, Registered, Spinning
    <2>2. \A v \in Workers, d \in Deltas : Collects(v, d)' <=> Collects(v, d)
      BY <1>18, <1>ty DEF getIndexedRecord, Collects
    <2>3. UNCHANGED readers
      BY ZenonT(60), <1>18 DEF getIndexedRecord
    <2> QED
      BY Zenon, <2>1, <2>2, <2>3, <1>quiet
  <1>19. ASSUME NEW w \in Workers, locks_acquired(w)
               PROVE  CollectorAlone' /\ CountInv'
    <2>1. \A d \in Deltas : Registered(d)' = Registered(d) /\ Spinning(d)' = Spinning(d)
      BY <1>19, <1>ty DEF locks_acquired, Registered, Spinning
    <2>2. \A v \in Workers, d \in Deltas : Collects(v, d)' <=> Collects(v, d)
      BY Zenon, <1>19, <1>ty DEF locks_acquired, Collects
    <2>3. UNCHANGED readers
      BY ZenonT(60), <1>19 DEF locks_acquired
    <2> QED
      BY Zenon, <2>1, <2>2, <2>3, <1>quiet
  <1>20. ASSUME NEW w \in Workers, endTxn(w)
               PROVE  CollectorAlone' /\ CountInv'
    <2>1. \A d \in Deltas : Registered(d)' = Registered(d) /\ Spinning(d)' = Spinning(d)
      BY ZenonT(60), <1>20, <1>ty DEF endTxn, StartGC, Registered, Spinning
    <2>2. \A v \in Workers, d \in Deltas : Collects(v, d)' <=> Collects(v, d)
      BY <1>20, <1>ty DEF endTxn, StartGC, Collects
    <2>3. UNCHANGED readers
      BY Zenon, <1>20 DEF endTxn, StartGC
    <2> QED
      BY Zenon, <2>1, <2>2, <2>3, <1>quiet
  <1>21. CASE UNCHANGED vars
    BY <1>21, <1>frame DEF vars
  <1> QED
    BY ZenonT(60), <1>1, <1>2, <1>3, <1>4, <1>5, <1>6, <1>7, <1>8, <1>9, <1>10, <1>11, <1>12, <1>13, <1>14,
       <1>15, <1>16, <1>17, <1>18, <1>19, <1>20, <1>21
    DEF Next, WorkerStep, GcStep

-----------------------------------------------------------------------------
(* The safety of one-shot garbage collection. *)

(* The inductive invariant holds in every behaviour: registration, counting,
   scanning and version chains fit together as the collector assumes. *)
THEOREM GcInvariant == Spec => []GcInv
PROOF
  <1>1. Init => GcInv
    <2> SUFFICES ASSUME Init
                 PROVE  GcInv
      BY Zenon
    <2> USE DEF Init
    <2>1. PhaseInv /\ WriterInv /\ ScanInv
      BY DEF PhaseInv, WriterInv, ScanInv, Active, GcPc
    <2>2. \A d \in Deltas : readers[d] = 0 /\ Registered(d) = {}
      BY DEF Registered, NoDelta, Deltas
    <2>3. CollectorAlone
      BY <2>2 DEF CollectorAlone, Collects
    <2>4. CountInv
      <3>1. \A d \in Deltas : readers[d] = Cardinality(Registered(d)) /\ ~(readers[d] < 0)
        <4> TAKE d \in Deltas
        <4>1. readers[d] = 0 /\ Cardinality(Registered(d)) = Cardinality({})
          BY <2>2, ZenonT(60)
        <4> QED
          BY <4>1, FS_EmptySet
      <3> QED
        BY Zenon, <3>1 DEF CountInv
    <2>5. ChainInv
      BY DEF ChainInv
    <2> QED
      BY Zenon, <2>1, <2>3, <2>4, <2>5 DEF GcInv
  <1>2. TypeOK /\ LockOwnership /\ GcInv /\ [Next]_vars => GcInv'
    BY Zenon, TypeStep, PhaseStep, WriterStep, CountStep, ScanStep, ChainStep DEF GcInv
  <1> QED
    BY <1>1, <1>2, TypeCorrect, LocksOwned, PTL DEF Spec

(* While GC() has a delta, no other worker collects it and none is registered
   with it, for any number of workers (CircularDeltaStore::readers). *)
THEOREM CollectorIsAlone == Spec => []CollectorAlone
PROOF
  <1>1. GcInv => CollectorAlone
    BY Zenon DEF GcInv
  <1> QED
    BY <1>1, GcInvariant, PTL

(* One-shot GC is safe: as long as no tag wraps, no transaction whose start
   time the collectors could see loses a version it has to read. *)
THEOREM OneShotSafe == Spec => []ReadableUnlessExposed
PROOF
  <1>1. Init => ReadableUnlessExposed
    BY DEF Init, ReadableUnlessExposed, Active
  <1>2. TypeOK /\ GcInv /\ ReadableUnlessExposed /\ [Next]_vars => ReadableUnlessExposed'
    BY Zenon, ReadStep DEF GcInv
  <1> QED
    BY <1>1, <1>2, TypeCorrect, GcInvariant, PTL DEF Spec

(* CircularDeltaStore::reset never runs under a transaction that writes into
   the delta, for any number of workers. *)
THEOREM WritersKeepTheirDelta == Spec => NoResetUnderWriter
PROOF
  <1>1. TypeOK /\ GcInv /\ [Next]_vars => [WritersKeepTags]_vars
    BY Zenon, ResetStep DEF GcInv
  <1> QED
    BY <1>1, TypeCorrect, GcInvariant, PTL DEF Spec, NoResetUnderWriter
=============================================================================
