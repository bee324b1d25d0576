------------------------- MODULE DeltaMemory_proofs -------------------------
(***************************************************************************)
(* Proofs about DeltaMemory, for any number of threads, any capacity, slack*)
(* and version sizes and any width of the tag: the inductive invariant     *)
(* MemInv, and from it the two properties of the allocator.                *)
(***************************************************************************)
EXTENDS DeltaMemory, TLAPS

(* The time a leaf may take, so that no proof depends on the speed of the machine. *)
USE SMTT(60)

-----------------------------------------------------------------------------
(* Types, and who is registered, who collects and which tags the versions carry *)

(* The invariant with the type invariant. *)
IInv == TypeOK /\ MemInv

(* Nothing is allocated at the start. *)
LEMMA IInvInit == Init => IInv
<1> SUFFICES ASSUME Init PROVE IInv
  BY Zenon
<1>a. /\ \A t \in Threads : pc[t] = "start" /\ remaining[t] = 0
      /\ cursor = 0 /\ known = {} /\ readers = {} /\ left = {} /\ meta = <<>> /\ recs = <<>>
      /\ init = NoThread /\ collector = NoThread
  BY Zenon DEF Init
<1>b. Len(recs) = 0 /\ Len(meta) = 0
  BY Zenon, <1>a
<1>1. TypeOK
  <2>1. meta \in Seq(Threads) /\ recs \in Seq(Record)
    BY <1>a
  <2>2. pc \in [Threads -> InitPc \cup FillPc \cup ResetPc \cup {"out", "in", "gc", "dead"}]
    BY Zenon DEF Init, InitPc
  <2>3. /\ ptr \in [Threads -> Nat] /\ remaining \in [Threads -> Int]
        /\ at \in [Threads -> Nat] /\ size \in [Threads -> Nat]
    BY DEF Init
  <2>4. cursor \in Nat /\ tag \in Nat
    BY Zenon DEF Init
  <2>5. touched \in BOOLEAN /\ raced \in BOOLEAN /\ oversize \in BOOLEAN
    BY Zenon DEF Init
  <2>6. QED
    BY Zenon, <1>a, <2>1, <2>2, <2>3, <2>4, <2>5 DEF TypeOK
<1>2. Occupancy
  BY Zenon, <1>a, NoThreadAssumption DEF Occupancy, InitPc, FillPc, ResetPc
<1>3. QuietReset
  BY Zenon, <1>a DEF QuietReset
<1>4. TagsGrow /\ CurrentVersionsApart /\ SameTagApart
  BY <1>b DEF TagsGrow, CurrentVersionsApart, SameTagApart
<1>5. \A t \in Threads : Slack(t) = 0
  BY Zenon, <1>a DEF Slack
<1>6. SizesFit /\ SlackBelowCursor /\ SlackApart
  BY <1>a, <1>5 DEF SizesFit, SlackBelowCursor, SlackApart, FillPc
<1>7. InMemory
  BY <1>a, <1>b, DeltaMemoryAssumption DEF InMemory
<1>8. QED
  BY Zenon, <1>1, <1>2, <1>3, <1>4, <1>6, <1>7 DEF IInv, MemInv

(* The places a thread can be at. *)
PcValues == InitPc \cup FillPc \cup ResetPc \cup {"out", "in", "gc", "dead"}
PcType == [Threads -> PcValues]

(* What a thread's move from one place to another leaves as it was. *)
LEMMA PcMoves ==
  ASSUME pc \in PcType, NEW t \in Threads, NEW v \in PcValues, pc' = [pc EXCEPT ![t] = v]
  PROVE  pc' \in PcType /\ pc'[t] = v /\ \A u \in Threads : u # t => pc'[u] = pc[u]
  BY Zenon DEF PcType

(* Type correctness is inductive: no step of the allocator or the collector
   leaves the types. *)
LEMMA TypeStep == TypeOK /\ [Next]_vars => TypeOK'
<1> SUFFICES ASSUME TypeOK, [Next]_vars PROVE TypeOK'
  BY Zenon
<1>a. pc \in PcType
  BY Zenon DEF TypeOK, PcType, PcValues
<1>b. /\ \A v \in {"meta", "pools", "refill", "carve", "filled", "out", "in", "dead"} : v \in PcValues
      /\ \A v \in {"gc", "collect", "reset", "zero", "release"} : v \in PcValues
  BY Zenon DEF PcValues, InitPc, FillPc, ResetPc
<1>1. ASSUME NEW t \in Threads, register_meta(t) PROVE TypeOK'
  <2>1. pc' \in PcType
    BY <1>1, <1>a, <1>b, PcMoves, Zenon DEF register_meta
  <2>2. at' \in [Threads -> Nat]
    BY <1>1 DEF register_meta, TypeOK
  <2>3. UNCHANGED <<slackVars, gcVars, meta, init, size, recs, raced, oversize>>
    BY Zenon, <1>1 DEF register_meta
  <2>4. QED
    BY <2>1, <2>2, <2>3, Zenon DEF TypeOK, PcType, PcValues, slackVars, gcVars
<1>2. ASSUME NEW t \in Threads, emplace_meta(t) PROVE TypeOK'
  <2>1. pc' \in PcType
    BY <1>2, <1>a, <1>b, PcMoves, Zenon DEF emplace_meta
  <2>2. DEFINE n == IF at[t] < Len(meta) THEN at[t] ELSE Len(meta)
  <2>3. n \in Nat /\ \A i \in 1 .. n : meta[i] \in Threads
    <3>1. at[t] \in Nat /\ meta \in Seq(Threads)
      BY Zenon DEF TypeOK
    <3>2. QED
      BY <3>1
  <2>4. SubSeq(meta, 1, n) \in Seq(Threads)
    BY <2>3 DEF TypeOK
  <2>5. meta' \in Seq(Threads)
    BY <1>2, <2>4 DEF emplace_meta
  <2>6. at' \in [Threads -> Nat]
    BY Zenon, <1>2 DEF emplace_meta, TypeOK
  <2>7. UNCHANGED <<slackVars, gcVars, init, size, recs, raced, oversize>>
    BY Zenon, <1>2 DEF emplace_meta
  <2>8. QED
    BY <2>1, <2>5, <2>6, <2>7, Zenon DEF TypeOK, PcType, PcValues, slackVars, gcVars
<1>3. ASSUME NEW t \in Threads, initSlackCache(t) PROVE TypeOK'
  <2>1. pc' \in PcType
    BY <1>3, <1>a, <1>b, PcMoves, Zenon DEF initSlackCache
  <2>2. init' \in Threads \cup {NoThread} /\ known' \subseteq Threads
    BY Zenon, DeltaMemoryAssumption, <1>3 DEF initSlackCache, TypeOK
  <2>3. raced' \in BOOLEAN
    BY Zenon, DeltaMemoryAssumption, <1>3 DEF initSlackCache, TypeOK
  <2>4. size' \in [Threads -> Nat]
    BY DeltaMemoryAssumption, <1>3 DEF initSlackCache, TypeOK
  <2>5. UNCHANGED <<cursor, ptr, remaining, touched, gcVars, metaVars, recs, oversize>>
    BY Zenon, <1>3 DEF initSlackCache
  <2>6. QED
    BY <2>1, <2>2, <2>3, <2>4, <2>5, Zenon DEF TypeOK, PcType, PcValues, gcVars, metaVars
<1>4. ASSUME NEW t \in Threads, increment_reader(t) PROVE TypeOK'
  <2>1. pc' \in PcType
    BY <1>4, <1>a, <1>b, PcMoves, Zenon DEF increment_reader
  <2>2. readers' \subseteq Threads
    BY Zenon, <1>4 DEF increment_reader, TypeOK
  <2>3. UNCHANGED <<slackVars, metaVars, tag, collector, left, init, size, recs, raced, oversize>>
    BY Zenon, <1>4 DEF increment_reader
  <2>4. QED
    BY <2>1, <2>2, <2>3, Zenon DEF TypeOK, PcType, PcValues, slackVars, metaVars
<1>5. ASSUME NEW t \in Threads, decrement_reader(t) PROVE TypeOK'
  <2>1. pc' \in PcType
    BY <1>5, <1>a, <1>b, PcMoves, Zenon DEF decrement_reader
  <2>2. readers' \subseteq Threads
    BY Zenon, <1>5 DEF decrement_reader, TypeOK
  <2>3. UNCHANGED <<slackVars, metaVars, tag, collector, left, init, size, recs, raced, oversize>>
    BY Zenon, <1>5 DEF decrement_reader
  <2>4. QED
    BY <2>1, <2>2, <2>3, Zenon DEF TypeOK, PcType, PcValues, slackVars, metaVars
<1>6. ASSUME NEW t \in Threads, NEW s \in RecSizes, allocate(t, s) PROVE TypeOK'
  <2>1. pc' \in PcType
    <3>1. CASE s > AsSize(remaining[t])
      BY <1>6, <1>a, <1>b, <3>1, PcMoves, Zenon DEF allocate
    <3>2. CASE ~(s > AsSize(remaining[t]))
      BY <1>6, <1>a, <1>b, <3>2, PcMoves, Zenon DEF allocate
    <3>3. QED
      BY Zenon, <3>1, <3>2
  <2>2. size' \in [Threads -> Nat]
    BY Zenon, DeltaMemoryAssumption, <1>6 DEF allocate, TypeOK
  <2>3. oversize' \in BOOLEAN
    BY Zenon, DeltaMemoryAssumption, <1>6 DEF allocate, TypeOK
  <2>4. UNCHANGED <<slackVars, gcVars, metaVars, init, recs, raced>>
    BY Zenon, <1>6 DEF allocate
  <2>5. QED
    BY <2>1, <2>2, <2>3, <2>4, Zenon DEF TypeOK, PcType, PcValues, slackVars, gcVars, metaVars
<1>7. ASSUME NEW t \in Threads, fetch_add(t) PROVE TypeOK'
  <2>1. pc' \in PcType
    BY <1>7, <1>a, <1>b, PcMoves, Zenon DEF fetch_add
  <2>2. ptr' \in [Threads -> Nat] /\ cursor' \in Nat
    BY DeltaMemoryAssumption, <1>7 DEF fetch_add, TypeOK
  <2>3. UNCHANGED <<remaining, known, touched, gcVars, metaVars, init, size, recs, raced, oversize>>
    BY Zenon, <1>7 DEF fetch_add
  <2>4. QED
    BY <2>1, <2>2, <2>3, Zenon DEF TypeOK, PcType, PcValues, gcVars, metaVars
<1>8. ASSUME NEW t \in Threads, assert_not_full(t) PROVE TypeOK'
  <2>1. pc' \in PcType
    BY <1>8, <1>a, <1>b, PcMoves, Zenon DEF assert_not_full
  <2>2. remaining' \in [Threads -> Int]
    BY DeltaMemoryAssumption, <1>8 DEF assert_not_full, TypeOK
  <2>3. UNCHANGED <<cursor, ptr, known, touched, gcVars, metaVars, init, size, recs, raced, oversize>>
    BY Zenon, <1>8 DEF assert_not_full
  <2>4. QED
    BY <2>1, <2>2, <2>3, Zenon DEF TypeOK, PcType, PcValues, gcVars, metaVars
<1>9. ASSUME NEW t \in Threads, getVersionDataChunk(t) PROVE TypeOK'
  <2>1. pc' \in PcType
    BY Zenon, <1>9, <1>a, <1>b, PcMoves DEF getVersionDataChunk
  <2>0. ptr \in [Threads -> Nat] /\ size \in [Threads -> Nat] /\ remaining \in [Threads -> Int]
    BY Zenon DEF TypeOK
  <2>2. ptr[t] + size[t] \in Nat /\ remaining[t] - size[t] \in Int
    BY <2>0
  <2>3. ptr' \in [Threads -> Nat] /\ remaining' \in [Threads -> Int]
    BY ZenonT(60), <1>9, <2>2 DEF getVersionDataChunk, TypeOK
  <2>4. size' \in [Threads -> Nat]
    BY Zenon, <1>9 DEF getVersionDataChunk, TypeOK
  <2>5. recs' \in Seq(Record) /\ init' \in Threads \cup {NoThread}
    <3>1. [off |-> ptr[t], size |-> size[t], tag |-> tag] \in Record
      BY Zenon DEF Record, TypeOK
    <3>2. CASE init = t
      BY Zenon, <1>9, <3>2 DEF getVersionDataChunk, TypeOK
    <3>3. CASE init # t
      <4>1. recs' = Append(recs, [off |-> ptr[t], size |-> size[t], tag |-> tag]) /\ init' = init
        BY Zenon, <1>9, <3>3 DEF getVersionDataChunk
      <4>2. Append(recs, [off |-> ptr[t], size |-> size[t], tag |-> tag]) \in Seq(Record)
        BY <3>1 DEF TypeOK
      <4>3. QED
        BY Zenon, <4>1, <4>2 DEF TypeOK
    <3>4. QED
      BY Zenon, <3>2, <3>3
  <2>6. touched' = TRUE /\ UNCHANGED <<cursor, known, gcVars, metaVars, raced, oversize>>
    BY Zenon, <1>9 DEF getVersionDataChunk
  <2>7. QED
    BY <2>1, <2>3, <2>4, <2>5, <2>6, Zenon DEF TypeOK, PcType, PcValues, gcVars, metaVars
<1>10. ASSUME NEW t \in Threads, gc_acquire(t) PROVE TypeOK'
  <2>1. pc' \in PcType
    BY <1>10, <1>a, <1>b, PcMoves, Zenon DEF gc_acquire
  <2>2. collector' \in Threads \cup {NoThread}
    BY Zenon, <1>10 DEF gc_acquire, TypeOK
  <2>3. UNCHANGED <<slackVars, metaVars, tag, readers, left, init, size, recs, raced, oversize>>
    BY Zenon, <1>10 DEF gc_acquire
  <2>4. QED
    BY <2>1, <2>2, <2>3, Zenon DEF TypeOK, PcType, PcValues, slackVars, metaVars
<1>11. ASSUME NEW t \in Threads, gc_skip(t) PROVE TypeOK'
  <2>1. pc' \in PcType
    BY <1>11, <1>a, <1>b, PcMoves, Zenon DEF gc_skip
  <2>2. UNCHANGED <<slackVars, metaVars, gcVars, init, size, recs, raced, oversize>>
    BY Zenon, <1>11 DEF gc_skip
  <2>3. QED
    BY <2>1, <2>2, ZenonT(60) DEF TypeOK, PcType, PcValues, slackVars, gcVars, metaVars
<1>12. ASSUME NEW t \in Threads, gc_denied(t) PROVE TypeOK'
  <2>1. pc' \in PcType
    BY <1>12, <1>a, <1>b, PcMoves, Zenon DEF gc_denied
  <2>2. UNCHANGED <<slackVars, metaVars, gcVars, init, size, recs, raced, oversize>>
    BY Zenon, <1>12 DEF gc_denied
  <2>3. QED
    BY <2>1, <2>2, Zenon DEF TypeOK, PcType, PcValues, slackVars, gcVars, metaVars
<1>13. ASSUME NEW t \in Threads, gc_allowed(t) PROVE TypeOK'
  <2>1. pc' \in PcType
    BY <1>13, <1>a, <1>b, PcMoves, Zenon DEF gc_allowed
  <2>2. tag' \in Nat
    BY <1>13 DEF gc_allowed, TypeOK
  <2>3. raced' \in BOOLEAN
    BY Zenon, <1>13 DEF gc_allowed, TypeOK
  <2>4. UNCHANGED <<slackVars, metaVars, readers, collector, left, init, size, recs, oversize>>
    BY Zenon, <1>13 DEF gc_allowed
  <2>5. QED
    BY <2>1, <2>2, <2>3, <2>4, Zenon DEF TypeOK, PcType, PcValues, slackVars, metaVars
<1>14. ASSUME NEW t \in Threads, reset_untouched(t) PROVE TypeOK'
  <2>1. pc' \in PcType
    BY <1>14, <1>a, <1>b, PcMoves, Zenon DEF reset_untouched
  <2>2. UNCHANGED <<slackVars, metaVars, gcVars, init, size, recs, raced, oversize>>
    BY Zenon, <1>14 DEF reset_untouched
  <2>3. QED
    BY <2>1, <2>2, Zenon DEF TypeOK, PcType, PcValues, slackVars, gcVars, metaVars
<1>15. ASSUME NEW t \in Threads, reset_cursor(t) PROVE TypeOK'
  <2>1. pc' \in PcType
    BY <1>15, <1>a, <1>b, PcMoves, Zenon DEF reset_cursor
  <2>2. cursor' \in Nat /\ left' \subseteq Threads
    BY Zenon, <1>15 DEF reset_cursor, TypeOK
  <2>3. UNCHANGED <<ptr, remaining, known, touched, metaVars, tag, readers, collector, init, size, recs, raced, oversize>>
    BY Zenon, <1>15 DEF reset_cursor
  <2>4. QED
    BY <2>1, <2>2, <2>3, Zenon DEF TypeOK, PcType, PcValues, metaVars
<1>16. ASSUME NEW t \in Threads, reset_done(t) PROVE TypeOK'
  <2>1. pc' \in PcType
    BY <1>16, <1>a, <1>b, PcMoves, Zenon DEF reset_done
  <2>2. touched' \in BOOLEAN
    BY <1>16, Zenon DEF reset_done, TypeOK
  <2>3. UNCHANGED <<cursor, ptr, remaining, known, metaVars, gcVars, init, size, recs, raced, oversize>>
    BY Zenon, <1>16 DEF reset_done
  <2>4. QED
    BY <2>1, <2>2, <2>3, Zenon DEF TypeOK, PcType, PcValues, gcVars, metaVars
<1>17. ASSUME NEW t \in Threads, gc_release(t) PROVE TypeOK'
  <2>1. pc' \in PcType
    BY <1>17, <1>a, <1>b, PcMoves, Zenon DEF gc_release
  <2>2. collector' \in Threads \cup {NoThread}
    BY Zenon, <1>17 DEF gc_release, TypeOK
  <2>3. UNCHANGED <<slackVars, metaVars, tag, readers, left, init, size, recs, raced, oversize>>
    BY Zenon, <1>17 DEF gc_release
  <2>4. QED
    BY <2>1, <2>2, <2>3, Zenon DEF TypeOK, PcType, PcValues, slackVars, metaVars
<1>18. ASSUME NEW t \in Threads, NEW u \in Threads, reset_slack(t, u) PROVE TypeOK'
  <2>1. pc' \in PcType
    BY Zenon, <1>18, <1>a DEF reset_slack
  <2>2. remaining' \in [Threads -> Int]
    BY <1>18 DEF reset_slack, TypeOK
  <2>3. left' \subseteq Threads
    BY Zenon, <1>18 DEF reset_slack, TypeOK
  <2>4. UNCHANGED <<pc, cursor, ptr, known, touched, metaVars, tag, readers, collector, init, size, recs, raced, oversize>>
    BY Zenon, <1>18 DEF reset_slack
  <2>5. QED
    BY <2>1, <2>2, <2>3, <2>4, Zenon DEF TypeOK, PcType, PcValues, metaVars
<1>19. CASE UNCHANGED vars
  BY ZenonT(60), <1>19 DEF TypeOK, vars
<1>20. QED
  BY Zenon, <1>1, <1>2, <1>3, <1>4, <1>5, <1>6, <1>7, <1>8, <1>9, <1>10, <1>11, <1>12, <1>13,
     <1>14, <1>15, <1>16, <1>17, <1>18, <1>19, Zenon DEF Next

(* The fields of a version. *)
LEMMA RecTyped ==
  ASSUME recs \in Seq(Record)
  PROVE  \A i \in 1 .. Len(recs) : recs[i].off \in Nat /\ recs[i].size \in Nat /\ recs[i].tag \in Nat
<1>1. \A i \in 1 .. Len(recs) : recs[i] \in Record
  OBVIOUS
<1>2. QED
  BY Zenon, <1>1 DEF Record

(* Registration, collection and set-up exclude each other as Occupancy says:
   increment_reader and gc_acquire look at each other's variable, and the
   collector leaves only after it is done. *)
LEMMA OccupancyStep == TypeOK /\ Occupancy /\ [Next]_vars => Occupancy'
<1> SUFFICES ASSUME TypeOK, Occupancy, [Next]_vars PROVE Occupancy'
  BY Zenon
<1>a. pc \in PcType
  BY Zenon DEF TypeOK, PcType, PcValues
<1>b. /\ \A v \in {"meta", "pools", "refill", "carve", "filled", "out", "in", "dead"} : v \in PcValues
      /\ \A v \in {"gc", "collect", "reset", "zero", "release"} : v \in PcValues
  BY Zenon DEF PcValues, InitPc, FillPc, ResetPc
<1>c. known \subseteq Threads /\ readers \subseteq Threads /\ remaining \in [Threads -> Int]
  BY Zenon DEF TypeOK
<1>1. ASSUME NEW t \in Threads, register_meta(t) PROVE Occupancy'
  <2>1. pc[t] = "start" /\ pc'[t] = "meta" /\ \A v \in Threads : v # t => pc'[v] = pc[v]
    BY <1>1, <1>a, <1>b, PcMoves, Zenon DEF register_meta
  <2>2. UNCHANGED <<readers, collector, init, known, remaining, left>>
    BY Zenon, <1>1 DEF register_meta, slackVars, gcVars
  <2>3. QED
    BY <2>1, <2>2, <1>c, NoThreadAssumption DEF Occupancy, InitPc, FillPc, ResetPc
<1>2. ASSUME NEW t \in Threads, emplace_meta(t) PROVE Occupancy'
  <2>1. pc[t] = "meta" /\ pc'[t] = "pools" /\ \A v \in Threads : v # t => pc'[v] = pc[v]
    BY <1>2, <1>a, <1>b, PcMoves, Zenon DEF emplace_meta
  <2>2. UNCHANGED <<readers, collector, init, known, remaining, left>>
    BY Zenon, <1>2 DEF emplace_meta, slackVars, gcVars
  <2>3. QED
    BY <2>1, <2>2, <1>c, NoThreadAssumption DEF Occupancy, InitPc, FillPc, ResetPc
<1>3. ASSUME NEW t \in Threads, initSlackCache(t) PROVE Occupancy'
  <2>1. pc[t] = "pools" /\ pc'[t] = "refill" /\ \A v \in Threads : v # t => pc'[v] = pc[v]
    BY <1>3, <1>a, <1>b, PcMoves, Zenon DEF initSlackCache
  <2>2. UNCHANGED <<readers, collector, remaining, left>>
    BY Zenon, <1>3 DEF initSlackCache, gcVars
  <2>3. init = NoThread /\ init' = t /\ known' = known \cup {t}
    BY Zenon, <1>3 DEF initSlackCache
  <2>4. QED
    BY <2>1, <2>2, <2>3, <1>c, NoThreadAssumption DEF Occupancy, InitPc, FillPc, ResetPc
<1>4. ASSUME NEW t \in Threads, increment_reader(t) PROVE Occupancy'
  <2>1. pc[t] = "out" /\ pc'[t] = "in" /\ \A v \in Threads : v # t => pc'[v] = pc[v]
    BY <1>4, <1>a, <1>b, PcMoves, Zenon DEF increment_reader
  <2>2. UNCHANGED <<collector, init, known, remaining, left>>
    BY Zenon, <1>4 DEF increment_reader, slackVars
  <2>3. collector = NoThread /\ readers' = readers \cup {t}
    BY Zenon, <1>4 DEF increment_reader
  <2>4. QED
    BY <2>1, <2>2, <2>3, <1>c, NoThreadAssumption DEF Occupancy, InitPc, FillPc, ResetPc
<1>5. ASSUME NEW t \in Threads, decrement_reader(t) PROVE Occupancy'
  <2>1. pc[t] = "in" /\ pc'[t] \in {"gc", "out"} /\ \A v \in Threads : v # t => pc'[v] = pc[v]
    <3>1. CASE readers = {t}
      BY <1>5, <1>a, <1>b, <3>1, PcMoves, Zenon DEF decrement_reader
    <3>2. CASE ~(readers = {t})
      BY <1>5, <1>a, <1>b, <3>2, PcMoves, Zenon DEF decrement_reader
    <3>3. QED
      BY Zenon, <3>1, <3>2
  <2>2. UNCHANGED <<collector, init, known, remaining, left>>
    BY Zenon, <1>5 DEF decrement_reader, slackVars
  <2>3. readers' = readers \ {t}
    BY Zenon, <1>5 DEF decrement_reader
  <2>4. QED
    BY <2>1, <2>2, <2>3, <1>c, NoThreadAssumption DEF Occupancy, InitPc, FillPc, ResetPc
<1>6. ASSUME NEW t \in Threads, NEW s \in RecSizes, allocate(t, s) PROVE Occupancy'
  <2>1. pc[t] = "in" /\ pc'[t] \in {"refill", "carve"} /\ \A v \in Threads : v # t => pc'[v] = pc[v]
    <3>1. CASE s > AsSize(remaining[t])
      BY <1>6, <1>a, <1>b, <3>1, PcMoves, Zenon DEF allocate
    <3>2. CASE ~(s > AsSize(remaining[t]))
      BY <1>6, <1>a, <1>b, <3>2, PcMoves, Zenon DEF allocate
    <3>3. QED
      BY Zenon, <3>1, <3>2
  <2>2. UNCHANGED <<readers, collector, init, known, remaining, left>>
    BY Zenon, <1>6 DEF allocate, slackVars, gcVars
  <2>3. QED
    BY <2>1, <2>2, <1>c, NoThreadAssumption DEF Occupancy, InitPc, FillPc, ResetPc
<1>7. ASSUME NEW t \in Threads, fetch_add(t) PROVE Occupancy'
  <2>1. pc[t] = "refill" /\ pc'[t] = "filled" /\ \A v \in Threads : v # t => pc'[v] = pc[v]
    BY <1>7, <1>a, <1>b, PcMoves, Zenon DEF fetch_add
  <2>2. UNCHANGED <<readers, collector, init, known, remaining, left>>
    BY Zenon, <1>7 DEF fetch_add, gcVars
  <2>3. QED
    BY <2>1, <2>2, <1>c, NoThreadAssumption DEF Occupancy, InitPc, FillPc, ResetPc
<1>8. ASSUME NEW t \in Threads, assert_not_full(t) PROVE Occupancy'
  <2>1. pc[t] = "filled" /\ pc'[t] \in {"carve", "dead"} /\ \A v \in Threads : v # t => pc'[v] = pc[v]
    <3>1. CASE ptr[t] < Capacity
      BY <1>8, <1>a, <1>b, <3>1, PcMoves, Zenon DEF assert_not_full
    <3>2. CASE ~(ptr[t] < Capacity)
      BY <1>8, <1>a, <1>b, <3>2, PcMoves, Zenon DEF assert_not_full
    <3>3. QED
      BY Zenon, <3>1, <3>2
  <2>2. UNCHANGED <<readers, collector, init, known, left>>
    BY Zenon, <1>8 DEF assert_not_full, gcVars
  <2>3. \A v \in Threads : v # t => remaining'[v] = remaining[v]
    BY Zenon, <1>8, <1>c DEF assert_not_full
  <2>4. QED
    BY <2>1, <2>2, <2>3, <1>c, NoThreadAssumption DEF Occupancy, InitPc, FillPc, ResetPc
<1>9. ASSUME NEW t \in Threads, getVersionDataChunk(t) PROVE Occupancy'
  <2>1. /\ pc[t] = "carve" /\ \A v \in Threads : v # t => pc'[v] = pc[v]
        /\ init = t => pc'[t] = "out" /\ init' = NoThread
        /\ init # t => pc'[t] = "in" /\ init' = init
    <3>1. CASE init = t
      BY <1>9, <1>a, <1>b, <3>1, PcMoves, Zenon DEF getVersionDataChunk
    <3>2. CASE init # t
      BY <1>9, <1>a, <1>b, <3>2, PcMoves, Zenon DEF getVersionDataChunk
    <3>3. QED
      BY Zenon, <3>1, <3>2
  <2>2. UNCHANGED <<readers, collector, known, left>>
    BY Zenon, <1>9 DEF getVersionDataChunk, gcVars
  <2>3. \A v \in Threads : v # t => remaining'[v] = remaining[v]
    BY Zenon, <1>9, <1>c DEF getVersionDataChunk
  <2>4. QED
    BY <2>1, <2>2, <2>3, <1>c, NoThreadAssumption DEF Occupancy, InitPc, FillPc, ResetPc
<1>10. ASSUME NEW t \in Threads, gc_acquire(t) PROVE Occupancy'
  <2>1. pc[t] = "gc" /\ pc'[t] = "collect" /\ \A v \in Threads : v # t => pc'[v] = pc[v]
    BY <1>10, <1>a, <1>b, PcMoves, Zenon DEF gc_acquire
  <2>2. UNCHANGED <<readers, init, known, remaining, left>>
    BY Zenon, <1>10 DEF gc_acquire, slackVars
  <2>3. readers = {} /\ collector = NoThread /\ collector' = t
    BY Zenon, <1>10 DEF gc_acquire
  <2>4. QED
    BY <2>1, <2>2, <2>3, <1>c, NoThreadAssumption DEF Occupancy, InitPc, FillPc, ResetPc
<1>11. ASSUME NEW t \in Threads, gc_skip(t) PROVE Occupancy'
  <2>1. pc[t] = "gc" /\ pc'[t] = "out" /\ \A v \in Threads : v # t => pc'[v] = pc[v]
    BY <1>11, <1>a, <1>b, PcMoves, Zenon DEF gc_skip
  <2>2. UNCHANGED <<readers, collector, init, known, remaining, left>>
    BY Zenon, <1>11 DEF gc_skip, slackVars, gcVars
  <2>3. QED
    BY <2>1, <2>2, <1>c, NoThreadAssumption DEF Occupancy, InitPc, FillPc, ResetPc
<1>12. ASSUME NEW t \in Threads, gc_denied(t) PROVE Occupancy'
  <2>1. pc[t] = "collect" /\ pc'[t] = "release" /\ \A v \in Threads : v # t => pc'[v] = pc[v]
    BY <1>12, <1>a, <1>b, PcMoves, Zenon DEF gc_denied
  <2>2. UNCHANGED <<readers, collector, init, known, remaining, left>>
    BY Zenon, <1>12 DEF gc_denied, slackVars, gcVars
  <2>3. QED
    BY <2>1, <2>2, <1>c, NoThreadAssumption DEF Occupancy, InitPc, FillPc, ResetPc
<1>13. ASSUME NEW t \in Threads, gc_allowed(t) PROVE Occupancy'
  <2>1. pc[t] = "collect" /\ pc'[t] = "reset" /\ \A v \in Threads : v # t => pc'[v] = pc[v]
    BY <1>13, <1>a, <1>b, PcMoves, Zenon DEF gc_allowed
  <2>2. UNCHANGED <<readers, collector, init, known, remaining, left>>
    BY Zenon, <1>13 DEF gc_allowed, slackVars
  <2>3. QED
    BY <2>1, <2>2, <1>c, NoThreadAssumption DEF Occupancy, InitPc, FillPc, ResetPc
<1>14. ASSUME NEW t \in Threads, reset_untouched(t) PROVE Occupancy'
  <2>1. pc[t] = "reset" /\ pc'[t] = "release" /\ \A v \in Threads : v # t => pc'[v] = pc[v]
    BY <1>14, <1>a, <1>b, PcMoves, Zenon DEF reset_untouched
  <2>2. UNCHANGED <<readers, collector, init, known, remaining, left>>
    BY Zenon, <1>14 DEF reset_untouched, slackVars, gcVars
  <2>3. QED
    BY <2>1, <2>2, <1>c, NoThreadAssumption DEF Occupancy, InitPc, FillPc, ResetPc
<1>15. ASSUME NEW t \in Threads, reset_cursor(t) PROVE Occupancy'
  <2>1. pc[t] = "reset" /\ pc'[t] = "zero" /\ \A v \in Threads : v # t => pc'[v] = pc[v]
    BY <1>15, <1>a, <1>b, PcMoves, Zenon DEF reset_cursor
  <2>2. UNCHANGED <<readers, collector, init, known, remaining>>
    BY Zenon, <1>15 DEF reset_cursor
  <2>3. QED
    BY <2>1, <2>2, <1>c, NoThreadAssumption DEF Occupancy, InitPc, FillPc, ResetPc
<1>16. ASSUME NEW t \in Threads, reset_done(t) PROVE Occupancy'
  <2>1. pc[t] = "zero" /\ pc'[t] = "release" /\ \A v \in Threads : v # t => pc'[v] = pc[v]
    BY <1>16, <1>a, <1>b, PcMoves, Zenon DEF reset_done
  <2>2. UNCHANGED <<readers, collector, init, known, remaining, left>>
    BY Zenon, <1>16 DEF reset_done, gcVars
  <2>3. left = {}
    BY Zenon, <1>16 DEF reset_done
  <2>4. QED
    BY <2>1, <2>2, <2>3, <1>c, NoThreadAssumption DEF Occupancy, InitPc, FillPc, ResetPc
<1>17. ASSUME NEW t \in Threads, gc_release(t) PROVE Occupancy'
  <2>1. pc[t] = "release" /\ pc'[t] = "out" /\ \A v \in Threads : v # t => pc'[v] = pc[v]
    BY <1>17, <1>a, <1>b, PcMoves, Zenon DEF gc_release
  <2>2. UNCHANGED <<readers, init, known, remaining, left>>
    BY Zenon, <1>17 DEF gc_release, slackVars
  <2>3. collector' = NoThread
    BY Zenon, <1>17 DEF gc_release
  <2>4. QED
    BY <2>1, <2>2, <2>3, <1>c, NoThreadAssumption DEF Occupancy, InitPc, FillPc, ResetPc
<1>18. ASSUME NEW t \in Threads, NEW u \in Threads, reset_slack(t, u) PROVE Occupancy'
  <2>1. pc' = pc /\ pc[t] = "zero" /\ u \in left /\ left' = left \ {u}
    BY Zenon, <1>18 DEF reset_slack
  <2>2. \A v \in Threads : remaining[v] = 0 => remaining'[v] = 0
    BY Zenon, <1>18, <1>c DEF reset_slack
  <2>3. UNCHANGED <<readers, collector, init, known>>
    BY Zenon, <1>18 DEF reset_slack
  <2>4. QED
    BY Zenon, <2>1, <2>2, <2>3, <1>c, NoThreadAssumption DEF Occupancy, InitPc, FillPc, ResetPc
<1>19. CASE UNCHANGED vars
  BY Zenon, <1>19 DEF Occupancy, vars
<1>20. QED
  BY Zenon, <1>1, <1>2, <1>3, <1>4, <1>5, <1>6, <1>7, <1>8, <1>9, <1>10, <1>11, <1>12, <1>13,
     <1>14, <1>15, <1>16, <1>17, <1>18, <1>19, Zenon DEF Next

(* While the memory is reset nobody is allocating, unless a set-up raced with it. *)
LEMMA NobodyAllocates ==
  ASSUME TypeOK, Occupancy, QuietReset, ~raced, NEW t \in Threads, pc[t] \in {"reset", "zero"}
  PROVE  \A u \in Threads : pc[u] \notin FillPc
BY NoThreadAssumption, ZenonT(60) DEF TypeOK, Occupancy, QuietReset, ResetPc

(* So while somebody allocates, no slack waits to be zeroed. *)
LEMMA NothingLeft ==
  ASSUME TypeOK, Occupancy, QuietReset, ~raced, NEW t \in Threads, pc[t] \in FillPc
  PROVE  left = {}
BY Zenon, NobodyAllocates DEF Occupancy

(* A version is made only by a registered worker, so never during a reset. *)
LEMMA VersionsOutsideReset ==
  ASSUME TypeOK, Occupancy, NEW t \in Threads, getVersionDataChunk(t), recs' # recs
  PROVE  \A u \in Threads : pc[u] \notin ResetPc
BY ZenonT(60), NoThreadAssumption DEF TypeOK, Occupancy, getVersionDataChunk, FillPc, ResetPc

(* The tag is counted up before the memory is reset, and set-up and reset that
   overlap are remembered in raced. *)
LEMMA QuietResetStep ==
  TypeOK /\ Occupancy /\ QuietReset /\ TagsGrow /\ [Next]_vars => QuietReset'
<1> SUFFICES ASSUME TypeOK, Occupancy, QuietReset, TagsGrow, [Next]_vars PROVE QuietReset'
  BY Zenon
<1> USE NoThreadAssumption DEF QuietReset
<1>a. /\ pc \in [Threads -> InitPc \cup FillPc \cup ResetPc \cup {"out", "in", "gc", "dead"}]
      /\ tag \in Nat /\ raced \in BOOLEAN /\ recs \in Seq(Record)
      /\ \A i \in 1 .. Len(recs) : recs[i].tag \in Nat /\ recs[i].tag <= tag
  BY RecTyped, Zenon DEF TypeOK, TagsGrow
<1>1. ASSUME NEW t \in Threads, register_meta(t) PROVE QuietReset'
  BY Zenon, <1>1, <1>a DEF register_meta, gcVars
<1>2. ASSUME NEW t \in Threads, emplace_meta(t) PROVE QuietReset'
  BY Zenon, <1>2, <1>a DEF emplace_meta, gcVars
<1>3. ASSUME NEW t \in Threads, initSlackCache(t) PROVE QuietReset'
  BY <1>3, <1>a, Zenon DEF initSlackCache, gcVars
<1>4. ASSUME NEW t \in Threads, increment_reader(t) PROVE QuietReset'
  BY Zenon, <1>4, <1>a DEF increment_reader, gcVars
<1>5. ASSUME NEW t \in Threads, decrement_reader(t) PROVE QuietReset'
  BY Zenon, <1>5, <1>a DEF decrement_reader, gcVars
<1>6. ASSUME NEW t \in Threads, NEW s \in RecSizes, allocate(t, s) PROVE QuietReset'
  BY Zenon, <1>6, <1>a DEF allocate, gcVars
<1>7. ASSUME NEW t \in Threads, fetch_add(t) PROVE QuietReset'
  BY Zenon, <1>7, <1>a DEF fetch_add, gcVars
<1>8. ASSUME NEW t \in Threads, assert_not_full(t) PROVE QuietReset'
  BY Zenon, <1>8, <1>a DEF assert_not_full, gcVars
<1>9. ASSUME NEW t \in Threads, getVersionDataChunk(t) PROVE QuietReset'
  <2>1. CASE recs' = recs
    BY Zenon, <1>9, <1>a, <2>1 DEF getVersionDataChunk, gcVars
  <2>2. CASE recs' # recs
    <3>1. \A u \in Threads : pc[u] \notin ResetPc
      BY Zenon, <1>9, <2>2, VersionsOutsideReset
    <3>2. \A u \in Threads : pc'[u] \notin {"reset", "zero"}
      BY Zenon, <1>9, <1>a, <3>1 DEF getVersionDataChunk, ResetPc
    <3>3. QED
      BY Zenon, <3>2
  <2>3. QED
    BY Zenon, <2>1, <2>2
<1>10. ASSUME NEW t \in Threads, gc_acquire(t) PROVE QuietReset'
  BY Zenon, <1>10, <1>a DEF gc_acquire, gcVars
<1>11. ASSUME NEW t \in Threads, gc_skip(t) PROVE QuietReset'
  BY Zenon, <1>11, <1>a DEF gc_skip, gcVars
<1>12. ASSUME NEW t \in Threads, gc_denied(t) PROVE QuietReset'
  BY Zenon, <1>12, <1>a DEF gc_denied, gcVars
<1>13. ASSUME NEW t \in Threads, gc_allowed(t) PROVE QuietReset'
  <2>1. \A u \in Threads : pc'[u] \in {"reset", "zero"} => u = t
    BY Zenon, <1>13, <1>a DEF gc_allowed, Occupancy, ResetPc
  <2>2. tag' = tag + 1 /\ recs' = recs /\ init' = init /\ (~raced' => init = NoThread)
    BY <1>13, Zenon DEF gc_allowed
  <2>3. QED
    BY <1>a, <2>1, <2>2
<1>14. ASSUME NEW t \in Threads, reset_untouched(t) PROVE QuietReset'
  BY Zenon, <1>14, <1>a DEF reset_untouched, gcVars
<1>15. ASSUME NEW t \in Threads, reset_cursor(t) PROVE QuietReset'
  BY Zenon, <1>15, <1>a DEF reset_cursor, gcVars
<1>16. ASSUME NEW t \in Threads, reset_done(t) PROVE QuietReset'
  BY Zenon, <1>16, <1>a DEF reset_done, gcVars
<1>17. ASSUME NEW t \in Threads, gc_release(t) PROVE QuietReset'
  BY Zenon, <1>17, <1>a DEF gc_release, gcVars
<1>18. ASSUME NEW t \in Threads, NEW u \in Threads, reset_slack(t, u) PROVE QuietReset'
  BY Zenon, <1>18, <1>a DEF reset_slack, gcVars
<1>19. CASE UNCHANGED vars
  BY Zenon, <1>19 DEF vars
<1>20. QED
  BY Zenon, <1>1, <1>2, <1>3, <1>4, <1>5, <1>6, <1>7, <1>8, <1>9, <1>10, <1>11, <1>12, <1>13,
     <1>14, <1>15, <1>16, <1>17, <1>18, <1>19, Zenon DEF Next

(* The steps that move no slack, version, cursor or tag. *)
Quiet(t) ==
  \/ register_meta(t) \/ emplace_meta(t) \/ initSlackCache(t)
  \/ increment_reader(t) \/ decrement_reader(t) \/ \E s \in RecSizes : allocate(t, s)
  \/ gc_acquire(t) \/ gc_skip(t) \/ gc_denied(t)
  \/ reset_untouched(t) \/ reset_done(t) \/ gc_release(t)

(* They neither start nor end the check of a new slack. *)
LEMMA QuietMoves ==
  ASSUME TypeOK, NEW t \in Threads, Quiet(t)
  PROVE  /\ UNCHANGED <<cursor, ptr, remaining, left, recs, tag>>
         /\ \A u \in Threads : /\ pc'[u] = "filled" <=> pc[u] = "filled"
                               /\ pc'[u] = "dead" <=> pc[u] = "dead"
<1> DEFINE Goal == /\ UNCHANGED <<cursor, ptr, remaining, left, recs, tag>>
                   /\ \A u \in Threads : /\ pc'[u] = "filled" <=> pc[u] = "filled"
                                         /\ pc'[u] = "dead" <=> pc[u] = "dead"
<1>a. pc \in [Threads -> InitPc \cup FillPc \cup ResetPc \cup {"out", "in", "gc", "dead"}]
  BY Zenon DEF TypeOK
<1>1. ASSUME register_meta(t) PROVE Goal
  BY Zenon, <1>1, <1>a DEF register_meta, slackVars, gcVars
<1>2. ASSUME emplace_meta(t) PROVE Goal
  BY Zenon, <1>2, <1>a DEF emplace_meta, slackVars, gcVars
<1>3. ASSUME initSlackCache(t) PROVE Goal
  BY Zenon, <1>3, <1>a DEF initSlackCache, slackVars, gcVars
<1>4. ASSUME increment_reader(t) PROVE Goal
  BY Zenon, <1>4, <1>a DEF increment_reader, slackVars, gcVars
<1>5. ASSUME decrement_reader(t) PROVE Goal
  BY Zenon, <1>5, <1>a DEF decrement_reader, slackVars, gcVars
<1>6. ASSUME NEW s \in RecSizes, allocate(t, s) PROVE Goal
  BY Zenon, <1>6, <1>a DEF allocate, slackVars, gcVars
<1>7. ASSUME gc_acquire(t) PROVE Goal
  BY Zenon, <1>7, <1>a DEF gc_acquire, slackVars, gcVars
<1>8. ASSUME gc_skip(t) PROVE Goal
  BY Zenon, <1>8, <1>a DEF gc_skip, slackVars, gcVars
<1>9. ASSUME gc_denied(t) PROVE Goal
  BY Zenon, <1>9, <1>a DEF gc_denied, slackVars, gcVars
<1>10. ASSUME reset_untouched(t) PROVE Goal
  BY Zenon, <1>10, <1>a DEF reset_untouched, slackVars, gcVars
<1>11. ASSUME reset_done(t) PROVE Goal
  BY Zenon, <1>11, <1>a DEF reset_done, slackVars, gcVars
<1>12. ASSUME gc_release(t) PROVE Goal
  BY Zenon, <1>12, <1>a DEF gc_release, slackVars, gcVars
<1>13. QED
  BY <1>1, <1>2, <1>3, <1>4, <1>5, <1>6, <1>7, <1>8, <1>9, <1>10, <1>11, <1>12, Zenon DEF Quiet

(* Versions are appended with the tag of the moment, which only grows. *)
LEMMA TagsGrowStep == TypeOK /\ TagsGrow /\ [Next]_vars => TagsGrow'
<1> SUFFICES ASSUME TypeOK, TagsGrow, [Next]_vars PROVE TagsGrow'
  BY Zenon
<1> USE DEF TagsGrow
<1>a. tag \in Nat /\ recs \in Seq(Record) /\ \A i \in 1 .. Len(recs) : recs[i].tag \in Nat
  BY ZenonT(60), RecTyped DEF TypeOK
<1>1. ASSUME NEW t \in Threads, Quiet(t) PROVE TagsGrow'
  BY Zenon, <1>1, QuietMoves
<1>2. ASSUME NEW t \in Threads, fetch_add(t) PROVE TagsGrow'
  BY Zenon, <1>2 DEF fetch_add, gcVars
<1>3. ASSUME NEW t \in Threads, assert_not_full(t) PROVE TagsGrow'
  BY Zenon, <1>3 DEF assert_not_full, gcVars
<1>4. ASSUME NEW t \in Threads, getVersionDataChunk(t) PROVE TagsGrow'
  <2>1. CASE recs' = recs
    BY Zenon, <1>4, <2>1 DEF getVersionDataChunk, gcVars
  <2>2. CASE recs' # recs
    <3> DEFINE r == [off |-> ptr[t], size |-> size[t], tag |-> tag]
    <3>1. recs' = Append(recs, r) /\ tag' = tag
      BY Zenon, <1>4, <2>2 DEF getVersionDataChunk, gcVars
    <3>2. /\ Len(recs') = Len(recs) + 1 /\ recs'[Len(recs) + 1] = r
          /\ \A i \in 1 .. Len(recs) : recs'[i] = recs[i]
      BY <3>1, <1>a
    <3>3. r.tag = tag
      BY Zenon
    <3> HIDE DEF r
    <3>4. QED
      BY <1>a, <3>1, <3>2, <3>3
  <2>3. QED
    BY Zenon, <2>1, <2>2
<1>5. ASSUME NEW t \in Threads, gc_allowed(t) PROVE TagsGrow'
  BY <1>5, <1>a DEF gc_allowed
<1>6. ASSUME NEW t \in Threads, reset_cursor(t) PROVE TagsGrow'
  BY Zenon, <1>6 DEF reset_cursor, gcVars
<1>7. ASSUME NEW t \in Threads, NEW u \in Threads, reset_slack(t, u) PROVE TagsGrow'
  BY Zenon, <1>7 DEF reset_slack, gcVars
<1>8. CASE UNCHANGED vars
  BY Zenon, <1>8 DEF vars
<1>9. QED
  BY <1>1, <1>2, <1>3, <1>4, <1>5, <1>6, <1>7, <1>8, ZenonT(60) DEF Next, Quiet

-----------------------------------------------------------------------------
(* Slacks and versions apart from each other *)

(* What a thread allocates fits its slack, and the slack never becomes negative:
   only a version larger than a slack could do that. *)
LEMMA SizesFitStep ==
  ASSUME TypeOK, Occupancy, QuietReset, Clean, SizesFit, [Next]_vars, Clean'
  PROVE  SizesFit'
<1> USE DEF SizesFit
<1>a. /\ pc \in [Threads -> InitPc \cup FillPc \cup ResetPc \cup {"out", "in", "gc", "dead"}]
      /\ remaining \in [Threads -> Int] /\ size \in [Threads -> Nat]
      /\ SlackSize \in Nat \ {0} /\ InitSize \in 1 .. SlackSize /\ RecSizes \subseteq Nat \ {0}
  BY Zenon, DeltaMemoryAssumption DEF TypeOK
<1>1. ASSUME NEW t \in Threads, register_meta(t) PROVE SizesFit'
  BY Zenon, <1>1, <1>a DEF register_meta, slackVars, FillPc
<1>2. ASSUME NEW t \in Threads, emplace_meta(t) PROVE SizesFit'
  BY Zenon, <1>2, <1>a DEF emplace_meta, slackVars, FillPc
<1>3. ASSUME NEW t \in Threads, initSlackCache(t) PROVE SizesFit'
  BY Zenon, <1>3, <1>a DEF initSlackCache, slackVars, FillPc
<1>4. ASSUME NEW t \in Threads, increment_reader(t) PROVE SizesFit'
  BY Zenon, <1>4, <1>a DEF increment_reader, slackVars, FillPc
<1>5. ASSUME NEW t \in Threads, decrement_reader(t) PROVE SizesFit'
  BY Zenon, <1>5, <1>a DEF decrement_reader, slackVars, FillPc
<1>6. ASSUME NEW t \in Threads, NEW s \in RecSizes, allocate(t, s) PROVE SizesFit'
  <2>1. AsSize(remaining[t]) = remaining[t]
    BY Zenon, <1>a DEF AsSize
  <2>2. s <= SlackSize
    <3>1. ~oversize'
      BY Zenon DEF Clean
    <3>2. oversize' <=> (oversize \/ s > SlackSize)
      BY <1>6, ZenonT(60) DEF allocate
    <3>3. QED
      BY <1>a, <3>1, <3>2
  <2>3. QED
    BY <1>6, <1>a, <2>1, <2>2 DEF allocate, slackVars, FillPc
<1>7. ASSUME NEW t \in Threads, fetch_add(t) PROVE SizesFit'
  BY Zenon, <1>7, <1>a DEF fetch_add, slackVars, FillPc
<1>8. ASSUME NEW t \in Threads, assert_not_full(t) PROVE SizesFit'
  BY <1>8, <1>a DEF assert_not_full, slackVars, FillPc
<1>9. ASSUME NEW t \in Threads, getVersionDataChunk(t) PROVE SizesFit'
  BY <1>9, <1>a DEF getVersionDataChunk, slackVars, FillPc
<1>10. ASSUME NEW t \in Threads, gc_acquire(t) PROVE SizesFit'
  BY Zenon, <1>10, <1>a DEF gc_acquire, slackVars, FillPc
<1>11. ASSUME NEW t \in Threads, gc_skip(t) PROVE SizesFit'
  BY Zenon, <1>11, <1>a DEF gc_skip, slackVars, FillPc
<1>12. ASSUME NEW t \in Threads, gc_denied(t) PROVE SizesFit'
  BY Zenon, <1>12, <1>a DEF gc_denied, slackVars, FillPc
<1>13. ASSUME NEW t \in Threads, gc_allowed(t) PROVE SizesFit'
  BY Zenon, <1>13, <1>a DEF gc_allowed, slackVars, FillPc
<1>14. ASSUME NEW t \in Threads, reset_untouched(t) PROVE SizesFit'
  BY Zenon, <1>14, <1>a DEF reset_untouched, slackVars, FillPc
<1>15. ASSUME NEW t \in Threads, reset_cursor(t) PROVE SizesFit'
  BY Zenon, <1>15, <1>a DEF reset_cursor, slackVars, FillPc
<1>16. ASSUME NEW t \in Threads, reset_done(t) PROVE SizesFit'
  BY Zenon, <1>16, <1>a DEF reset_done, slackVars, FillPc
<1>17. ASSUME NEW t \in Threads, gc_release(t) PROVE SizesFit'
  BY Zenon, <1>17, <1>a DEF gc_release, slackVars, FillPc
<1>18. ASSUME NEW t \in Threads, NEW u \in Threads, reset_slack(t, u) PROVE SizesFit'
  <2>1. \A v \in Threads : pc[v] \notin FillPc
    BY Zenon, <1>18, NobodyAllocates DEF reset_slack, Clean
  <2>2. QED
    BY <1>18, <1>a, <2>1 DEF reset_slack, FillPc
<1>19. CASE UNCHANGED vars
  BY Zenon, <1>19 DEF vars
<1>20. QED
  BY Zenon, <1>1, <1>2, <1>3, <1>4, <1>5, <1>6, <1>7, <1>8, <1>9, <1>10, <1>11, <1>12, <1>13,
     <1>14, <1>15, <1>16, <1>17, <1>18, <1>19, Zenon DEF Next

(* How slack and versions lie in memory. *)
Apart == SlackBelowCursor /\ SlackApart /\ CurrentVersionsApart /\ SameTagApart

(* Steps that move no slack, version, cursor or tag keep them apart. *)
LEMMA ApartUnmoved ==
  ASSUME Apart, UNCHANGED <<cursor, ptr, left, recs, tag>>,
         \A u \in Threads : Slack(u)' = Slack(u)
  PROVE  Apart'
<1>1. SlackBelowCursor'
  BY Zenon DEF Apart, SlackBelowCursor
<1>2. SlackApart'
  BY DEF Apart, SlackApart, Overlap
<1>3. CurrentVersionsApart'
  BY Zenon DEF Apart, CurrentVersionsApart, Overlap
<1>4. SameTagApart'
  BY Zenon DEF Apart, SameTagApart, Overlap
<1>5. QED
  BY Zenon, <1>1, <1>2, <1>3, <1>4 DEF Apart

(* fetch_add: the new slack starts where all others, and all versions, end. *)
LEMMA ApartFetchAdd ==
  ASSUME TypeOK, Occupancy, QuietReset, Clean, SizesFit, Apart, NEW t \in Threads, fetch_add(t)
  PROVE  Apart'
<1>a. /\ pc \in [Threads -> InitPc \cup FillPc \cup ResetPc \cup {"out", "in", "gc", "dead"}]
      /\ remaining \in [Threads -> Int] /\ ptr \in [Threads -> Nat] /\ cursor \in Nat
      /\ SlackSize \in Nat \ {0}
  BY ZenonT(60), DeltaMemoryAssumption DEF TypeOK
<1>b. \A i \in 1 .. Len(recs) : recs[i].off \in Nat /\ recs[i].size \in Nat /\ recs[i].tag \in Nat
  BY Zenon, RecTyped DEF TypeOK
<1>1. left = {} /\ left' = {}
  BY Zenon, NothingLeft DEF fetch_add, FillPc, Clean, gcVars
<1>2. UNCHANGED <<recs, tag>> /\ cursor' = cursor + SlackSize
  BY Zenon DEF fetch_add, gcVars
<1>3. Slack(t)' = SlackSize /\ ptr'[t] = cursor
  BY Zenon, <1>a DEF fetch_add, Slack
<1>4. \A u \in Threads : u # t => Slack(u)' = Slack(u) /\ ptr'[u] = ptr[u]
  BY Zenon, <1>a DEF fetch_add, Slack
<1>5. \A u \in Threads : Slack(u) \in Int /\ (Slack(u) > 0 => ptr[u] + Slack(u) <= cursor)
  BY <1>a, <1>1 DEF Apart, SlackBelowCursor, Slack
<1>6. SlackBelowCursor'
  BY <1>a, <1>1, <1>2, <1>3, <1>4, <1>5 DEF SlackBelowCursor
<1>7. SlackApart'
  BY <1>a, <1>1, <1>2, <1>3, <1>4, <1>5 DEF Apart, SlackApart, Overlap
<1>8. CurrentVersionsApart'
  <2> SUFFICES ASSUME NEW i \in 1 .. Len(recs), recs[i].tag = tag
               PROVE  /\ recs[i].off + recs[i].size <= cursor'
                      /\ \A u \in Threads : Slack(u)' > 0 =>
                           ~Overlap(recs[i].off, recs[i].size, ptr'[u], Slack(u)')
    BY ZenonT(60), <1>1, <1>2 DEF CurrentVersionsApart, Overlap
  <2>1. /\ recs[i].off + recs[i].size <= cursor
        /\ \A u \in Threads : Slack(u) > 0 =>
             ~Overlap(recs[i].off, recs[i].size, ptr[u], Slack(u))
    BY Zenon, <1>1 DEF Apart, CurrentVersionsApart
  <2>2. ~Overlap(recs[i].off, recs[i].size, cursor, SlackSize)
    BY <1>a, <1>b, <2>1 DEF Overlap
  <2>3. recs[i].off + recs[i].size <= cursor'
    <3>1. recs[i].off \in Nat /\ recs[i].size \in Nat
      BY Zenon, <1>b
    <3>2. cursor \in Nat /\ SlackSize \in Nat /\ cursor' = cursor + SlackSize
      BY Zenon, <1>a, <1>2
    <3>3. QED
      BY <3>1, <3>2, <2>1
  <2>4. QED
    BY Zenon, <1>3, <1>4, <2>1, <2>2, <2>3
<1>9. SameTagApart'
  BY Zenon, <1>2 DEF Apart, SameTagApart, Overlap
<1>10. QED
  BY Zenon, <1>6, <1>7, <1>8, <1>9 DEF Apart

(* The carving of a version: it takes the front of the thread's own slack. *)
LEMMA ApartCarve ==
  ASSUME TypeOK, Occupancy, QuietReset, Clean, SizesFit, Apart,
         NEW t \in Threads, getVersionDataChunk(t)
  PROVE  Apart'
<1> DEFINE s == size[t]
           p == ptr[t]
           n == remaining[t]
           r == [off |-> p, size |-> s, tag |-> tag]
<1>a. /\ pc \in [Threads -> InitPc \cup FillPc \cup ResetPc \cup {"out", "in", "gc", "dead"}]
      /\ remaining \in [Threads -> Int] /\ ptr \in [Threads -> Nat] /\ cursor \in Nat
      /\ tag \in Nat /\ recs \in Seq(Record)
  BY Zenon DEF TypeOK
<1>b. \A i \in 1 .. Len(recs) : recs[i].off \in Nat /\ recs[i].size \in Nat /\ recs[i].tag \in Nat
  BY Zenon, RecTyped DEF TypeOK
<1>c. p \in Nat /\ n \in Int /\ s \in Nat /\ s > 0 /\ s <= n
  BY <1>a DEF TypeOK, SizesFit, getVersionDataChunk, FillPc
<1>1. left = {} /\ left' = {}
  BY Zenon, NothingLeft DEF getVersionDataChunk, FillPc, Clean, gcVars
<1>2. tag' = tag /\ cursor' = cursor
  BY Zenon DEF getVersionDataChunk, gcVars
<1>3. Slack(t) = n /\ Slack(t)' = n - s /\ ptr'[t] = p + s
  BY Zenon, <1>a DEF getVersionDataChunk, Slack
<1>4. \A u \in Threads : u # t => Slack(u)' = Slack(u) /\ ptr'[u] = ptr[u]
  BY Zenon, <1>a DEF getVersionDataChunk, Slack
<1>5. \A u \in Threads : /\ Slack(u) \in Int /\ ptr[u] \in Nat
                         /\ Slack(u) > 0 => ptr[u] + Slack(u) <= cursor
  BY <1>a, <1>1, DeltaMemoryAssumption DEF Apart, SlackBelowCursor, Slack
<1>6. \A u \in Threads : u # t /\ Slack(u) > 0 => ~Overlap(p, n, ptr[u], Slack(u))
  BY <1>1, <1>3, <1>c DEF Apart, SlackApart
<1>7. \A i \in 1 .. Len(recs) : recs[i].tag = tag =>
        /\ recs[i].off + recs[i].size <= cursor
        /\ \A u \in Threads : Slack(u) > 0 => ~Overlap(recs[i].off, recs[i].size, ptr[u], Slack(u))
  BY Zenon, <1>1 DEF Apart, CurrentVersionsApart
<1>d. p = ptr[t] /\ n > 0 /\ p + n <= cursor
  BY <1>c, <1>3, <1>5
<1> HIDE DEF s, p, n
<1>8. SlackBelowCursor'
  <2> SUFFICES ASSUME NEW u \in Threads, Slack(u)' > 0 PROVE ptr'[u] + Slack(u)' <= cursor
    BY Zenon, <1>2 DEF SlackBelowCursor
  <2>1. CASE u = t
    <3>1. ptr'[u] = p + s /\ Slack(u)' = n - s
      BY Zenon, <2>1, <1>3
    <3>2. QED
      BY <3>1, <1>a, <1>c, <1>d
  <2>2. CASE u # t
    BY Zenon, <2>2, <1>4, <1>5
  <2>3. QED
    BY Zenon, <2>1, <2>2
<1>9. SlackApart'
  <2> SUFFICES ASSUME NEW u \in Threads, NEW v \in Threads, u # v, Slack(u)' > 0, Slack(v)' > 0
               PROVE  ~Overlap(ptr'[u], Slack(u)', ptr'[v], Slack(v)')
    BY Zenon DEF SlackApart, Overlap
  <2>1. CASE u = t
    BY <2>1, <1>c, <1>3, <1>4, <1>5, <1>6 DEF Overlap
  <2>2. CASE v = t
    BY <2>2, <1>c, <1>3, <1>4, <1>5, <1>6 DEF Overlap
  <2>3. CASE u # t /\ v # t
    BY Zenon, <2>3, <1>1, <1>4 DEF Apart, SlackApart
  <2>4. QED
    BY Zenon, <2>1, <2>2, <2>3
<1>10. \A i \in 1 .. Len(recs) : recs[i].tag = tag =>
         \A u \in Threads : Slack(u)' > 0 =>
           ~Overlap(recs[i].off, recs[i].size, ptr'[u], Slack(u)')
  <2> SUFFICES ASSUME NEW i \in 1 .. Len(recs), recs[i].tag = tag, NEW u \in Threads, Slack(u)' > 0
               PROVE  ~Overlap(recs[i].off, recs[i].size, ptr'[u], Slack(u)')
    BY Zenon
  <2>1. CASE u = t
    <3>1. ~Overlap(recs[i].off, recs[i].size, p, n)
      BY Zenon, <1>d, <1>3, <1>7
    <3>2. ptr'[u] = p + s /\ Slack(u)' = n - s
      BY Zenon, <2>1, <1>3
    <3>3. QED
      BY <3>1, <3>2, <1>b, <1>c DEF Overlap
  <2>2. CASE u # t
    BY ZenonT(60), <2>2, <1>4, <1>7
  <2>3. QED
    BY Zenon, <2>1, <2>2
<1>11. CASE recs' = recs
  <2>1. CurrentVersionsApart'
    BY Zenon, <1>11, <1>1, <1>2, <1>7, <1>10 DEF CurrentVersionsApart, Overlap
  <2>2. SameTagApart'
    BY Zenon, <1>11 DEF Apart, SameTagApart, Overlap
  <2>3. QED
    BY Zenon, <1>8, <1>9, <2>1, <2>2 DEF Apart
<1>12. CASE recs' # recs
  <2>1. recs' = Append(recs, r)
    BY ZenonT(60), <1>12 DEF getVersionDataChunk, s, p
  <2>2. /\ Len(recs') = Len(recs) + 1 /\ recs'[Len(recs) + 1] = r
        /\ \A i \in 1 .. Len(recs) : recs'[i] = recs[i]
    BY <2>1, <1>a
  <2>3. r.off = p /\ r.size = s /\ r.tag = tag
    BY Zenon
  <2> HIDE DEF r
  <2>4. \A u \in Threads : Slack(u)' > 0 => ~Overlap(p, s, ptr'[u], Slack(u)')
    <3> SUFFICES ASSUME NEW u \in Threads, Slack(u)' > 0 PROVE ~Overlap(p, s, ptr'[u], Slack(u)')
      BY Zenon
    <3>1. CASE u = t
      BY <3>1, <1>c, <1>3 DEF Overlap
    <3>2. CASE u # t
      BY <3>2, <1>c, <1>4, <1>5, <1>6 DEF Overlap
    <3>3. QED
      BY Zenon, <3>1, <3>2
  <2>5. p + s <= cursor
    BY <1>a, <1>c, <1>d
  <2>6. CurrentVersionsApart'
    <3> SUFFICES ASSUME NEW i \in 1 .. Len(recs'), recs'[i].tag = tag'
                 PROVE  /\ recs'[i].off + recs'[i].size <= cursor'
                        /\ \A u \in Threads \ left' : Slack(u)' > 0 =>
                             ~Overlap(recs'[i].off, recs'[i].size, ptr'[u], Slack(u)')
      BY Zenon DEF CurrentVersionsApart, Overlap
    <3>1. CASE i = Len(recs) + 1
      BY Zenon, <3>1, <1>2, <2>2, <2>3, <2>4, <2>5
    <3>2. CASE i # Len(recs) + 1
      <4>1. i \in 1 .. Len(recs) /\ recs'[i] = recs[i]
        BY <3>2, <2>2, <1>a
      <4>2. QED
        BY ZenonT(60), <4>1, <1>2, <1>7, <1>10
    <3>3. QED
      BY Zenon, <3>1, <3>2
  <2>7. SameTagApart'
    <3> SUFFICES ASSUME NEW i \in 1 .. Len(recs'), NEW j \in 1 .. Len(recs'), i < j,
                        recs'[i].tag = recs'[j].tag
                 PROVE  ~Overlap(recs'[i].off, recs'[i].size, recs'[j].off, recs'[j].size)
      BY Zenon DEF SameTagApart, Overlap
    <3>1. i \in 1 .. Len(recs) /\ recs'[i] = recs[i]
      BY <2>2, <1>a
    <3>2. CASE j = Len(recs) + 1
      <4>1. recs[i].tag = tag /\ recs'[j] = r
        BY Zenon, <3>1, <3>2, <2>2, <2>3
      <4>2. ~Overlap(recs[i].off, recs[i].size, p, n)
        BY Zenon, <3>1, <4>1, <1>d, <1>3, <1>7
      <4>3. QED
        BY <3>1, <4>1, <4>2, <2>3, <1>b, <1>c DEF Overlap
    <3>3. CASE j # Len(recs) + 1
      <4>1. Len(recs) \in Nat /\ Len(recs') = Len(recs) + 1
        BY <2>2, <1>a
      <4>2. j \in 1 .. Len(recs)
        BY <3>3, <4>1
      <4>3. recs'[j] = recs[j]
        BY Zenon, <4>2, <2>2
      <4>4. QED
        BY Zenon, <3>1, <4>2, <4>3 DEF Apart, SameTagApart
    <3>4. QED
      BY Zenon, <3>2, <3>3
  <2>8. QED
    BY Zenon, <1>8, <1>9, <2>6, <2>7 DEF Apart
<1>13. QED
  BY Zenon, <1>11, <1>12

(* No step of the allocator or the collector brings slack and versions together. *)
LEMMA ApartStep ==
  ASSUME TypeOK, Occupancy, QuietReset, TagsGrow, Clean, SizesFit, Apart, [Next]_vars, Clean'
  PROVE  Apart'
<1>a. /\ pc \in [Threads -> InitPc \cup FillPc \cup ResetPc \cup {"out", "in", "gc", "dead"}]
      /\ remaining \in [Threads -> Int] /\ tag \in Nat /\ recs \in Seq(Record)
      /\ SlackSize \in Nat \ {0}
  BY Zenon, DeltaMemoryAssumption DEF TypeOK
<1>b. \A i \in 1 .. Len(recs) : recs[i].off \in Nat /\ recs[i].size \in Nat /\ recs[i].tag \in Nat
  BY Zenon, RecTyped DEF TypeOK
<1>1. ASSUME NEW t \in Threads, Quiet(t) PROVE Apart'
  <2>1. \A u \in Threads : Slack(u)' = Slack(u)
    BY Zenon, <1>1, QuietMoves DEF Slack
  <2>2. QED
    BY Zenon, <1>1, <2>1, QuietMoves, ApartUnmoved
<1>2. ASSUME NEW t \in Threads, fetch_add(t) PROVE Apart'
  BY Zenon, <1>2, ApartFetchAdd
<1>3. ASSUME NEW t \in Threads, assert_not_full(t) PROVE Apart'
  <2>1. UNCHANGED <<cursor, ptr, left, recs, tag>>
    BY Zenon, <1>3 DEF assert_not_full, slackVars, gcVars
  <2>2. \A u \in Threads : Slack(u)' = Slack(u)
    BY Zenon, <1>3, <1>a DEF assert_not_full, slackVars, Slack
  <2>3. QED
    BY Zenon, <2>1, <2>2, ApartUnmoved
<1>4. ASSUME NEW t \in Threads, getVersionDataChunk(t) PROVE Apart'
  BY Zenon, <1>4, ApartCarve
<1>5. ASSUME NEW t \in Threads, gc_allowed(t) PROVE Apart'
  <2>1. UNCHANGED <<cursor, ptr, left, recs>> /\ tag' = tag + 1
    BY Zenon, <1>5 DEF gc_allowed, slackVars
  <2>2. \A u \in Threads : Slack(u)' = Slack(u)
    BY Zenon, <1>5, <1>a DEF gc_allowed, slackVars, Slack
  <2>3. \A i \in 1 .. Len(recs) : recs'[i].tag # tag'
    BY <1>a, <1>b, <2>1 DEF TagsGrow
  <2>4. CurrentVersionsApart'
    BY Zenon, <2>1, <2>3 DEF CurrentVersionsApart
  <2>5. SlackBelowCursor'
    BY Zenon, <2>1, <2>2 DEF Apart, SlackBelowCursor
  <2>6. SlackApart'
    BY Zenon, <2>1, <2>2 DEF Apart, SlackApart, Overlap
  <2>7. SameTagApart'
    BY Zenon, <2>1 DEF Apart, SameTagApart, Overlap
  <2>8. QED
    BY Zenon, <2>4, <2>5, <2>6, <2>7 DEF Apart
<1>6. ASSUME NEW t \in Threads, reset_cursor(t) PROVE Apart'
  <2>1. left' = known /\ UNCHANGED <<recs, tag>>
    BY Zenon, <1>6 DEF reset_cursor
  <2>2. \A u \in Threads \ left' : Slack(u)' = 0
    BY Zenon, <1>6, <1>a, <2>1 DEF reset_cursor, Slack, Occupancy, InitPc
  <2>q. \A i \in 1 .. Len(recs) : recs[i].tag < tag
    BY Zenon, <1>6 DEF reset_cursor, QuietReset
  <2>3. \A i \in 1 .. Len(recs) : recs'[i].tag # tag'
    BY <1>a, <1>b, <2>1, <2>q
  <2>4. CurrentVersionsApart'
    BY Zenon, <2>1, <2>3 DEF CurrentVersionsApart
  <2>5. SlackBelowCursor'
    BY <2>2 DEF SlackBelowCursor
  <2>6. SlackApart'
    BY <2>2 DEF SlackApart
  <2>7. SameTagApart'
    BY Zenon, <2>1 DEF Apart, SameTagApart, Overlap
  <2>8. QED
    BY Zenon, <2>4, <2>5, <2>6, <2>7 DEF Apart
<1>7. ASSUME NEW t \in Threads, NEW u \in Threads, reset_slack(t, u) PROVE Apart'
  <2>1. left' = left \ {u} /\ UNCHANGED <<cursor, ptr, recs, tag>>
    BY Zenon, <1>7 DEF reset_slack
  <2>2. pc[u] \notin FillPc
    BY Zenon, <1>7, NobodyAllocates DEF reset_slack, Clean
  <2>3. Slack(u)' = 0
    BY Zenon, <1>7, <1>a, <2>2 DEF reset_slack, Slack, FillPc
  <2>4. \A v \in Threads : v # u => Slack(v)' = Slack(v)
    BY Zenon, <1>7, <1>a DEF reset_slack, Slack
  <2>5. \A v \in Threads \ left' : Slack(v)' > 0 => v \notin left /\ v # u
    BY <2>1, <2>3
  <2>6. SlackBelowCursor'
    BY Zenon, <2>1, <2>4, <2>5 DEF Apart, SlackBelowCursor
  <2>7. SlackApart'
    BY ZenonT(60), <2>1, <2>4, <2>5 DEF Apart, SlackApart, Overlap
  <2>8. CurrentVersionsApart'
    BY ZenonT(60), <2>1, <2>4, <2>5 DEF Apart, CurrentVersionsApart, Overlap
  <2>9. SameTagApart'
    BY Zenon, <2>1 DEF Apart, SameTagApart, Overlap
  <2>10. QED
    BY Zenon, <2>6, <2>7, <2>8, <2>9 DEF Apart
<1>8. CASE UNCHANGED vars
  <2>1. \A u \in Threads : Slack(u)' = Slack(u)
    BY Zenon, <1>8 DEF vars, Slack
  <2>2. QED
    BY ZenonT(60), <1>8, <2>1, ApartUnmoved DEF vars
<1>9. QED
  BY <1>1, <1>2, <1>3, <1>4, <1>5, <1>6, <1>7, <1>8, ZenonT(60) DEF Next, Quiet

-----------------------------------------------------------------------------
(* The inductive invariant and what follows from it *)

(* Multiples of n are n apart. *)
LEMMA MultiplesApart ==
  ASSUME NEW n \in Nat \ {0}, NEW x \in Int, NEW y \in Int, x < y
  PROVE  n * x + n <= n * y
<1>1. y - x - 1 \in Nat /\ y = x + 1 + (y - x - 1)
  OBVIOUS
<1>2. n * (y - x - 1) >= 0
  BY <1>1, SMT
<1>3. n * y = n * x + n + n * (y - x - 1)
  BY SMT
<1>4. QED
  BY <1>2, <1>3, SMT

(* Quotient and remainder. *)
LEMMA DivMod ==
  ASSUME NEW a \in Nat, NEW n \in Nat \ {0}
  PROVE  a \div n \in Nat /\ a % n \in 0 .. n - 1 /\ a = n * (a \div n) + (a % n)
BY SMT

(* Tags that differ by less than the width stay different when cut to it. *)
LEMMA ModApart ==
  ASSUME NEW a \in Nat, NEW b \in Nat, NEW n \in Nat \ {0}, b < a, a - b < n
  PROVE  a % n # b % n
<1> SUFFICES ASSUME a % n = b % n PROVE FALSE
  BY Zenon
<1>1. PICK x \in Nat : a = n * x + (a % n)
  BY DivMod, Zenon
<1>2. PICK y \in Nat : b = n * y + (b % n)
  BY DivMod, Zenon
<1>3. a % n \in Nat
  BY DivMod
<1>4. y < x
  <2>1. CASE x < y
    BY <2>1, <1>1, <1>2, <1>3, MultiplesApart
  <2>2. CASE x = y
    BY <2>2, <1>1, <1>2, <1>3
  <2>3. QED
    BY <2>1, <2>2
<1>5. n * y + n <= n * x
  BY <1>4, MultiplesApart
<1>6. QED
  BY <1>1, <1>2, <1>3, <1>5

(* The multiple of n after a is a + n ... *)
LEMMA NextMultiple ==
  ASSUME NEW a \in Nat, NEW b \in Nat, NEW n \in Nat \ {0}, a % n = 0, b % n = 0, a < b
  PROVE  a + n <= b
<1>1. CASE b - a < n
  BY <1>1, ModApart, Zenon
<1>2. QED
  BY <1>1

(* ... and is one. *)
LEMMA MultiplePlus ==
  ASSUME NEW a \in Nat, NEW n \in Nat \ {0}, a % n = 0
  PROVE  (a + n) % n = 0
<1>a. PICK x \in Nat : a = n * x + (a % n)
  BY DivMod, Zenon
<1>1. a = n * x
  BY <1>a
<1>b. a + n \in Nat
  OBVIOUS
<1>2. PICK y \in Nat : a + n = n * y + ((a + n) % n)
  BY <1>b, DivMod, Zenon
<1>3. (a + n) % n \in 0 .. n - 1
  BY Zenon, <1>b, DivMod
<1>4. n * (x + 1) = n * x + n
  BY SMT
<1>5. CASE y < x + 1
  <2>1. n * y + n <= n * (x + 1)
    BY <1>5, MultiplesApart
  <2>2. QED
    BY <2>1, <1>1, <1>2, <1>3, <1>4
<1>6. CASE x + 1 < y
  <2>1. n * (x + 1) + n <= n * y
    BY <1>6, MultiplesApart
  <2>2. QED
    BY <2>1, <1>1, <1>2, <1>3, <1>4
<1>7. CASE y = x + 1
  BY <1>7, <1>1, <1>2, <1>3, <1>4
<1>8. QED
  BY <1>5, <1>6, <1>7

(* With a capacity of whole slacks the assertion on a slack's first byte is enough
   to keep the slack, and what is carved out of it, in memory. *)
LEMMA InMemoryStep ==
  ASSUME TypeOK, Occupancy, QuietReset, Clean, SizesFit, InMemory, [Next]_vars, Clean',
         Capacity % SlackSize = 0
  PROVE  InMemory'
<1>a. /\ pc \in [Threads -> InitPc \cup FillPc \cup ResetPc \cup {"out", "in", "gc", "dead"}]
      /\ remaining \in [Threads -> Int] /\ ptr \in [Threads -> Nat] /\ size \in [Threads -> Nat]
      /\ cursor \in Nat /\ recs \in Seq(Record)
      /\ SlackSize \in Nat \ {0} /\ Capacity \in Nat \ {0}
  BY Zenon, DeltaMemoryAssumption DEF TypeOK
<1>b. \A i \in 1 .. Len(recs) : recs[i].off \in Nat /\ recs[i].size \in Nat
  BY Zenon, RecTyped DEF TypeOK
<1>1. ASSUME NEW t \in Threads, Quiet(t) PROVE InMemory'
  BY Zenon, <1>1, QuietMoves DEF InMemory
<1>2. ASSUME NEW t \in Threads, fetch_add(t) PROVE InMemory'
  <2>1. cursor' % SlackSize = 0
    BY <1>2, <1>a, MultiplePlus, Zenon DEF fetch_add, InMemory
  <2>2. QED
    BY Zenon, <1>2, <1>a, <2>1 DEF fetch_add, InMemory
<1>3. ASSUME NEW t \in Threads, assert_not_full(t) PROVE InMemory'
  <2>1. ptr[t] < Capacity => ptr[t] + SlackSize <= Capacity
    BY Zenon, <1>3, <1>a, NextMultiple DEF assert_not_full, InMemory
  <2>2. QED
    BY Zenon, <1>3, <1>a, <2>1 DEF assert_not_full, InMemory
<1>4. ASSUME NEW t \in Threads, getVersionDataChunk(t) PROVE InMemory'
  <2>1. /\ size[t] > 0 /\ size[t] <= remaining[t]
        /\ ptr[t] + remaining[t] <= Capacity
    <3>1. pc[t] = "carve"
      BY Zenon, <1>4 DEF getVersionDataChunk
    <3>2. size[t] > 0 /\ size[t] <= remaining[t]
      BY <3>1, <1>a DEF SizesFit, FillPc
    <3>3. remaining[t] > 0
      BY <3>2, <1>a
    <3>4. QED
      BY Zenon, <3>1, <3>2, <3>3 DEF InMemory
  <2>2. cursor' % SlackSize = 0
    BY ZenonT(60), <1>4 DEF getVersionDataChunk, InMemory
  <2>3. \A u \in Threads :
          /\ pc'[u] = "filled" => ptr'[u] % SlackSize = 0
          /\ pc'[u] \notin {"filled", "dead"} /\ remaining'[u] > 0 =>
               ptr'[u] + remaining'[u] <= Capacity
    <3>1. /\ pc'[t] \in {"out", "in"}
          /\ ptr'[t] = ptr[t] + size[t] /\ remaining'[t] = remaining[t] - size[t]
      BY Zenon, <1>4, <1>a DEF getVersionDataChunk
    <3>2. ptr'[t] + remaining'[t] <= Capacity
      BY <3>1, <1>a, <2>1
    <3>3. ASSUME NEW u \in Threads, u # t
          PROVE  pc'[u] = pc[u] /\ ptr'[u] = ptr[u] /\ remaining'[u] = remaining[u]
      BY Zenon, <1>4, <1>a, <3>3 DEF getVersionDataChunk
    <3>4. QED
      BY Zenon, <3>1, <3>2, <3>3 DEF InMemory
  <2>4. \A i \in 1 .. Len(recs') : recs'[i].off + recs'[i].size <= Capacity
    <3>1. CASE recs' = recs
      BY Zenon, <3>1 DEF InMemory
    <3>2. CASE recs' # recs
      <4> DEFINE r == [off |-> ptr[t], size |-> size[t], tag |-> tag]
      <4>1. recs' = Append(recs, r)
        BY ZenonT(60), <1>4, <3>2 DEF getVersionDataChunk
      <4>2. /\ Len(recs') = Len(recs) + 1 /\ recs'[Len(recs) + 1] = r
            /\ \A i \in 1 .. Len(recs) : recs'[i] = recs[i]
        BY <4>1, <1>a
      <4>3. r.off + r.size <= Capacity
        BY <1>a, <2>1
      <4> HIDE DEF r
      <4>4. SUFFICES ASSUME NEW i \in 1 .. Len(recs') PROVE recs'[i].off + recs'[i].size <= Capacity
        BY Zenon
      <4>5. CASE i = Len(recs) + 1
        BY ZenonT(60), <4>2, <4>3, <4>5
      <4>6. CASE i # Len(recs) + 1
        <5>1. Len(recs) \in Nat
          BY <1>a
        <5>2. i \in 1 .. Len(recs)
          BY <4>2, <4>6, <5>1
        <5>3. QED
          BY Zenon, <4>2, <5>2 DEF InMemory
      <4>7. QED
        BY Zenon, <4>5, <4>6
    <3>3. QED
      BY Zenon, <3>1, <3>2
  <2>5. QED
    BY ZenonT(60), <2>2, <2>3, <2>4 DEF InMemory
<1>5. ASSUME NEW t \in Threads, gc_allowed(t) PROVE InMemory'
  BY ZenonT(60), <1>5, <1>a DEF gc_allowed, slackVars, InMemory
<1>6. ASSUME NEW t \in Threads, reset_cursor(t) PROVE InMemory'
  <2>1. cursor' % SlackSize = 0
    BY <1>6, <1>a DEF reset_cursor
  <2>2. QED
    BY Zenon, <1>6, <1>a, <2>1 DEF reset_cursor, InMemory
<1>7. ASSUME NEW t \in Threads, NEW u \in Threads, reset_slack(t, u) PROVE InMemory'
  BY <1>7, <1>a DEF reset_slack, slackVars, InMemory
<1>8. CASE UNCHANGED vars
  BY <1>8, Zenon DEF vars, InMemory
<1>9. QED
  BY <1>1, <1>2, <1>3, <1>4, <1>5, <1>6, <1>7, <1>8, Zenon DEF Next, Quiet

(* What voids the allocator's promises is not forgotten. *)
LEMMA CleanBefore == ASSUME TypeOK, [Next]_vars, Clean' PROVE Clean
<1> USE DEF Clean
<1>1. ASSUME NEW t \in Threads, register_meta(t) PROVE Clean
  BY Zenon, <1>1 DEF register_meta
<1>2. ASSUME NEW t \in Threads, emplace_meta(t) PROVE Clean
  BY Zenon, <1>2 DEF emplace_meta
<1>3. ASSUME NEW t \in Threads, initSlackCache(t) PROVE Clean
  BY <1>3, ZenonT(60) DEF initSlackCache
<1>4. ASSUME NEW t \in Threads, increment_reader(t) PROVE Clean
  BY Zenon, <1>4 DEF increment_reader
<1>5. ASSUME NEW t \in Threads, decrement_reader(t) PROVE Clean
  BY Zenon, <1>5 DEF decrement_reader
<1>6. ASSUME NEW t \in Threads, NEW s \in RecSizes, allocate(t, s) PROVE Clean
  BY <1>6, Zenon DEF allocate
<1>7. ASSUME NEW t \in Threads, fetch_add(t) PROVE Clean
  BY ZenonT(60), <1>7 DEF fetch_add
<1>8. ASSUME NEW t \in Threads, assert_not_full(t) PROVE Clean
  BY Zenon, <1>8 DEF assert_not_full
<1>9. ASSUME NEW t \in Threads, getVersionDataChunk(t) PROVE Clean
  BY Zenon, <1>9 DEF getVersionDataChunk
<1>10. ASSUME NEW t \in Threads, gc_acquire(t) PROVE Clean
  BY Zenon, <1>10 DEF gc_acquire
<1>11. ASSUME NEW t \in Threads, gc_skip(t) PROVE Clean
  BY Zenon, <1>11 DEF gc_skip
<1>12. ASSUME NEW t \in Threads, gc_denied(t) PROVE Clean
  BY Zenon, <1>12 DEF gc_denied
<1>13. ASSUME NEW t \in Threads, gc_allowed(t) PROVE Clean
  BY <1>13, Zenon DEF gc_allowed
<1>14. ASSUME NEW t \in Threads, reset_untouched(t) PROVE Clean
  BY Zenon, <1>14 DEF reset_untouched
<1>15. ASSUME NEW t \in Threads, reset_cursor(t) PROVE Clean
  BY Zenon, <1>15 DEF reset_cursor
<1>16. ASSUME NEW t \in Threads, reset_done(t) PROVE Clean
  BY Zenon, <1>16 DEF reset_done
<1>17. ASSUME NEW t \in Threads, gc_release(t) PROVE Clean
  BY Zenon, <1>17 DEF gc_release
<1>18. ASSUME NEW t \in Threads, NEW u \in Threads, reset_slack(t, u) PROVE Clean
  BY Zenon, <1>18 DEF reset_slack
<1>19. CASE UNCHANGED vars
  BY Zenon, <1>19 DEF vars
<1>20. QED
  BY Zenon, <1>1, <1>2, <1>3, <1>4, <1>5, <1>6, <1>7, <1>8, <1>9, <1>10, <1>11, <1>12, <1>13,
     <1>14, <1>15, <1>16, <1>17, <1>18, <1>19, Zenon DEF Next

(* Every step keeps the invariant. *)
LEMMA IInvStep == IInv /\ [Next]_vars => IInv'
<1> SUFFICES ASSUME IInv, [Next]_vars PROVE IInv'
  BY Zenon
<1>1. TypeOK /\ Occupancy /\ QuietReset /\ TagsGrow
  BY Zenon DEF IInv, MemInv
<1>2. TypeOK' /\ Occupancy' /\ QuietReset' /\ TagsGrow'
  BY Zenon, <1>1, TypeStep, OccupancyStep, QuietResetStep, TagsGrowStep
<1>3. ASSUME Clean' PROVE SizesFit' /\ Apart' /\ (Capacity % SlackSize = 0 => InMemory')
  <2>1. Clean
    BY Zenon, <1>1, <1>3, CleanBefore
  <2>2. SizesFit /\ Apart /\ (Capacity % SlackSize = 0 => InMemory)
    BY Zenon, <2>1 DEF IInv, MemInv, Apart
  <2>3. SizesFit' /\ Apart'
    BY Zenon, <1>1, <1>3, <2>1, <2>2, SizesFitStep, ApartStep
  <2>4. ASSUME Capacity % SlackSize = 0 PROVE InMemory'
    BY Zenon, <1>1, <1>3, <2>1, <2>2, <2>4, InMemoryStep
  <2>5. QED
    BY Zenon, <2>3, <2>4
<1>4. QED
  BY Zenon, <1>2, <1>3 DEF IInv, MemInv, Apart

(* The invariant of the version memory: registration, collection and set-up of the
   slack caches exclude each other as the code means them to, and slack and versions
   of one tag share no byte (getVersionDataChunk_ThreadLocal2, initSlackCache, reset). *)
THEOREM MemInvariant == Spec => [](TypeOK /\ MemInv)
<1>1. Spec => []IInv
  BY IInvInit, IInvStep, PTL DEF Spec
<1>2. IInv => TypeOK /\ MemInv
  BY Zenon DEF IInv
<1>3. QED
  BY <1>1, <1>2, PTL

(* For any number of threads and any width of the tag: a pointer that verifyTag accepts
   leads to the version it was made for, unless the histories of Clean void it or the
   delta was reset as often as the tag has values. *)
THEOREM PointersIntact == Spec => []ValidPointersIntact
<1>1. TypeOK /\ MemInv => ValidPointersIntact
  <2> SUFFICES ASSUME TypeOK, MemInv, Clean,
                      NEW i \in 1 .. Len(recs), NEW j \in 1 .. Len(recs), i < j,
                      Overlap(recs[i].off, recs[i].size, recs[j].off, recs[j].size),
                      tag - recs[i].tag < TagWrap
               PROVE  ~verifyTag(recs[i])
    BY Zenon DEF ValidPointersIntact
  <2>1. tag \in Nat /\ recs[i].tag \in Nat /\ recs[j].tag \in Nat
    BY Zenon, RecTyped DEF TypeOK
  <2>2. recs[i].tag # recs[j].tag
    BY ZenonT(60) DEF MemInv, SameTagApart
  <2>3. recs[i].tag <= recs[j].tag /\ recs[j].tag <= tag
    BY Zenon DEF MemInv, TagsGrow
  <2>4. recs[i].tag < tag
    BY <2>1, <2>2, <2>3
  <2>5. TagWrap \in Nat \ {0}
    BY Zenon, DeltaMemoryAssumption
  <2>6. QED
    BY <2>1, <2>4, <2>5, ModApart, Zenon DEF verifyTag
<1>2. QED
  BY <1>1, MemInvariant, PTL

(* With a capacity of whole slacks no version leaves the partition's memory. *)
THEOREM VersionsStayInMemory == Spec => []VersionsInMemory
<1>1. MemInv => VersionsInMemory
  BY Zenon DEF MemInv, VersionsInMemory, InMemory
<1>2. QED
  BY <1>1, MemInvariant, PTL
=============================================================================
