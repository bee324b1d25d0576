---------------------------- MODULE DeltaMemory ----------------------------
(***************************************************************************)
(* The version memory of one delta store (one partition of it): worker     *)
(* threads carve versions out of private slack they take from a shared     *)
(* cursor, and the collector rewinds the cursor, takes all slack back and  *)
(* counts the tag up, which makes the pointers handed out so far invalid.  *)
(*                                                                         *)
(* Who may collect, and that no worker is registered meanwhile, is the     *)
(* subject of OneShotGC; here a worker enters only while nobody collects   *)
(* (CollectorAlone there), and whether a collection resets is a free       *)
(* choice.  Offsets count from the start of the partition's memory.        *)
(***************************************************************************)
EXTENDS Integers, Sequences, FiniteSets

CONSTANTS
  Threads,    \* worker threads
  Capacity,   \* ver_data_mem.size
  SlackSize,  \* DeltaSlackCache::slack_size
  InitSize,   \* what initSlackCache asks for
  RecSizes,   \* sizes of the versions
  SizeWrap,   \* 2^64: a negative remaining_slack is compared as size_t
  TagWrap,    \* 2^tag_bits: what a pointer keeps of the tag
  MaxTag,     \* bound: collections do not start beyond this tag
  MaxRecs     \* bound: versions allocated

ASSUME DeltaMemoryAssumption ==
  /\ Capacity \in Nat \ {0}
  /\ SlackSize \in Nat \ {0}
  /\ InitSize \in 1 .. SlackSize
  /\ RecSizes \subseteq Nat \ {0}
  /\ SizeWrap \in Nat
  /\ TagWrap \in Nat \ {0, 1}
  /\ MaxTag \in Nat
  /\ MaxRecs \in Nat

VARIABLES
  pc,        \* where each thread is
  cursor,    \* ver_data_cursor
  ptr,       \* DeltaSlackCache::ptr of each thread
  remaining, \* DeltaSlackCache::remaining_slack
  known,     \* threads with an entry in _threadLocal_cache
  touched,   \* DeltaPartition::touched
  tag,       \* CircularDeltaStore::tag
  meta,      \* meta_per_thread, as the threads whose entries it has
  at,        \* the length of meta a registering thread has read
  init,      \* the thread that is inside initSlackCache (initLk), or NoThread
  size,      \* the size a thread is allocating
  readers,   \* the workers registered with the delta
  collector, \* the worker that collects it, or NoThread
  left,      \* slack caches reset() has yet to zero
  recs,      \* the versions allocated, in order
  raced,     \* history: initSlackCache overlapped a collection
  oversize   \* history: a version larger than SlackSize was allocated

vars == <<pc, cursor, ptr, remaining, known, touched, tag, meta, at, init, size,
          readers, collector, left, recs, raced, oversize>>
slackVars == <<cursor, ptr, remaining, known, touched>>
metaVars == <<meta, at>>
gcVars == <<tag, readers, collector, left>>

NoThread == "none"

ASSUME NoThreadAssumption == NoThread \notin Threads

Record == [off : Nat, size : Nat, tag : Nat]

(* The comparison of a size_t with an int converts the int. *)
AsSize(n) == IF n >= 0 THEN n ELSE n + SizeWrap

(* verifyTag: both tags are cut to the pointer's width. *)
verifyTag(r) == tag % TagWrap = r.tag % TagWrap

Init ==
  /\ pc = [t \in Threads |-> "start"]
  /\ cursor = 0
  /\ ptr = [t \in Threads |-> 0]
  /\ remaining = [t \in Threads |-> 0]
  /\ known = {}
  /\ touched = FALSE
  /\ tag = 1
  /\ meta = <<>>
  /\ at = [t \in Threads |-> 0]
  /\ init = NoThread
  /\ size = [t \in Threads |-> 0]
  /\ readers = {}
  /\ collector = NoThread
  /\ left = {}
  /\ recs = <<>>
  /\ raced = FALSE
  /\ oversize = FALSE

-----------------------------------------------------------------------------
(* initThreadLocalPools: the unique_lock is not given its mutex, so the vector
   grows by a read of its end ... *)
register_meta(t) ==
  /\ pc[t] = "start"
  /\ at' = [at EXCEPT ![t] = Len(meta)]
  /\ pc' = [pc EXCEPT ![t] = "meta"]
  /\ UNCHANGED <<slackVars, gcVars, meta, init, size, recs, raced, oversize>>

(* ... and a write there: an entry another thread added in between is lost, which no
   property here rules out (the collector then misses that worker's epochs). *)
emplace_meta(t) ==
  /\ pc[t] = "meta"
  /\ meta' = Append(SubSeq(meta, 1, IF at[t] < Len(meta) THEN at[t] ELSE Len(meta)), t)
  /\ at' = [at EXCEPT ![t] = 0]
  /\ pc' = [pc EXCEPT ![t] = "pools"]
  /\ UNCHANGED <<slackVars, gcVars, init, size, recs, raced, oversize>>

(* initSlackCache, under initLk: the thread's entry, and a first allocation that
   nobody uses.  The worker is not registered with the delta. *)
initSlackCache(t) ==
  /\ pc[t] = "pools" /\ init = NoThread
  /\ init' = t
  /\ known' = known \cup {t}
  /\ raced' = (raced \/ \E u \in Threads : pc[u] \in {"reset", "zero"})
  /\ size' = [size EXCEPT ![t] = InitSize]
  /\ pc' = [pc EXCEPT ![t] = "refill"]
  /\ UNCHANGED <<cursor, ptr, remaining, touched, gcVars, metaVars, recs, oversize>>

-----------------------------------------------------------------------------
(* A worker registers with the delta, and may do so only while no collector has
   it (increment_reader). *)
increment_reader(t) ==
  /\ pc[t] = "out" /\ collector = NoThread
  /\ readers' = readers \cup {t}
  /\ pc' = [pc EXCEPT ![t] = "in"]
  /\ UNCHANGED <<slackVars, metaVars, tag, collector, left, init, size, recs, raced, oversize>>

(* allocate of a registered worker: is there slack enough? *)
allocate(t, s) ==
  /\ pc[t] = "in" /\ Len(recs) < MaxRecs
  /\ size' = [size EXCEPT ![t] = s]
  /\ oversize' = (oversize \/ s > SlackSize)
  /\ pc' = [pc EXCEPT ![t] = IF s > AsSize(remaining[t]) THEN "refill" ELSE "carve"]
  /\ UNCHANGED <<slackVars, gcVars, metaVars, init, recs, raced>>

(* ver_data_cursor.fetch_add *)
fetch_add(t) ==
  /\ pc[t] = "refill"
  /\ ptr' = [ptr EXCEPT ![t] = cursor]
  /\ cursor' = cursor + SlackSize
  /\ pc' = [pc EXCEPT ![t] = "filled"]
  /\ UNCHANGED <<remaining, known, touched, gcVars, metaVars, init, size, recs, raced, oversize>>

(* Variant: the assertion admits the end of the memory. *)
assert_not_full_late(t) ==
  /\ pc[t] = "filled"
  /\ remaining' = [remaining EXCEPT ![t] = SlackSize]
  /\ pc' = [pc EXCEPT ![t] = IF ptr[t] <= Capacity THEN "carve" ELSE "dead"]
  /\ UNCHANGED <<cursor, ptr, known, touched, gcVars, metaVars, init, size, recs, raced, oversize>>

(* The assertion on the new slack is about its first byte. *)
assert_not_full(t) ==
  /\ pc[t] = "filled"
  /\ remaining' = [remaining EXCEPT ![t] = SlackSize]
  /\ pc' = [pc EXCEPT ![t] = IF ptr[t] < Capacity THEN "carve" ELSE "dead"]
  /\ UNCHANGED <<cursor, ptr, known, touched, gcVars, metaVars, init, size, recs, raced, oversize>>

(* The rest of getVersionDataChunk_ThreadLocal2, and the tagged pointer allocate
   makes of the chunk. *)
getVersionDataChunk(t) ==
  /\ pc[t] = "carve"
  /\ ptr' = [ptr EXCEPT ![t] = @ + size[t]]
  /\ remaining' = [remaining EXCEPT ![t] = @ - size[t]]
  /\ touched' = TRUE
  /\ size' = [size EXCEPT ![t] = 0]
  /\ IF init = t
       THEN /\ init' = NoThread
            /\ pc' = [pc EXCEPT ![t] = "out"]
            /\ UNCHANGED recs
       ELSE /\ recs' = Append(recs, [off |-> ptr[t], size |-> size[t], tag |-> tag])
            /\ pc' = [pc EXCEPT ![t] = "in"]
            /\ UNCHANGED init
  /\ UNCHANGED <<cursor, known, gcVars, metaVars, raced, oversize>>

-----------------------------------------------------------------------------
(* The worker leaves; the last one collects. *)
decrement_reader(t) ==
  /\ pc[t] = "in"
  /\ readers' = readers \ {t}
  /\ pc' = [pc EXCEPT ![t] = IF readers = {t} THEN "gc" ELSE "out"]
  /\ UNCHANGED <<slackVars, metaVars, tag, collector, left, init, size, recs, raced, oversize>>

(* GC(): the delta is taken if nobody is registered with it, ... *)
gc_acquire(t) ==
  /\ pc[t] = "gc" /\ readers = {} /\ collector = NoThread /\ tag < MaxTag
  /\ collector' = t
  /\ pc' = [pc EXCEPT ![t] = "collect"]
  /\ UNCHANGED <<slackVars, metaVars, tag, readers, left, init, size, recs, raced, oversize>>

gc_skip(t) ==
  /\ pc[t] = "gc"
  /\ pc' = [pc EXCEPT ![t] = "out"]
  /\ UNCHANGED <<slackVars, metaVars, gcVars, init, size, recs, raced, oversize>>

(* ... and if a running transaction may need its versions, handed back as it is. *)
gc_denied(t) ==
  /\ pc[t] = "collect"
  /\ pc' = [pc EXCEPT ![t] = "release"]
  /\ UNCHANGED <<slackVars, metaVars, gcVars, init, size, recs, raced, oversize>>

gc_allowed(t) ==
  /\ pc[t] = "collect"
  /\ tag' = tag + 1
  /\ raced' = (raced \/ init # NoThread)
  /\ pc' = [pc EXCEPT ![t] = "reset"]
  /\ UNCHANGED <<slackVars, metaVars, readers, collector, left, init, size, recs, oversize>>

(* DeltaPartition::reset of a partition nobody allocated from since the last. *)
reset_untouched(t) ==
  /\ pc[t] = "reset" /\ ~touched
  /\ pc' = [pc EXCEPT ![t] = "release"]
  /\ UNCHANGED <<slackVars, metaVars, gcVars, init, size, recs, raced, oversize>>

(* Variant: reset() leaves the slack caches alone. *)
reset_cursor_only(t) ==
  /\ pc[t] = "reset" /\ touched
  /\ cursor' = 0
  /\ left' = {}
  /\ pc' = [pc EXCEPT ![t] = "zero"]
  /\ UNCHANGED <<ptr, remaining, known, touched, metaVars, tag, readers, collector, init, size, recs, raced, oversize>>

reset_cursor(t) ==
  /\ pc[t] = "reset" /\ touched
  /\ cursor' = 0
  /\ left' = known
  /\ pc' = [pc EXCEPT ![t] = "zero"]
  /\ UNCHANGED <<ptr, remaining, known, touched, metaVars, tag, readers, collector, init, size, recs, raced, oversize>>

(* One slack cache of the loop. *)
reset_slack(t, u) ==
  /\ pc[t] = "zero" /\ u \in left
  /\ remaining' = [remaining EXCEPT ![u] = 0]
  /\ left' = left \ {u}
  /\ UNCHANGED <<pc, cursor, ptr, known, touched, metaVars, tag, readers, collector, init, size, recs, raced, oversize>>

reset_done(t) ==
  /\ pc[t] = "zero" /\ left = {}
  /\ touched' = FALSE
  /\ pc' = [pc EXCEPT ![t] = "release"]
  /\ UNCHANGED <<cursor, ptr, remaining, known, metaVars, gcVars, init, size, recs, raced, oversize>>

(* The delta is open to workers again. *)
gc_release(t) ==
  /\ pc[t] = "release"
  /\ collector' = NoThread
  /\ pc' = [pc EXCEPT ![t] = "out"]
  /\ UNCHANGED <<slackVars, metaVars, tag, readers, left, init, size, recs, raced, oversize>>

-----------------------------------------------------------------------------
(* A failed assertion ends the process. *)
Next ==
  /\ \A t \in Threads : pc[t] # "dead"
  /\ \E t \in Threads :
       \/ register_meta(t) \/ emplace_meta(t) \/ initSlackCache(t)
       \/ increment_reader(t) \/ decrement_reader(t)
       \/ \E s \in RecSizes : allocate(t, s)
       \/ fetch_add(t) \/ assert_not_full(t) \/ getVersionDataChunk(t)
       \/ gc_acquire(t) \/ gc_skip(t) \/ gc_denied(t) \/ gc_allowed(t)
       \/ reset_untouched(t) \/ reset_cursor(t) \/ reset_done(t) \/ gc_release(t)
       \/ \E u \in Threads : reset_slack(t, u)

Spec == Init /\ [][Next]_vars

-----------------------------------------------------------------------------
(* Properties *)

InitPc == {"start", "meta", "pools"}
FillPc == {"refill", "filled", "carve"}
ResetPc == {"collect", "reset", "zero", "release"}

(* Every state variable keeps the type its declaration in the code gives it. *)
TypeOK ==
  /\ pc \in [Threads -> InitPc \cup FillPc \cup ResetPc \cup {"out", "in", "gc", "dead"}]
  /\ cursor \in Nat
  /\ ptr \in [Threads -> Nat]
  /\ remaining \in [Threads -> Int]
  /\ known \subseteq Threads
  /\ touched \in BOOLEAN
  /\ tag \in Nat
  /\ meta \in Seq(Threads)
  /\ at \in [Threads -> Nat]
  /\ init \in Threads \cup {NoThread}
  /\ size \in [Threads -> Nat]
  /\ readers \subseteq Threads
  /\ collector \in Threads \cup {NoThread}
  /\ left \subseteq Threads
  /\ recs \in Seq(Record)
  /\ raced \in BOOLEAN /\ oversize \in BOOLEAN

(* The two intervals have an offset in common. *)
Overlap(a, n, b, m) == a < b + m /\ b < a + n

(* The histories that void the allocator's promises: a worker that sets up its
   slack while the delta is collected, and a version larger than the slack. *)
Clean == ~raced /\ ~oversize

(* A pointer that passes verifyTag leads to the version it was made for: no
   later version was carved out of the same bytes, as long as the delta was
   reset fewer than TagWrap times since. *)
ValidPointersIntact ==
  Clean => \A i, j \in 1 .. Len(recs) :
             /\ i < j
             /\ Overlap(recs[i].off, recs[i].size, recs[j].off, recs[j].size)
             /\ tag - recs[i].tag < TagWrap
             => ~verifyTag(recs[i])

(* Every version lies in the partition's memory if the capacity is a multiple
   of the slack (the assertion on a new slack looks at its first byte only). *)
VersionsInMemory ==
  Clean /\ Capacity % SlackSize = 0 =>
    \A i \in 1 .. Len(recs) : recs[i].off + recs[i].size <= Capacity

-----------------------------------------------------------------------------
(* The inductive invariant behind the two properties above. *)

(* Who is in the delta and who collects it: workers that allocate are registered
   or inside initSlackCache, the collector is alone, and a thread without a slack
   cache has no slack. *)
Occupancy ==
  /\ \A t \in Threads : pc[t] \in ResetPc <=> collector = t
  /\ \A t \in Threads : (pc[t] = "in" \/ (pc[t] \in FillPc /\ init # t)) => t \in readers
  /\ collector # NoThread => readers = {}
  /\ \A t \in Threads : init = t => pc[t] \in FillPc \cup {"dead"}
  /\ \A t \in Threads \ known : pc[t] \in InitPc /\ remaining[t] = 0
  /\ left # {} => \E t \in Threads : pc[t] = "zero"

(* Nobody sets up its slack while the memory is reset, and nothing carries the
   new tag yet. *)
QuietReset ==
  \A t \in Threads : pc[t] \in {"reset", "zero"} =>
    /\ ~raced => init = NoThread
    /\ \A i \in 1 .. Len(recs) : recs[i].tag < tag

(* The bytes thread t may still carve, once its fetch_add is done. *)
Slack(t) == IF pc[t] = "filled" THEN SlackSize ELSE remaining[t]

(* What is being allocated fits. *)
SizesFit ==
  \A t \in Threads :
    /\ remaining[t] >= 0
    /\ pc[t] \in FillPc => size[t] \in 1 .. SlackSize
    /\ pc[t] = "carve" => size[t] <= remaining[t]

(* Slack that reset() does not have to zero any more is below the cursor ... *)
SlackBelowCursor ==
  \A t \in Threads \ left : Slack(t) > 0 => ptr[t] + Slack(t) <= cursor

(* ... and belongs to one thread. *)
SlackApart ==
  \A t, u \in Threads \ left :
    t # u /\ Slack(t) > 0 /\ Slack(u) > 0 => ~Overlap(ptr[t], Slack(t), ptr[u], Slack(u))

(* Versions with the current tag are below the cursor and in nobody's slack. *)
CurrentVersionsApart ==
  \A i \in 1 .. Len(recs) : recs[i].tag = tag =>
    /\ recs[i].off + recs[i].size <= cursor
    /\ \A t \in Threads \ left :
         Slack(t) > 0 => ~Overlap(recs[i].off, recs[i].size, ptr[t], Slack(t))

(* Versions with the same tag have no byte in common. *)
SameTagApart ==
  \A i, j \in 1 .. Len(recs) : i < j /\ recs[i].tag = recs[j].tag =>
    ~Overlap(recs[i].off, recs[i].size, recs[j].off, recs[j].size)

(* Tags only grow. *)
TagsGrow ==
  /\ \A i \in 1 .. Len(recs) : recs[i].tag <= tag
  /\ \A i, j \in 1 .. Len(recs) : i < j => recs[i].tag <= recs[j].tag

(* With a capacity of whole slacks, checked slack and versions are in memory. *)
InMemory ==
  /\ cursor % SlackSize = 0
  /\ \A t \in Threads :
       /\ pc[t] = "filled" => ptr[t] % SlackSize = 0
       /\ pc[t] \notin {"filled", "dead"} /\ remaining[t] > 0 => ptr[t] + remaining[t] <= Capacity
  /\ \A i \in 1 .. Len(recs) : recs[i].off + recs[i].size <= Capacity

(* The allocator's inductive invariant: how the threads share the delta, and, unless a
   history voids the allocator's promises, how slack and versions share its memory. *)
MemInv ==
  /\ Occupancy /\ QuietReset /\ TagsGrow
  /\ Clean => /\ SizesFit /\ SlackBelowCursor /\ SlackApart
              /\ CurrentVersionsApart /\ SameTagApart
              /\ Capacity % SlackSize = 0 => InMemory
=============================================================================
