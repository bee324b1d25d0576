------------------------- MODULE AsyncQueue_proofs -------------------------
(***************************************************************************)
(* Proofs about AsyncQueue, for any number of producers, pushes and cache  *)
(* slots: its invariant, and that the queue with the consumer's private    *)
(* cache is a FIFO channel.                                                *)
(***************************************************************************)
EXTENDS AsyncQueue, SequenceTheorems, TLAPS

(* The time a leaf may take, so that no proof depends on the speed of the machine. *)
USE SMTT(60)

(* A single element in front of two sequences is the head of their concatenation. *)
LEMMA ConcatHeadTail ==
  ASSUME NEW S, NEW s \in Seq(S), NEW t \in Seq(S), s # <<>>
  PROVE  s \o t # <<>> /\ Head(s \o t) = Head(s) /\ Tail(s \o t) = Tail(s) \o t
PROOF
  <1>1. s \o t \in Seq(S) /\ s \o t # <<>>
    BY ConcatProperties, ConcatEqualIffEmpty
  <1>2. Head(s \o t) = Head(s)
    BY <1>1, ConcatProperties, EmptySeq
  <1>3. /\ Tail(s) \in Seq(S) /\ Tail(s \o t) \in Seq(S) /\ Tail(s) \o t \in Seq(S)
        /\ Len(Tail(s)) = Len(s) - 1 /\ Len(Tail(s \o t)) = Len(s \o t) - 1
        /\ Len(Tail(s) \o t) = (Len(s) - 1) + Len(t)
        /\ Len(s) \in Nat \ {0} /\ Len(t) \in Nat /\ Len(s \o t) = Len(s) + Len(t)
    BY <1>1, HeadTailProperties, ConcatProperties, EmptySeq, LenProperties
  <1>4. ASSUME NEW i \in 1 .. Len(Tail(s \o t))
        PROVE  Tail(s \o t)[i] = (Tail(s) \o t)[i]
    <2>1. Tail(s \o t)[i] = (s \o t)[i + 1]
      BY Zenon, <1>1, HeadTailProperties
    <2>2. (s \o t)[i + 1] = IF i + 1 <= Len(s) THEN s[i + 1] ELSE t[i + 1 - Len(s)]
      BY <1>3, ConcatProperties
    <2>3. (Tail(s) \o t)[i] = IF i <= Len(s) - 1 THEN Tail(s)[i] ELSE t[i - (Len(s) - 1)]
      BY <1>3, ConcatProperties
    <2>4. i <= Len(s) - 1 => Tail(s)[i] = s[i + 1]
      BY <1>3, HeadTailProperties
    <2> QED
      BY <1>3, <2>1, <2>2, <2>3, <2>4
  <1>5. Tail(s \o t) = Tail(s) \o t
    BY <1>3, <1>4, SeqEqual
  <1> QED
    BY Zenon, <1>1, <1>2, <1>5

(* Pushing behind a sequence is pushing behind what precedes it, too. *)
LEMMA ConcatAppend ==
  ASSUME NEW S, NEW s \in Seq(S), NEW t \in Seq(S), NEW e \in S
  PROVE  s \o Append(t, e) = Append(s \o t, e)
PROOF
  <1>1. <<e>> \in Seq(S)
    OBVIOUS
  <1>2. Append(t, e) = t \o <<e>>
    BY Zenon, AppendIsConcat
  <1>3. Append(s \o t, e) = (s \o t) \o <<e>>
    BY Zenon, ConcatProperties, AppendIsConcat
  <1> QED
    BY <1>1, <1>2, <1>3, ConcatAssociative

(* Counting down from n. *)
LEMMA Mirror ==
  ASSUME NEW n \in Nat, NEW m \in Nat, n <= m
  PROVE  \A i \in 0 .. n - 1 : n - i \in 1 .. m
OBVIOUS

(* ... and up again. *)
LEMMA MirrorBack ==
  ASSUME NEW n \in Nat
  PROVE  \A i \in 1 .. n : n - i \in 0 .. n - 1
OBVIOUS

(* A function on 1 .. n is a sequence. *)
LEMMA FunctionIsSeq ==
  ASSUME NEW S, NEW n \in Nat, NEW s \in [1 .. n -> S]
  PROVE  s \in Seq(S) /\ Len(s) = n
PROOF
  <1>1. s \in Seq(S)
    BY Zenon, SeqDef
  <1> QED
    BY <1>1, LenProperties

(* The cached items, in the order pop takes them. *)
LEMMA CachedType ==
  ASSUME TypeOK, SidesAgree
  PROVE  /\ Cached \in Seq(Item) /\ Len(Cached) = cache_size
         /\ \A i \in 1 .. cache_size : Cached[i] = cache_data[cache_size - i]
PROOF
  <1>1. cache_size \in Nat
    BY QueueAssumption DEF TypeOK
  <1>2. \A i \in 1 .. cache_size : cache_size - i \in 0 .. cache_size - 1
    BY Zenon, <1>1, MirrorBack
  <1>3. \A i \in 1 .. cache_size : cache_data[cache_size - i] \in Item
    BY Zenon, <1>2 DEF SidesAgree
  <1>4. Cached \in [1 .. cache_size -> Item]
    BY Zenon, <1>3 DEF Cached
  <1> QED
    BY Zenon, <1>1, <1>4, FunctionIsSeq DEF Cached

(* The same after a step. *)
LEMMA CachedTypeNext ==
  ASSUME TypeOK', SidesAgree'
  PROVE  /\ Cached' \in Seq(Item) /\ Len(Cached') = cache_size'
         /\ \A i \in 1 .. cache_size' : Cached'[i] = cache_data'[cache_size' - i]
PROOF
  <1>1. cache_size' \in Nat
    BY QueueAssumption DEF TypeOK
  <1>2. \A i \in 1 .. cache_size' : cache_size' - i \in 0 .. cache_size' - 1
    BY Zenon, <1>1, MirrorBack
  <1>3. \A i \in 1 .. cache_size' : cache_data'[cache_size' - i] \in Item
    BY Zenon, <1>2 DEF SidesAgree
  <1>4. Cached' \in [1 .. cache_size' -> Item]
    BY Zenon, <1>3 DEF Cached
  <1> QED
    BY Zenon, <1>1, <1>4, FunctionIsSeq DEF Cached

(* What refill makes of the rest of the queue. *)
LEMMA Refilled ==
  ASSUME TypeOK, NEW rest \in Seq(Item), refill(rest)
  PROVE  /\ cache_size' \in 0 .. CacheSlots /\ cache_size' <= Len(rest)
         /\ cache_data' \in [0 .. CacheSlots - 1 -> Item \cup {NoItem}]
         /\ \A i \in 0 .. cache_size' - 1 : cache_data'[i] = rest[cache_size' - i]
         /\ data' = SubSeq(rest, cache_size' + 1, Len(rest))
PROOF
  <1> DEFINE n == IF Len(rest) < CacheSlots THEN Len(rest) ELSE CacheSlots
  <1>1. Len(rest) \in Nat /\ CacheSlots \in Nat \ {0}
    BY Zenon, LenProperties, QueueAssumption
  <1>2. n \in 0 .. CacheSlots /\ n <= Len(rest)
    BY <1>1
  <1>3. /\ cache_size' = n
        /\ cache_data' = [i \in 0 .. CacheSlots - 1 |-> IF i < n THEN rest[n - i] ELSE cache_data[i]]
        /\ data' = SubSeq(rest, n + 1, Len(rest))
    BY Zenon DEF refill
  <1> HIDE DEF n
  <1>4. ASSUME NEW i \in 0 .. CacheSlots - 1, i < n
        PROVE  rest[n - i] \in Item
    <2>1. n - i \in 1 .. Len(rest)
      BY <1>1, <1>2, <1>4
    <2> QED
      BY Zenon, <2>1, ElementOfSeq
  <1>5. \A i \in 0 .. CacheSlots - 1 : cache_data[i] \in Item \cup {NoItem}
    BY Zenon DEF TypeOK
  <1>6. cache_data' \in [0 .. CacheSlots - 1 -> Item \cup {NoItem}]
    BY Zenon, <1>3, <1>4, <1>5
  <1>7. \A i \in 0 .. n - 1 : cache_data'[i] = rest[n - i]
    BY <1>1, <1>2, <1>3
  <1> QED
    BY Zenon, <1>2, <1>3, <1>6, <1>7
-----------------------------------------------------------------------------
(* The rest of a queue is a queue. *)
LEMMA RestType ==
  ASSUME NEW S, NEW q \in Seq(S), NEW k \in Nat
  PROVE  SubSeq(q, k + 1, Len(q)) \in Seq(S)
OBVIOUS

(* Every step keeps the types. *)
LEMMA TypeStep ==
  ASSUME TypeOK, SidesAgree, [Next]_vars
  PROVE  TypeOK'
PROOF
  <1>1. ASSUME NEW p \in Producers, push(p)
        PROVE  TypeOK'
    <2>1. <<p, pushed[p] + 1>> \in Item /\ pushed[p] + 1 \in 0 .. MaxPushes
      BY <1>1, QueueAssumption DEF push, TypeOK, Item
    <2> QED
      BY <1>1, <2>1 DEF push, TypeOK
  <1>2. ASSUME NEW p \in Producers, push_notify(p)
        PROVE  TypeOK'
    BY Zenon, <1>2 DEF push_notify, TypeOK
  <1>3. CASE pop_cached
    <2>1. cache_size - 1 \in 0 .. CacheSlots /\ cache_data[cache_size - 1] \in Item
      BY <1>3, QueueAssumption DEF pop_cached, TypeOK, SidesAgree
    <2> QED
      BY <1>3, <2>1 DEF pop_cached, TypeOK
  <1>4. CASE pop_wait
    BY Zenon, <1>4 DEF pop_wait, TypeOK
  <1>5. CASE pop_data
    <2>1. Tail(data) \in Seq(Item) /\ Head(data) \in Item
      BY Zenon, <1>5, HeadTailProperties DEF pop_data, TypeOK
    <2>2. /\ cache_size' \in 0 .. CacheSlots
          /\ cache_data' \in [0 .. CacheSlots - 1 -> Item \cup {NoItem}]
          /\ data' = SubSeq(Tail(data), cache_size' + 1, Len(Tail(data)))
      BY Zenon, <1>5, <2>1, Refilled DEF pop_data
    <2>3. data' \in Seq(Item)
      <3>1. PICK k \in Nat : k = cache_size'
        BY <2>2, QueueAssumption
      <3>2. SubSeq(Tail(data), k + 1, Len(Tail(data))) \in Seq(Item)
        BY Zenon, <2>1, RestType
      <3> QED
        BY Zenon, <2>2, <3>1, <3>2
    <2> QED
      <3>1. received' \in Seq(Item) /\ consumer' = "running" /\ UNCHANGED <<terminating, notifying, closer, pushed>>
        BY <1>5, <2>1 DEF pop_data, TypeOK
      <3> QED
        BY Zenon, <2>2, <2>3, <3>1 DEF TypeOK
  <1>6. CASE pop_end
    BY Zenon, <1>6 DEF pop_end, TypeOK
  <1>7. CASE pop_end_notify
    BY Zenon, <1>7 DEF pop_end_notify, TypeOK
  <1>8. CASE close
    BY Zenon, <1>8 DEF close, TypeOK
  <1>9. CASE close_recheck
    BY Zenon, <1>9 DEF close_recheck, TypeOK
  <1>10. CASE spurious_wakeup
    BY Zenon, <1>10 DEF spurious_wakeup, TypeOK
  <1>11. CASE UNCHANGED vars
    BY Zenon, <1>11 DEF vars, TypeOK
  <1> QED
    BY Zenon, <1>1, <1>2, <1>3, <1>4, <1>5, <1>6, <1>7, <1>8, <1>9, <1>10, <1>11
    DEF Next, Consume, Returned

(* Every step keeps the two sides in agreement. *)
LEMMA AgreeStep ==
  ASSUME TypeOK, SidesAgree, [Next]_vars
  PROVE  SidesAgree'
PROOF
  <1>1. ASSUME NEW p \in Producers, push(p)
        PROVE  SidesAgree'
    BY Zenon, <1>1 DEF push, SidesAgree, Drained
  <1>2. ASSUME NEW p \in Producers, push_notify(p)
        PROVE  SidesAgree'
    BY Zenon, <1>2 DEF push_notify, SidesAgree, Drained
  <1>3. CASE pop_cached
    <2>1. /\ UNCHANGED <<data, terminating, cache_data, notifying, consumer, closer>>
          /\ consumer = "running" /\ cache_size' = cache_size - 1
      BY Zenon, <1>3 DEF pop_cached
    <2>2. \A i \in 0 .. cache_size' - 1 : i \in 0 .. cache_size - 1
      BY <1>3, <2>1 DEF TypeOK
    <2> QED
      BY Zenon, <2>1, <2>2 DEF SidesAgree
  <1>4. CASE pop_wait
    BY Zenon, <1>4 DEF pop_wait, PopLocks, SidesAgree
  <1>5. CASE pop_data
    <2>1. Tail(data) \in Seq(Item)
      BY Zenon, <1>5, HeadTailProperties DEF pop_data, TypeOK
    <2>2. /\ cache_size' \in 0 .. CacheSlots /\ cache_size' <= Len(Tail(data))
          /\ \A i \in 0 .. cache_size' - 1 : cache_data'[i] = Tail(data)[cache_size' - i]
      BY Zenon, <1>5, <2>1, Refilled DEF pop_data
    <2>3. \A i \in 0 .. cache_size' - 1 : cache_size' - i \in 1 .. Len(Tail(data))
      <3>1. cache_size' \in Nat
        BY <2>2, QueueAssumption
      <3>2. Len(Tail(data)) \in Nat
        BY Zenon, <2>1, LenProperties
      <3> QED
        BY Zenon, <2>2, <3>1, <3>2, Mirror
    <2>4. \A i \in 0 .. cache_size' - 1 : cache_data'[i] \in Item
      BY Zenon, <2>1, <2>2, <2>3, ElementOfSeq
    <2>5. consumer' = "running" /\ UNCHANGED <<terminating, notifying, closer>>
      BY Zenon, <1>5 DEF pop_data
    <2> QED
      BY Zenon, <2>4, <2>5 DEF SidesAgree
  <1>6. CASE pop_end
    BY Zenon, <1>6 DEF pop_end, PopLocks, SidesAgree, Drained
  <1>7. CASE pop_end_notify
    BY Zenon, <1>7 DEF pop_end_notify, SidesAgree, Drained
  <1>8. CASE close
    BY Zenon, <1>8 DEF close, SidesAgree, Drained
  <1>9. CASE close_recheck
    BY Zenon, <1>9 DEF close_recheck, SidesAgree, Drained
  <1>10. CASE spurious_wakeup
    BY Zenon, <1>10 DEF spurious_wakeup, SidesAgree, Drained
  <1>11. CASE UNCHANGED vars
    BY Zenon, <1>11 DEF vars, SidesAgree, Drained
  <1> QED
    BY Zenon, <1>1, <1>2, <1>3, <1>4, <1>5, <1>6, <1>7, <1>8, <1>9, <1>10, <1>11
    DEF Next, Consume, Returned

(* No step lets a thread sleep over what it waits for. *)
LEMMA SleepStep ==
  ASSUME TypeOK, SidesAgree, NobodySleepsInVain, [Next]_vars
  PROVE  NobodySleepsInVain'
PROOF
  <1>1. ASSUME NEW p \in Producers, push(p)
        PROVE  NobodySleepsInVain'
    BY Zenon, <1>1 DEF push, NobodySleepsInVain, Drained
  <1>2. ASSUME NEW p \in Producers, push_notify(p)
        PROVE  NobodySleepsInVain'
    BY Zenon, <1>2 DEF push_notify, NobodySleepsInVain, Drained
  <1>3. CASE pop_cached
    BY Zenon, <1>3 DEF pop_cached, NobodySleepsInVain
  <1>4. CASE pop_wait
    BY Zenon, <1>4 DEF pop_wait, NobodySleepsInVain, Drained
  <1>5. CASE pop_data
    BY Zenon, <1>5 DEF pop_data, NobodySleepsInVain
  <1>6. CASE pop_end
    BY Zenon, <1>6 DEF pop_end, NobodySleepsInVain, Drained
  <1>7. CASE pop_end_notify
    BY Zenon, <1>7 DEF pop_end_notify, NobodySleepsInVain, Drained
  <1>8. CASE close
    BY Zenon, <1>8 DEF close, NobodySleepsInVain, Drained
  <1>9. CASE close_recheck
    BY Zenon, <1>9 DEF close_recheck, NobodySleepsInVain, Drained
  <1>10. CASE spurious_wakeup
    BY Zenon, <1>10 DEF spurious_wakeup, NobodySleepsInVain, Drained
  <1>11. CASE UNCHANGED vars
    BY Zenon, <1>11 DEF vars, NobodySleepsInVain, Drained
  <1> QED
    BY Zenon, <1>1, <1>2, <1>3, <1>4, <1>5, <1>6, <1>7, <1>8, <1>9, <1>10, <1>11
    DEF Next, Consume, Returned

(* Invariant of AsyncQueueSPSC: push and pop stay inside cache_data, the two
   sides agree on where the queue is, and no waiter sleeps over what it waits for. *)
THEOREM QueueSafe == Spec => []QueueInv
PROOF
  <1>1. Init => QueueInv
    <2> SUFFICES ASSUME Init
                 PROVE  QueueInv
      BY Zenon
    <2>1. TypeOK
      <3>1. data \in Seq(Item) /\ received \in Seq(Item) /\ pushed \in [Producers -> 0 .. MaxPushes]
        BY QueueAssumption DEF Init
      <3>2. cache_size \in 0 .. CacheSlots /\ cache_data \in [0 .. CacheSlots - 1 -> Item \cup {NoItem}]
        BY QueueAssumption DEF Init
      <3> QED
        BY Zenon, <3>1, <3>2 DEF Init, TypeOK
    <2>2. NobodySleepsInVain
      BY Zenon DEF Init, NobodySleepsInVain
    <2>3. SidesAgree
      BY DEF Init, SidesAgree
    <2> QED
      BY Zenon, <2>1, <2>2, <2>3 DEF QueueInv
  <1>2. QueueInv /\ [Next]_vars => QueueInv'
    BY Zenon, TypeStep, AgreeStep, SleepStep DEF QueueInv
  <1> QED
    BY <1>1, <1>2, PTL DEF Spec
-----------------------------------------------------------------------------
(* The steps of the queue as steps of a FIFO channel. *)

(* Popping from the cache takes the oldest item in transit. *)
LEMMA CachePop ==
  ASSUME TypeOK, TypeOK', SidesAgree, SidesAgree', pop_cached
  PROVE  /\ InTransit # <<>>
         /\ received' = Append(received, Head(InTransit))
         /\ InTransit' = Tail(InTransit)
PROOF
  <1>1. data \in Seq(Item) /\ data' = data /\ cache_data' = cache_data
    BY Zenon DEF TypeOK, pop_cached
  <1>2. cache_size \in Nat /\ cache_size > 0 /\ cache_size' = cache_size - 1
    BY QueueAssumption DEF TypeOK, pop_cached
  <1>3. /\ Cached \in Seq(Item) /\ Len(Cached) = cache_size
        /\ \A i \in 1 .. cache_size : Cached[i] = cache_data[cache_size - i]
    BY Zenon, CachedType
  <1>4. /\ Cached' \in Seq(Item) /\ Len(Cached') = cache_size'
        /\ \A i \in 1 .. cache_size' : Cached'[i] = cache_data'[cache_size' - i]
    BY Zenon, CachedTypeNext
  <1>5. Cached # <<>>
    BY <1>2, <1>3, EmptySeq
  <1>6. Head(Cached) = cache_data[cache_size - 1]
    BY <1>2, <1>3, <1>5
  <1>7. Cached' = Tail(Cached)
    <2>1. /\ Tail(Cached) \in Seq(Item) /\ Len(Tail(Cached)) = cache_size - 1
          /\ \A i \in 1 .. cache_size - 1 : Tail(Cached)[i] = Cached[i + 1]
      BY <1>3, <1>5, HeadTailProperties
    <2>2. ASSUME NEW i \in 1 .. cache_size - 1
          PROVE  Cached'[i] = Tail(Cached)[i]
      <3>1. i + 1 \in 1 .. cache_size /\ cache_size - (i + 1) = (cache_size - 1) - i
        BY <1>2
      <3>2. Cached'[i] = cache_data[(cache_size - 1) - i]
        BY Zenon, <1>1, <1>2, <1>4
      <3>3. Cached[i + 1] = cache_data[(cache_size - 1) - i]
        BY Zenon, <1>3, <3>1
      <3> QED
        BY Zenon, <2>1, <3>2, <3>3
    <2> QED
      BY Zenon, <1>2, <1>4, <2>1, <2>2, SeqEqual
  <1>8. InTransit # <<>> /\ Head(InTransit) = Head(Cached) /\ Tail(InTransit) = Tail(Cached) \o data
    BY ZenonT(60), <1>1, <1>3, <1>5, ConcatHeadTail DEF InTransit
  <1> QED
    BY Zenon, <1>1, <1>6, <1>7, <1>8 DEF InTransit, pop_cached

(* Popping under the mutex takes the oldest item in transit; the refill of the
   cache loses none and keeps their order. *)
LEMMA RefillPop ==
  ASSUME TypeOK, TypeOK', SidesAgree, SidesAgree', pop_data
  PROVE  /\ InTransit # <<>>
         /\ received' = Append(received, Head(InTransit))
         /\ InTransit' = Tail(InTransit)
PROOF
  <1>1. data \in Seq(Item) /\ data # <<>> /\ cache_size = 0
    BY Zenon DEF TypeOK, pop_data, PopLocks, SidesAgree
  <1>2. InTransit = data
    <2>1. Cached \in Seq(Item) /\ Len(Cached) = 0
      BY Zenon, <1>1, CachedType
    <2>2. Cached = <<>>
      BY Zenon, <2>1, EmptySeq
    <2> QED
      BY Zenon, <1>1, <2>2, ConcatEmptySeq DEF InTransit
  <1>3. PICK rest \in Seq(Item) : rest = Tail(data)
    BY Zenon, <1>1, HeadTailProperties
  <1>4. /\ cache_size' \in 0 .. CacheSlots /\ cache_size' <= Len(rest)
        /\ \A i \in 0 .. cache_size' - 1 : cache_data'[i] = rest[cache_size' - i]
        /\ data' = SubSeq(rest, cache_size' + 1, Len(rest))
    BY Zenon, <1>3, Refilled DEF pop_data
  <1>5. PICK n \in Nat : n = cache_size'
    BY <1>4, QueueAssumption
  <1>6. /\ Cached' \in Seq(Item) /\ Len(Cached') = n
        /\ \A i \in 1 .. n : Cached'[i] = cache_data'[n - i]
    BY Zenon, <1>5, CachedTypeNext
  <1>7. Len(rest) \in Nat /\ n <= Len(rest)
    BY Zenon, <1>4, <1>5, LenProperties
  <1>8. Cached' = SubSeq(rest, 1, n)
    <2>1. \A i \in 1 .. n : rest[i] \in Item
      BY <1>7, ElementOfSeq
    <2>2. /\ SubSeq(rest, 1, n) \in Seq(Item) /\ Len(SubSeq(rest, 1, n)) = n
          /\ \A i \in 1 .. n : SubSeq(rest, 1, n)[i] = rest[i]
      BY <2>1, SubSeqProperties
    <2>3. ASSUME NEW i \in 1 .. n
          PROVE  Cached'[i] = rest[i]
      <3>1. n - i \in 0 .. n - 1 /\ n - (n - i) = i
        OBVIOUS
      <3>2. cache_data'[n - i] = rest[n - (n - i)]
        BY Zenon, <1>4, <1>5, <3>1
      <3> QED
        BY Zenon, <1>6, <3>1, <3>2
    <2> QED
      BY <1>6, <2>2, <2>3, SeqEqual
  <1>9. SubSeq(rest, 1, n) \o SubSeq(rest, n + 1, Len(rest)) = rest
    <2>1. 1 \in 1 .. Len(rest) + 1 /\ n \in 1 - 1 .. Len(rest) /\ Len(rest) \in n .. Len(rest)
      BY <1>7
    <2> QED
      BY ZenonT(60), <2>1, ConcatAdjacentSubSeq, SubSeqFull
  <1>10. InTransit' = rest
    BY Zenon, <1>4, <1>5, <1>8, <1>9 DEF InTransit
  <1> QED
    BY Zenon, <1>1, <1>2, <1>3, <1>10 DEF pop_data

(* What the caller of close sees. *)
LEMMA CloseStates ==
  ASSUME TypeOK
  PROVE  /\ (CloseState = "open") <=> (closer = "no")
         /\ (CloseState = "closed") <=> (closer = "closed")
         /\ (CloseState = "closing") <=> (closer \in {"waiting", "woken"})
BY Zenon DEF TypeOK, CloseState

(* Nothing is in transit exactly when close has nothing to wait for. *)
LEMMA DrainedIsEmpty ==
  ASSUME TypeOK, SidesAgree
  PROVE  Drained <=> InTransit = <<>>
PROOF
  <1>1. Cached \in Seq(Item) /\ Len(Cached) = cache_size /\ data \in Seq(Item)
    BY Zenon, CachedType DEF TypeOK
  <1>2. InTransit = <<>> <=> Cached = <<>> /\ data = <<>>
    BY <1>1, ConcatEqualIffEmpty DEF InTransit
  <1>3. Cached = <<>> <=> cache_size = 0
    BY Zenon, <1>1, EmptySeq
  <1> QED
    BY Zenon, <1>2, <1>3 DEF Drained

(* A step that touches neither items nor close nor the end of the stream. *)
LEMMA Unseen ==
  ASSUME UNCHANGED <<data, cache_size, cache_data, received, closer>>,
         consumer' \in {"ending", "done"} <=> consumer \in {"ending", "done"}
  PROVE  UNCHANGED Channel!vars
BY DEF Channel!vars, InTransit, Cached, CloseState

(* Every step of the queue is a step of the channel, or leaves it alone. *)
LEMMA ChannelStep ==
  ASSUME QueueInv, QueueInv', [Next]_vars
  PROVE  [Channel!Next]_(Channel!vars)
PROOF
  <1>inv. TypeOK /\ TypeOK' /\ SidesAgree /\ SidesAgree'
    BY Zenon DEF QueueInv
  <1>1. ASSUME NEW p \in Producers, push(p)
        PROVE  Channel!Next
    <2>1. PICK x \in Item : data' = Append(data, x)
      BY <1>1, <1>inv, QueueAssumption DEF push, TypeOK, Item
    <2>2. UNCHANGED <<cache_size, cache_data, received, closer, consumer>> /\ closer = "no"
      BY Zenon, <1>1 DEF push
    <2>3. Cached' = Cached /\ CloseState' = CloseState
      BY Zenon, <2>2 DEF Cached, CloseState
    <2>4. InTransit' = Append(InTransit, x)
      <3>1. Cached \in Seq(Item) /\ data \in Seq(Item)
        BY Zenon, <1>inv, CachedType DEF TypeOK
      <3> QED
        BY <2>1, <2>3, <3>1, ConcatAppend DEF InTransit
    <2>5. CloseState = "open"
      BY Zenon, <1>inv, <2>2, CloseStates
    <2>6. Channel!Push(x)
      BY Zenon, <2>2, <2>3, <2>4, <2>5 DEF Channel!Push
    <2> QED
      BY Zenon, <2>6 DEF Channel!Next
  <1>2. ASSUME NEW p \in Producers, push_notify(p)
        PROVE  UNCHANGED Channel!vars
    BY Zenon, <1>2, Unseen DEF push_notify
  <1>3. CASE pop_cached
    <2>1. UNCHANGED <<closer, consumer>>
      BY Zenon, <1>3 DEF pop_cached
    <2> QED
      BY Zenon, <1>3, <1>inv, <2>1, CachePop DEF Channel!Next, Channel!Pop, CloseState
  <1>4. CASE pop_wait
    BY Zenon, <1>4, Unseen DEF pop_wait, PopLocks
  <1>5. CASE pop_data
    <2>1. UNCHANGED closer /\ consumer \notin {"ending", "done"} /\ consumer' \notin {"ending", "done"}
      BY Zenon, <1>5 DEF pop_data, PopLocks
    <2> QED
      BY <1>5, <1>inv, <2>1, RefillPop DEF Channel!Next, Channel!Pop, CloseState
  <1>6. CASE pop_end
    <2>1. /\ UNCHANGED <<data, cache_size, cache_data, received, closer>>
          /\ consumer' = "ending" /\ closer # "no" /\ Drained
      BY Zenon, <1>6, <1>inv DEF pop_end, PopLocks, SidesAgree, Drained
    <2>2. InTransit = <<>> /\ CloseState # "open"
      BY Zenon, <1>inv, <2>1, CloseStates, DrainedIsEmpty
    <2>3. InTransit' = InTransit /\ CloseState' = CloseState
      BY Zenon, <2>1 DEF InTransit, Cached, CloseState
    <2> QED
      BY Zenon, <2>1, <2>2, <2>3 DEF Channel!Next, Channel!PopEnd
  <1>7. CASE pop_end_notify
    <2>1. /\ UNCHANGED <<data, cache_size, cache_data, received>>
          /\ consumer = "ending" /\ consumer' = "done"
          /\ closer' = IF closer = "waiting" THEN "woken" ELSE closer
      BY Zenon, <1>7 DEF pop_end_notify
    <2>2. CloseState' = CloseState
      BY Zenon, <2>1 DEF CloseState
    <2> QED
      BY <2>1, <2>2 DEF Channel!vars, InTransit, Cached
  <1>8. CASE close
    <2>1. /\ UNCHANGED <<data, cache_size, cache_data, received>>
          /\ closer = "no" /\ closer' = IF Drained THEN "closed" ELSE "waiting"
          /\ consumer' = IF consumer = "waiting" THEN "woken" ELSE consumer
      BY Zenon, <1>8 DEF close
    <2>2. InTransit' = InTransit
      BY Zenon, <2>1 DEF InTransit, Cached
    <2>3. CloseState = "open" /\ (CloseState' = "closing" \/ (InTransit = <<>> /\ CloseState' = "closed"))
      BY Zenon, <1>inv, <2>1, DrainedIsEmpty DEF CloseState
    <2>4. (consumer' \in {"ending", "done"}) = (consumer \in {"ending", "done"})
      BY <2>1
    <2> QED
      BY Zenon, <2>1, <2>2, <2>3, <2>4 DEF Channel!Next, Channel!Close
  <1>9. CASE close_recheck
    <2>1. /\ UNCHANGED <<data, cache_size, cache_data, received, consumer>>
          /\ closer = "woken" /\ closer' = IF Drained THEN "closed" ELSE "waiting"
      BY Zenon, <1>9 DEF close_recheck
    <2>2. InTransit' = InTransit
      BY Zenon, <2>1 DEF InTransit, Cached
    <2>3. CloseState = "closing" /\ (CloseState' = "closing" \/ (InTransit = <<>> /\ CloseState' = "closed"))
      BY Zenon, <1>inv, <2>1, DrainedIsEmpty DEF CloseState
    <2> QED
      BY Zenon, <2>1, <2>2, <2>3 DEF Channel!Next, Channel!CloseReturn, Channel!vars
  <1>10. CASE spurious_wakeup
    <2>1. /\ UNCHANGED <<data, cache_size, cache_data, received>>
          /\ consumer' = consumer \/ (consumer = "waiting" /\ consumer' = "woken")
          /\ closer' = closer \/ (closer = "waiting" /\ closer' = "woken")
      BY Zenon, <1>10 DEF spurious_wakeup
    <2>2. CloseState' = CloseState
      BY Zenon, <2>1 DEF CloseState
    <2>3. (consumer' \in {"ending", "done"}) = (consumer \in {"ending", "done"})
      BY <2>1
    <2> QED
      BY Zenon, <2>1, <2>2, <2>3 DEF Channel!vars, InTransit, Cached
  <1>11. CASE UNCHANGED vars
    BY Zenon, <1>11, Unseen DEF vars
  <1> QED
    BY Zenon, <1>1, <1>2, <1>3, <1>4, <1>5, <1>6, <1>7, <1>8, <1>9, <1>10, <1>11
    DEF Next, Consume, Returned

(* The queue with the consumer's private cache is a FIFO channel: pop returns every
   item once and in the order of the pushes, returns false only when nothing is left,
   and close returns only then. *)
THEOREM QueueIsFifo == Spec => IsFifoChannel
PROOF
  <1>1. Init => Channel!Init
    <2> SUFFICES ASSUME Init
                 PROVE  Channel!Init
      BY Zenon
    <2>1. Cached = <<>>
      BY DEF Init, Cached
    <2>2. InTransit = <<>> /\ CloseState = "open"
      BY <2>1 DEF Init, InTransit, CloseState
    <2> QED
      BY <2>2 DEF Init, Channel!Init
  <1>2. QueueInv /\ QueueInv' /\ [Next]_vars => [Channel!Next]_(Channel!vars)
    BY Zenon, ChannelStep
  <1> QED
    BY <1>1, <1>2, QueueSafe, PTL DEF Spec, IsFifoChannel, Channel!Spec
=============================================================================
