----------------------------- MODULE AsyncQueue -----------------------------
(***************************************************************************)
(* AsyncQueueSPSC, also used as AsyncQueueMPSC: the queue between the      *)
(* threads that fill packets and the one that consumes them, in the        *)
(* routers, the memory moves and the network subscriptions.                *)
(*                                                                         *)
(* Items are pushed under a mutex.  The consumer pops the oldest one and   *)
(* moves the next few to a private cache, which it later empties without   *)
(* the mutex and without telling anybody.  close() waits until queue and   *)
(* cache are empty: it depends on the consumer's last pop, the one that    *)
(* returns false, to wake it.                                              *)
(*                                                                         *)
(* A critical section is one step, going to sleep included: what the wait  *)
(* predicates read changes under the mutex only, but for cache_size, which *)
(* changes without a notification, so that it does not matter whether it   *)
(* changes just before or just after the sleep.  A notification sent after *)
(* the mutex was released is a step of its own.                            *)
(***************************************************************************)
EXTENDS Integers, Sequences, FiniteSets

CONSTANTS
  Producers,     \* the threads that push
  MaxPushes,     \* bound: pushes of each producer
  CacheSlots     \* length of cache_data (8)

ASSUME QueueAssumption == MaxPushes \in Nat /\ CacheSlots \in Nat \ {0}

(* The k-th item of a producer. *)
Item == Producers \X (1 .. MaxPushes)

VARIABLES
  data,         \* AsyncQueueSPSC::data
  terminating,  \* AsyncQueueSPSC::terminating
  cache_size,   \* AsyncQueueSPSC::cache_size
  cache_data,   \* AsyncQueueSPSC::cache_data
  notifying,    \* producers between the unlock and the notify_one of push
  consumer,     \* where the consumer is: "running", "waiting", "woken", "ending" or "done"
  closer,       \* where the call of close is: "no", "waiting", "woken" or "closed"
  pushed,       \* how many items each producer has pushed
  received      \* what pop has returned so far

vars == <<data, terminating, cache_size, cache_data, notifying, consumer, closer, pushed, received>>

(* Not an item: what an unused slot of cache_data holds. *)
NoItem == <<>>

(* A new queue, after the reset() of Router::open. *)
Init ==
  /\ data = <<>>
  /\ terminating = FALSE
  /\ cache_size = 0
  /\ cache_data = [i \in 0 .. CacheSlots - 1 |-> NoItem]
  /\ notifying = {}
  /\ consumer = "running"
  /\ closer = "no"
  /\ pushed = [p \in Producers |-> 0]
  /\ received = <<>>

-----------------------------------------------------------------------------
(* push up to the unlock.  Nobody pushes once the queue is being closed: that
   is what assert(!terminating) demands of the callers. *)
push(p) ==
  /\ closer = "no" /\ p \notin notifying
  /\ pushed[p] < MaxPushes
  /\ data' = Append(data, <<p, pushed[p] + 1>>)
  /\ pushed' = [pushed EXCEPT ![p] = @ + 1]
  /\ notifying' = notifying \cup {p}
  /\ UNCHANGED <<terminating, cache_size, cache_data, consumer, closer, received>>

(* Variant: the notification is forgotten. *)
push_notify_none(p) ==
  /\ p \in notifying
  /\ notifying' = notifying \ {p}
  /\ UNCHANGED <<data, terminating, cache_size, cache_data, consumer, closer, pushed, received>>

(* The notify_one of push; no push is under way when close is called, so the
   consumer is the only thread that can be waiting. *)
push_notify(p) ==
  /\ p \in notifying
  /\ notifying' = notifying \ {p}
  /\ consumer' = IF consumer = "waiting" THEN "woken" ELSE consumer
  /\ UNCHANGED <<data, terminating, cache_size, cache_data, closer, pushed, received>>

-----------------------------------------------------------------------------
(* pop finds an item in the cache. *)
pop_cached ==
  /\ consumer = "running" /\ cache_size > 0
  /\ received' = Append(received, cache_data[cache_size - 1])
  /\ cache_size' = cache_size - 1
  /\ UNCHANGED <<data, terminating, cache_data, notifying, consumer, closer, pushed>>

(* pop comes to the mutex, or wakes up with it. *)
PopLocks == consumer = "woken" \/ (consumer = "running" /\ cache_size = 0)

(* The queue is empty: wait. *)
pop_wait ==
  /\ PopLocks /\ data = <<>> /\ ~terminating
  /\ consumer' = "waiting"
  /\ UNCHANGED <<data, terminating, cache_size, cache_data, notifying, closer, pushed, received>>

(* Variant: the oldest item goes to the first slot. *)
refill_forward(rest) ==
  LET n == IF Len(rest) < CacheSlots THEN Len(rest) ELSE CacheSlots
  IN  /\ cache_size' = n
      /\ cache_data' = [i \in 0 .. CacheSlots - 1 |->
                          IF i < n THEN rest[i + 1] ELSE cache_data[i]]
      /\ data' = SubSeq(rest, n + 1, Len(rest))

(* Move up to CacheSlots items to the cache, the oldest to the last slot. *)
refill(rest) ==
  LET n == IF Len(rest) < CacheSlots THEN Len(rest) ELSE CacheSlots
  IN  /\ cache_size' = n
      /\ cache_data' = [i \in 0 .. CacheSlots - 1 |->
                          IF i < n THEN rest[n - i] ELSE cache_data[i]]
      /\ data' = SubSeq(rest, n + 1, Len(rest))

(* The queue holds items: return the oldest. *)
pop_data ==
  /\ PopLocks /\ data # <<>>
  /\ received' = Append(received, Head(data))
  /\ refill(Tail(data))
  /\ consumer' = "running"
  /\ UNCHANGED <<terminating, notifying, closer, pushed>>

(* The queue is empty and closed: unlock ... *)
pop_end ==
  /\ PopLocks /\ data = <<>> /\ terminating
  /\ consumer' = "ending"
  /\ UNCHANGED <<data, terminating, cache_size, cache_data, notifying, closer, pushed, received>>

(* Variant: pop returns false without a notification. *)
pop_end_silent ==
  /\ consumer = "ending"
  /\ consumer' = "done"
  /\ UNCHANGED <<data, terminating, cache_size, cache_data, notifying, closer, pushed, received>>

(* ... notify_all, return false; the consumers do not pop again. *)
pop_end_notify ==
  /\ consumer = "ending"
  /\ consumer' = "done"
  /\ closer' = IF closer = "waiting" THEN "woken" ELSE closer
  /\ UNCHANGED <<data, terminating, cache_size, cache_data, notifying, pushed, received>>

-----------------------------------------------------------------------------
(* What close waits for. *)
Drained == cache_size = 0 /\ data = <<>>

(* close, by the last producer: no push is under way. *)
close ==
  /\ closer = "no" /\ notifying = {}
  /\ terminating' = TRUE
  /\ consumer' = IF consumer = "waiting" THEN "woken" ELSE consumer
  /\ closer' = IF Drained THEN "closed" ELSE "waiting"
  /\ UNCHANGED <<data, cache_size, cache_data, notifying, pushed, received>>

(* close evaluates its predicate again. *)
close_recheck ==
  /\ closer = "woken"
  /\ closer' = IF Drained THEN "closed" ELSE "waiting"
  /\ UNCHANGED <<data, terminating, cache_size, cache_data, notifying, consumer, pushed, received>>

(* A condition variable may wake a waiter for no reason. *)
spurious_wakeup ==
  /\ \/ consumer = "waiting" /\ consumer' = "woken" /\ UNCHANGED closer
     \/ closer = "waiting" /\ closer' = "woken" /\ UNCHANGED consumer
  /\ UNCHANGED <<data, terminating, cache_size, cache_data, notifying, pushed, received>>

(* Both sides have returned for good. *)
Returned ==
  /\ consumer = "done" /\ closer = "closed"
  /\ UNCHANGED vars

Consume == pop_cached \/ pop_wait \/ pop_data \/ pop_end \/ pop_end_notify

Next ==
  \/ \E p \in Producers : push(p) \/ push_notify(p)
  \/ Consume
  \/ close \/ close_recheck
  \/ spurious_wakeup
  \/ Returned

(* The consumer calls pop until it returns false (Router::fire), a thread that
   can run does, and somebody closes the queue in the end (Router::close). *)
Fairness ==
  /\ WF_vars(Consume)
  /\ WF_vars(close_recheck)
  /\ \A p \in Producers : WF_vars(push_notify(p))

Spec == Init /\ [][Next]_vars /\ Fairness

-----------------------------------------------------------------------------
(* Every variable keeps its type; in particular the refill of pop never runs
   over the end of cache_data. *)
TypeOK ==
  /\ data \in Seq(Item)
  /\ terminating \in BOOLEAN
  /\ cache_size \in 0 .. CacheSlots
  /\ cache_data \in [0 .. CacheSlots - 1 -> Item \cup {NoItem}]
  /\ notifying \subseteq Producers
  /\ consumer \in {"running", "waiting", "woken", "ending", "done"}
  /\ closer \in {"no", "waiting", "woken", "closed"}
  /\ pushed \in [Producers -> 0 .. MaxPushes]
  /\ received \in Seq(Item)

(* Nobody sleeps in vain: a consumer that waits has nothing to do, or a push
   is about to notify it; a close() that waits, when all is drained, still has
   the consumer's last pop ahead. *)
NobodySleepsInVain ==
  /\ consumer = "waiting" => (data = <<>> /\ ~terminating) \/ notifying # {}
  /\ closer = "waiting" /\ Drained => consumer # "done"

(* The cache as the sequence of items pop will take from it. *)
Cached == [i \in 1 .. cache_size |-> cache_data[cache_size - i]]

(* What was pushed and not yet popped, oldest first. *)
InTransit == Cached \o data

(* Where the call of close is, for its caller. *)
CloseState ==
  CASE closer = "no" -> "open"
    [] closer = "closed" -> "closed"
    [] OTHER -> "closing"

Channel == INSTANCE FifoChannel WITH
  transit <- InTransit,
  got <- received,
  state <- CloseState,
  eof <- consumer \in {"ending", "done"}

(* The queue with its cache is a FIFO channel: every item once and in order,
   pop() returns false and close() returns only when nothing is left. *)
IsFifoChannel == Channel!Spec

(* A call of close() returns, though nobody notifies it when the consumer
   empties its cache. *)
CloseReturns == (closer = "waiting") ~> (closer = "closed")

(* Whatever is pushed is received: no notification of push() is lost. *)
EveryItemArrives ==
  \A p \in Producers, k \in 1 .. MaxPushes :
    (pushed[p] >= k) ~> (\E i \in 1 .. Len(received) : received[i] = <<p, k>>)

(* The two sides agree on where the queue is: it terminates from the call of
   close on, when no push is under way; a consumer that came to the mutex had
   emptied its cache, and one that returned false has left nothing; the cached
   slots hold items. *)
SidesAgree ==
  /\ terminating <=> closer # "no"
  /\ closer # "no" => notifying = {}
  /\ consumer \in {"waiting", "woken"} => cache_size = 0
  /\ consumer \in {"ending", "done"} => terminating /\ Drained
  /\ \A i \in 0 .. cache_size - 1 : cache_data[i] \in Item

(* The invariant of the queue: types, no thread of AsyncQueueSPSC sleeps over
   what it waits for, and both sides agree on where the queue is. *)
QueueInv == TypeOK /\ NobodySleepsInVain /\ SidesAgree

(* Every call of the queue has its effect: close() returns, and what was pushed
   is popped. *)
EverythingArrives == CloseReturns /\ EveryItemArrives
=============================================================================
