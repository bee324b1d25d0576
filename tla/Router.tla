------------------------------- MODULE Router -------------------------------
(***************************************************************************)
(* The exchange operator.  Producer pipelines route blocks to the targets: *)
(* each block travels in a packet that the producer acquires from the      *)
(* target's free pool, fills, and pushes to the target's ready queue.  The *)
(* thread that fires a target owns the memory of its packets: it puts them *)
(* in the pool, consumes what arrives, gives each packet back and, once    *)
(* the queue is closed, takes all of them out again and frees the memory.  *)
(* The last producer to close closes the queues and joins those threads.   *)
(*                                                                         *)
(* A ready queue is a FIFO channel (AsyncQueue shows that the class is     *)
(* one).  A free pool is a ticket queue: a pop draws a ticket and waits    *)
(* for the item of that ticket (TicketQueue; here it never overflows).     *)
(* Acquiring without waiting only adds attempts that change nothing: the   *)
(* look at empty_unsafe is not atomic with the pop, so that it may wait.   *)
(***************************************************************************)
EXTENDS Integers, Sequences, FiniteSets, Functions

CONSTANTS
  Producers,   \* instances of the producer pipeline
  fanout,      \* number of targets
  slack,       \* packets per target
  MaxBlocks,   \* bound: blocks routed by each producer
  MaxRouted    \* bound: blocks routed by all of them

Targets == 0 .. fanout - 1
Packet == Targets \X (1 .. slack)
Block == Producers \X (1 .. MaxBlocks)

ASSUME RouterAssumption ==
  /\ fanout \in Nat \ {0} /\ slack \in Nat \ {0}
  /\ MaxBlocks \in Nat /\ MaxRouted \in Nat
  /\ IsFiniteSet(Producers) /\ Producers \cap Targets = {}

VARIABLES
  shared,      \* policy_type == RoutingPolicy::RANDOM, fixed from the start
  producer,    \* where each producer is
  target,      \* the target it routes its block to, or whose queue it closes
  packet,      \* the packet a producer or a firing thread has
  routed,      \* blocks each producer has pushed
  remaining_producers,
  firer,       \* where the thread that fires each target is
  back,        \* packets it has re-acquired in the end
  alive,       \* targets whose packets are allocated
  free_pool,   \* packets in each pool, oldest first
  tickets,     \* threads waiting for a packet of each pool, in ticket order
  ready_fifo,  \* packets in each ready queue
  terminating, \* queues on which close() was called
  content,     \* the block last stored in a packet
  consumed     \* how often each block was consumed

vars == <<shared, producer, target, packet, routed, remaining_producers, firer, back, alive,
          free_pool, tickets, ready_fifo, terminating, content, consumed>>

None == <<>>

(* A thread is a producer or the target it fires. *)
Threads == Producers \cup Targets

Init ==
  /\ shared \in BOOLEAN
  /\ producer = [p \in Producers |-> "new"]
  /\ target = [p \in Producers |-> 0]
  /\ packet = [w \in Threads |-> None]
  /\ routed = [p \in Producers |-> 0]
  /\ remaining_producers = Cardinality(Producers)
  /\ firer = [t \in Targets |-> "none"]
  /\ back = [t \in Targets |-> {}]
  /\ alive = {}
  /\ free_pool = [t \in Targets |-> <<>>]
  /\ tickets = [t \in Targets |-> <<>>]
  /\ ready_fifo = [t \in Targets |-> <<>>]
  /\ terminating = {}
  /\ content = [b \in Packet |-> None]
  /\ consumed = [x \in Block |-> 0]

-----------------------------------------------------------------------------
(* Variant: one pool for all targets under every policy. *)
pool_single(t) == 0

(* The pool of a target: the random policy uses a single shared one. *)
pool(t) == IF shared THEN 0 ELSE t

(* A sequence without its i-th element. *)
RemoveAt(s, i) == SubSeq(s, 1, i - 1) \o SubSeq(s, i + 1, Len(s))

(* pop of a free pool: a ticket is drawn ... *)
draw(w, q) == tickets' = [tickets EXCEPT ![q] = Append(@, w)]

(* ... and w takes the packet with its ticket, which need not be the oldest
   one that is waited for. *)
take(w, q) ==
  \E i \in 1 .. Len(tickets[q]) :
    /\ tickets[q][i] = w /\ i <= Len(free_pool[q])
    /\ packet' = [packet EXCEPT ![w] = free_pool[q][i]]
    /\ free_pool' = [free_pool EXCEPT ![q] = RemoveAt(@, i)]
    /\ tickets' = [tickets EXCEPT ![q] = RemoveAt(@, i)]

-----------------------------------------------------------------------------
(* The first producer to open spawns the firing threads. *)
open(p) ==
  /\ producer[p] = "new"
  /\ producer' = [producer EXCEPT ![p] = "routing"]
  /\ IF \A t \in Targets : firer[t] = "none"
       THEN /\ firer' = [t \in Targets |-> "spawned"]
            /\ remaining_producers' = Cardinality(Producers)
       ELSE UNCHANGED <<firer, remaining_producers>>
  /\ UNCHANGED <<target, packet, routed, back, alive, free_pool, tickets, ready_fifo,
                 terminating, content, consumed>>

(* The blocks the producers have routed, with the ones they are at. *)
Taken == {x \in Block : x[2] <= routed[x[1]] + (IF producer[x[1]] \in {"acquiring", "stored"} THEN 1 ELSE 0)}

(* The policy picks any target; acquireBuffer draws a ticket ... *)
acquireBuffer(p, t) ==
  /\ producer[p] = "routing"
  /\ routed[p] < MaxBlocks /\ Cardinality(Taken) < MaxRouted
  /\ producer' = [producer EXCEPT ![p] = "acquiring"]
  /\ target' = [target EXCEPT ![p] = t]
  /\ draw(p, pool(t))
  /\ UNCHANGED <<packet, routed, remaining_producers, firer, back, alive, free_pool,
                 ready_fifo, terminating, content, consumed>>

(* ... and returns the packet, in which the generated code stores the block. *)
store(p) ==
  /\ producer[p] = "acquiring"
  /\ take(p, pool(target[p]))
  /\ producer' = [producer EXCEPT ![p] = "stored"]
  /\ content' = [content EXCEPT ![packet'[p]] = <<p, routed[p] + 1>>]
  /\ UNCHANGED <<target, routed, remaining_producers, firer, back, alive, ready_fifo,
                 terminating, consumed>>

releaseBuffer(p) ==
  /\ producer[p] = "stored"
  /\ ready_fifo' = [ready_fifo EXCEPT ![target[p]] = Append(@, packet[p])]
  /\ packet' = [packet EXCEPT ![p] = None]
  /\ routed' = [routed EXCEPT ![p] = @ + 1]
  /\ producer' = [producer EXCEPT ![p] = "routing"]
  /\ UNCHANGED <<target, remaining_producers, firer, back, alive, free_pool, tickets,
                 terminating, content, consumed>>

(* Variant: the counter is compared before it is decremented. *)
close_postdecrement(p) ==
  /\ producer[p] = "routing"
  /\ remaining_producers' = remaining_producers - 1
  /\ producer' = [producer EXCEPT ![p] =
                    IF remaining_producers = 0 THEN "closing" ELSE "closed"]
  /\ target' = [target EXCEPT ![p] = 0]
  /\ UNCHANGED <<packet, routed, firer, back, alive, free_pool, tickets, ready_fifo,
                 terminating, content, consumed>>

(* --remaining_producers; the last one goes on to close the queues, ... *)
close(p) ==
  /\ producer[p] = "routing"
  /\ remaining_producers' = remaining_producers - 1
  /\ producer' = [producer EXCEPT ![p] =
                    IF remaining_producers' = 0 THEN "closing" ELSE "closed"]
  /\ target' = [target EXCEPT ![p] = 0]
  /\ UNCHANGED <<packet, routed, firer, back, alive, free_pool, tickets, ready_fifo,
                 terminating, content, consumed>>

(* ... one after the other: close() of a queue ... *)
close_fifo(p) ==
  /\ producer[p] = "closing" /\ target[p] < fanout
  /\ target[p] \notin terminating
  /\ terminating' = terminating \cup {target[p]}
  /\ UNCHANGED <<producer, target, packet, routed, remaining_producers, firer, back, alive,
                 free_pool, tickets, ready_fifo, content, consumed>>

(* ... returns when it is empty ... *)
close_fifo_return(p) ==
  /\ producer[p] = "closing" /\ target[p] \in terminating
  /\ ready_fifo[target[p]] = <<>>
  /\ target' = [target EXCEPT ![p] = @ + 1]
  /\ UNCHANGED <<producer, packet, routed, remaining_producers, firer, back, alive, free_pool,
                 tickets, ready_fifo, terminating, content, consumed>>

(* ... joins the firing threads and deletes pools and queues. *)
join(p) ==
  /\ producer[p] = "closing" /\ target[p] = fanout
  /\ \A t \in Targets : firer[t] = "done"
  /\ producer' = [producer EXCEPT ![p] = "closed"]
  /\ firer' = [t \in Targets |-> "none"]
  /\ free_pool' = [t \in Targets |-> <<>>]
  /\ UNCHANGED <<target, packet, routed, remaining_producers, back, alive, tickets, ready_fifo,
                 terminating, content, consumed>>

-----------------------------------------------------------------------------
(* The firing thread allocates its packets and fills the pool. *)
fire_open(t) ==
  /\ firer[t] = "spawned"
  /\ firer' = [firer EXCEPT ![t] = "popping"]
  /\ alive' = alive \cup {t}
  /\ free_pool' = [free_pool EXCEPT ![pool(t)] = @ \o [j \in 1 .. slack |-> <<t, j>>]]
  /\ UNCHANGED <<producer, target, packet, routed, remaining_producers, back, tickets,
                 ready_fifo, terminating, content, consumed>>

(* Variant: the packet goes back to the pool before it was consumed, too. *)
get_ready_freed(t) ==
  /\ firer[t] = "popping" /\ ready_fifo[t] # <<>>
  /\ packet' = [packet EXCEPT ![t] = Head(ready_fifo[t])]
  /\ ready_fifo' = [ready_fifo EXCEPT ![t] = Tail(@)]
  /\ free_pool' = [free_pool EXCEPT ![pool(t)] = Append(@, Head(ready_fifo[t]))]
  /\ firer' = [firer EXCEPT ![t] = "consuming"]
  /\ UNCHANGED <<producer, target, routed, remaining_producers, back, alive, tickets,
                 terminating, content, consumed>>

(* get_ready returns a packet, ... *)
get_ready(t) ==
  /\ firer[t] = "popping" /\ ready_fifo[t] # <<>>
  /\ packet' = [packet EXCEPT ![t] = Head(ready_fifo[t])]
  /\ ready_fifo' = [ready_fifo EXCEPT ![t] = Tail(@)]
  /\ firer' = [firer EXCEPT ![t] = "consuming"]
  /\ UNCHANGED <<producer, target, routed, remaining_producers, back, alive, free_pool, tickets,
                 terminating, content, consumed>>

(* ... the pipeline consumes its block (or whatever it finds in a packet whose memory
   was freed) ... *)
consume(t) ==
  /\ firer[t] = "consuming"
  /\ consumed' = IF content[packet[t]] \in Block
                   THEN [consumed EXCEPT ![content[packet[t]]] = @ + 1]
                   ELSE consumed
  /\ firer' = [firer EXCEPT ![t] = "freeing"]
  /\ UNCHANGED <<producer, target, packet, routed, remaining_producers, back, alive, free_pool,
                 tickets, ready_fifo, terminating, content>>

(* ... and the packet goes back to the pool. *)
freeBuffer(t) ==
  /\ firer[t] = "freeing"
  /\ free_pool' = [free_pool EXCEPT ![pool(t)] = Append(@, packet[t])]
  /\ packet' = [packet EXCEPT ![t] = None]
  /\ firer' = [firer EXCEPT ![t] = "popping"]
  /\ UNCHANGED <<producer, target, routed, remaining_producers, back, alive, tickets,
                 ready_fifo, terminating, content, consumed>>

(* get_ready returns false: the pipeline is closed. *)
fire_end(t) ==
  /\ firer[t] = "popping" /\ ready_fifo[t] = <<>> /\ t \in terminating
  /\ firer' = [firer EXCEPT ![t] = "ending"]
  /\ UNCHANGED <<producer, target, packet, routed, remaining_producers, back, alive, free_pool,
                 tickets, ready_fifo, terminating, content, consumed>>

(* As many packets as were allocated are acquired again, one by one, ... *)
fire_reacquire(t) ==
  /\ firer[t] = "ending" /\ Cardinality(back[t]) < slack
  /\ \/ /\ t \notin Range(tickets[pool(t)])
        /\ draw(t, pool(t))
        /\ UNCHANGED <<back, free_pool>>
     \/ \E i \in 1 .. Len(tickets[pool(t)]) :
          /\ tickets[pool(t)][i] = t /\ i <= Len(free_pool[pool(t)])
          /\ back' = [back EXCEPT ![t] = @ \cup {free_pool[pool(t)][i]}]
          /\ free_pool' = [free_pool EXCEPT ![pool(t)] = RemoveAt(@, i)]
          /\ tickets' = [tickets EXCEPT ![pool(t)] = RemoveAt(@, i)]
  /\ UNCHANGED <<producer, target, packet, routed, remaining_producers, firer, alive,
                 ready_fifo, terminating, content, consumed>>

(* ... and the memory is freed, with the packets that were allocated and not those that
   came back: what they hold may be overwritten from now on. *)
fire_close(t) ==
  /\ firer[t] = "ending" /\ Cardinality(back[t]) = slack
  /\ alive' = alive \ {t}
  /\ content' \in {content, [b \in Packet |-> IF b[1] = t THEN None ELSE content[b]]}
  /\ firer' = [firer EXCEPT ![t] = "done"]
  /\ UNCHANGED <<producer, target, packet, routed, remaining_producers, back, free_pool,
                 tickets, ready_fifo, terminating, consumed>>

Produce(p) ==
  \/ open(p) \/ (\E t \in Targets : acquireBuffer(p, t)) \/ store(p) \/ releaseBuffer(p)
  \/ close(p) \/ close_fifo(p) \/ close_fifo_return(p) \/ join(p)

Fire(t) ==
  \/ fire_open(t) \/ get_ready(t) \/ consume(t) \/ freeBuffer(t)
  \/ fire_end(t) \/ fire_reacquire(t) \/ fire_close(t)

Next ==
  /\ \/ \E p \in Producers : Produce(p)
     \/ \E t \in Targets : Fire(t)
  /\ UNCHANGED shared

(* The producers' scans are finite and the pipelines' calls return: a thread
   that is not waiting goes on. *)
Fairness ==
  /\ \A p \in Producers : WF_vars(Produce(p) /\ UNCHANGED shared)
  /\ \A t \in Targets : WF_vars(Fire(t) /\ UNCHANGED shared)

Spec == Init /\ [][Next]_vars /\ Fairness

-----------------------------------------------------------------------------
(* Every variable keeps its type; CHECK_GE(rem, 0) in close never fails. *)
TypeOK ==
  /\ shared \in BOOLEAN
  /\ producer \in [Producers -> {"new", "routing", "acquiring", "stored", "closing", "closed"}]
  /\ target \in [Producers -> 0 .. fanout]
  /\ packet \in [Threads -> Packet \cup {None}]
  /\ routed \in [Producers -> 0 .. MaxBlocks]
  /\ remaining_producers \in 0 .. Cardinality(Producers)
  /\ firer \in [Targets -> {"none", "spawned", "popping", "consuming", "freeing", "ending", "done"}]
  /\ back \in [Targets -> SUBSET Packet]
  /\ alive \subseteq Targets
  /\ free_pool \in [Targets -> Seq(Packet)]
  /\ tickets \in [Targets -> Seq(Threads)]
  /\ ready_fifo \in [Targets -> Seq(Packet)]
  /\ terminating \subseteq Targets
  /\ content \in [Packet -> Block \cup {None}]
  /\ consumed \in [Block -> Nat]

(* The packets some thread has or is about to read. *)
InUse == {packet[w] : w \in {v \in Threads : packet[v] # None}}
           \cup UNION {Range(ready_fifo[t]) : t \in Targets}

(* A firing thread has freed its memory with packets of another target in exchange
   for its own. *)
Strayed == \E t \in Targets \ alive : \E b \in back[t] : b[1] # t

(* fire() frees its memory only when none of its packets is in use, neither by
   a producer nor in a queue nor by a pipeline that consumes it - unless the
   packets it has re-acquired are not its own, which happens when the random
   policy shares one pool between the targets. *)
PacketsAlive ==
  \/ \A b \in InUse : b[1] \in alive
  \/ shared /\ Strayed

(* The places in the ready queues. *)
Queued == UNION {{t} \X (1 .. Len(ready_fifo[t])) : t \in Targets}

(* Every block a producer has pushed is in one place: it waits in a queue, is
   being consumed, or has been consumed once; no packet is filled again before
   its block was consumed - unless a thread has freed packets that were not back. *)
DeliveredExactlyOnce ==
  ~(shared /\ Strayed) => \A p \in Producers : \A k \in 1 .. routed[p] :
    consumed[<<p, k>>]
      + Cardinality({t \in Targets : firer[t] = "consuming" /\ content[packet[t]] = <<p, k>>})
      + Cardinality({e \in Queued : content[ready_fifo[e[1]][e[2]]] = <<p, k>>})
    = 1

(* The query ends: every producer closes, and the last one joins the firing
   threads, each of which has found as many packets as it had put in a pool. *)
QueryEnds ==
  <>(/\ \A p \in Producers : producer[p] = "closed"
     /\ \A t \in Targets : firer[t] = "none")

(* The invariant of the exchange: types, with them CHECK_GE(rem, 0) of close(),
   and every block stored by consume() in exactly one place. *)
RouterInv == TypeOK /\ DeliveredExactlyOnce
=============================================================================
