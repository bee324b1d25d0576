---------------------------- MODULE TicketQueue ----------------------------
(***************************************************************************)
(* AsyncQueueMPMCWithSleep (and AsyncQueueMPMC, the same without the       *)
(* sleep): the ring through which the packets of the routers circulate.    *)
(*                                                                         *)
(* A push draws a ticket from occ and a pop one from occrev; the slot is   *)
(* the ticket modulo N and carries the ticket of its last writer.  A push  *)
(* waits only until the ticket N before its own was drawn by some pop; a   *)
(* pop polls its slot until it carries its ticket.                         *)
(*                                                                         *)
(* Every atomic access that others can see is a step.  The sleep of pop    *)
(* ends after 20 ms at the latest and it polls again, so it is a delay and *)
(* no state of its own, and neither is the notification of a push.         *)
(***************************************************************************)
EXTENDS Integers, FiniteSets

CONSTANTS
  Pushers, Poppers,  \* threads
  Items,             \* the packets that circulate
  N,                 \* slots of the ring (2048)
  MaxTickets,        \* bound: pushes in a behaviour
  None               \* not an item

(* A router has slack packets for each consumer, a few dozen; the ring is made
   for all of them. *)
ASSUME TicketAssumption ==
  /\ N \in Nat \ {0}
  /\ MaxTickets \in Nat
  /\ IsFiniteSet(Items) /\ Cardinality(Items) <= N
  /\ None \notin Items

VARIABLES
  occ,          \* next ticket of a push
  occrev,       \* next ticket of a pop
  slot,         \* data: first and second of each entry
  terminating,
  pusher,       \* where each emplace is, its ticket and its item
  popper,       \* where each pop is and its ticket
  outside,      \* items that are neither in the ring nor being pushed
  live,         \* tickets published and not yet taken, with their items
  overtaken     \* HISTORY: a pop has read its item before one with an older ticket

vars == <<occ, occrev, slot, terminating, pusher, popper, outside, live, overtaken>>

Idle == [at |-> "idle", ticket |-> 0]
IdlePusher == [at |-> "idle", ticket |-> 0, item |-> None]

Init ==
  /\ occ = 0
  /\ occrev = 0
  /\ slot = [i \in 0 .. N - 1 |-> [first |-> None, second |-> -1]]
  /\ terminating = FALSE
  /\ pusher = [p \in Pushers |-> IdlePusher]
  /\ popper = [c \in Poppers |-> Idle]
  /\ outside = Items
  /\ live = {}
  /\ overtaken = FALSE

-----------------------------------------------------------------------------
(* Variant: one slot of the ring is never used. *)
entry_but_one(ticket) == ticket % (N - 1)

(* The slot of a ticket. *)
entry(ticket) == ticket % N

(* auto locc = occ++; nobody pushes to a ring that was closed. *)
emplace_reserve(p, x) ==
  /\ pusher[p].at = "idle" /\ x \in outside
  /\ ~terminating /\ occ < MaxTickets
  /\ pusher' = [pusher EXCEPT ![p] = [at |-> "reserved", ticket |-> occ, item |-> x]]
  /\ occ' = occ + 1
  /\ outside' = outside \ {x}
  /\ UNCHANGED <<occrev, slot, terminating, popper, live, overtaken>>

(* Variant: the ring's length is added on the wrong side. *)
emplace_write_wrong_side(p) ==
  LET locc == pusher[p].ticket
  IN  /\ pusher[p].at = "reserved"
      /\ occrev > locc + N
      /\ slot' = [slot EXCEPT ![entry(locc)].first = pusher[p].item]
      /\ pusher' = [pusher EXCEPT ![p].at = "written"]
      /\ UNCHANGED <<occ, occrev, terminating, popper, outside, live, overtaken>>

(* Wait while occrev + N <= locc, then write first ... *)
emplace_write(p) ==
  LET locc == pusher[p].ticket
  IN  /\ pusher[p].at = "reserved"
      /\ occrev + N > locc
      /\ slot' = [slot EXCEPT ![entry(locc)].first = pusher[p].item]
      /\ pusher' = [pusher EXCEPT ![p].at = "written"]
      /\ UNCHANGED <<occ, occrev, terminating, popper, outside, live, overtaken>>

(* ... and publish it with its ticket. *)
emplace_publish(p) ==
  LET locc == pusher[p].ticket
  IN  /\ pusher[p].at = "written"
      /\ slot' = [slot EXCEPT ![entry(locc)].second = locc]
      /\ live' = live \cup {[ticket |-> locc, item |-> pusher[p].item]}
      /\ pusher' = [pusher EXCEPT ![p] = IdlePusher]
      /\ UNCHANGED <<occ, occrev, terminating, popper, outside, overtaken>>

-----------------------------------------------------------------------------
(* reserve = occrev++ *)
pop_reserve(c) ==
  /\ popper[c].at = "idle"
  /\ occrev < MaxTickets
  /\ popper' = [popper EXCEPT ![c] = [at |-> "polling", ticket |-> occrev]]
  /\ occrev' = occrev + 1
  /\ UNCHANGED <<occ, slot, terminating, pusher, outside, live, overtaken>>

(* ref.second == reserve ... *)
pop_match(c) ==
  /\ popper[c].at = "polling"
  /\ slot[entry(popper[c].ticket)].second = popper[c].ticket
  /\ popper' = [popper EXCEPT ![c].at = "matched"]
  /\ UNCHANGED <<occ, occrev, slot, terminating, pusher, outside, live, overtaken>>

(* ... and ref.first is moved out. *)
pop_take(c) ==
  LET reserve == popper[c].ticket
  IN  /\ popper[c].at = "matched"
      /\ outside' = outside \cup {slot[entry(reserve)].first}
      /\ live' = {e \in live : e.ticket # reserve}
      /\ overtaken' = (overtaken \/ \E d \in Poppers :
                         popper[d].at # "idle" /\ popper[d].ticket < reserve)
      /\ popper' = [popper EXCEPT ![c] = Idle]
      /\ UNCHANGED <<occ, occrev, slot, terminating, pusher>>

(* The ring is closed and nobody has drawn this ticket. *)
pop_end(c) ==
  /\ popper[c].at = "polling" /\ terminating
  /\ slot[entry(popper[c].ticket)].second # popper[c].ticket
  /\ occ <= popper[c].ticket
  /\ popper' = [popper EXCEPT ![c] = Idle]
  /\ UNCHANGED <<occ, occrev, slot, terminating, pusher, outside, live, overtaken>>

close ==
  /\ ~terminating
  /\ terminating' = TRUE
  /\ UNCHANGED <<occ, occrev, slot, pusher, popper, outside, live, overtaken>>

(* Variant: the tickets drawn in vain are not given back. *)
reset_keeps_tickets ==
  /\ terminating
  /\ \A p \in Pushers : pusher[p].at = "idle"
  /\ \A c \in Poppers : popper[c].at = "idle"
  /\ terminating' = FALSE
  /\ occrev' = IF occrev < occ THEN occ ELSE occrev
  /\ outside' = outside \cup {e.item : e \in live}
  /\ live' = {}
  /\ UNCHANGED <<occ, slot, pusher, popper, overtaken>>

(* reset, when no other thread uses the ring: what is left is popped and
   dropped, and the tickets that pops have drawn in vain are given back. *)
reset ==
  /\ terminating
  /\ \A p \in Pushers : pusher[p].at = "idle"
  /\ \A c \in Poppers : popper[c].at = "idle"
  /\ terminating' = FALSE
  /\ occrev' = occ
  /\ outside' = outside \cup {e.item : e \in live}
  /\ live' = {}
  /\ UNCHANGED <<occ, slot, pusher, popper, overtaken>>

Push(p) == (\E x \in Items : emplace_reserve(p, x)) \/ emplace_write(p) \/ emplace_publish(p)
Pop(c) == pop_reserve(c) \/ pop_match(c) \/ pop_take(c) \/ pop_end(c)

Next ==
  \/ \E p \in Pushers : Push(p)
  \/ \E c \in Poppers : Pop(c)
  \/ close
  \/ reset

(* A thread inside emplace or pop keeps running; nobody has to start a call. *)
Fairness ==
  /\ \A p \in Pushers : WF_vars(emplace_write(p)) /\ WF_vars(emplace_publish(p))
  /\ \A c \in Poppers : WF_vars(pop_match(c)) /\ WF_vars(pop_take(c))

Spec == Init /\ [][Next]_vars /\ Fairness

-----------------------------------------------------------------------------
(* Every variable keeps its type. *)
TypeOK ==
  /\ occ \in 0 .. MaxTickets
  /\ occrev \in 0 .. MaxTickets
  /\ slot \in [0 .. N - 1 -> [first : Items \cup {None}, second : -1 .. MaxTickets - 1]]
  /\ terminating \in BOOLEAN
  /\ pusher \in [Pushers -> [at : {"idle", "reserved", "written"},
                             ticket : 0 .. MaxTickets, item : Items \cup {None}]]
  /\ popper \in [Poppers -> [at : {"idle", "polling", "matched"}, ticket : 0 .. MaxTickets]]
  /\ outside \subseteq Items
  /\ overtaken \in BOOLEAN
  /\ live \subseteq [ticket : 0 .. MaxTickets - 1, item : Items]

(* No push overwrites a slot whose item was not taken yet, though it waits
   only for the slot's ticket to be drawn and not for its item to be read -
   unless a pop was overtaken by one with a younger ticket.  (Then the packet
   the other pop took comes round again and lands on the unread slot.) *)
NothingOverwritten ==
  overtaken \/
  \A e \in live : slot[entry(e.ticket)] = [first |-> e.item, second |-> e.ticket]

(* Every packet published in an open ring can still be popped: its ticket was
   not drawn, or the pop that drew it is still polling; also after a reset. *)
PacketsReachable ==
  \A e \in live : \/ e.ticket >= occrev
                  \/ \E c \in Poppers : popper[c].at # "idle" /\ popper[c].ticket = e.ticket

(* A pop whose ticket some push has drawn returns, unless pops overtake. *)
PopReturns ==
  \A c \in Poppers :
    (popper[c].at = "polling" /\ popper[c].ticket < occ)
      ~> (popper[c].at = "idle" \/ overtaken)

(* The calls under way; the tickets that pops have drawn, and those that still
   belong to a packet. *)
Pushing(p) == pusher[p].at # "idle"
Popping(c) == popper[c].at # "idle"
Drawn(k) == \E c \in Poppers : Popping(c) /\ popper[c].ticket = k
Owned(k) == (\E p \in Pushers : Pushing(p) /\ pusher[p].ticket = k) \/ (\E e \in live : e.ticket = k)

(* The tickets of emplace calls are their own and can still be popped; a packet
   is written at most a round ahead of the pops. *)
PushTickets ==
  \A p \in Pushers : Pushing(p) =>
    /\ pusher[p].ticket < occ /\ pusher[p].item \in Items
    /\ pusher[p].ticket >= occrev \/ Drawn(pusher[p].ticket)
    /\ \A q \in Pushers : Pushing(q) /\ q # p => pusher[q].ticket # pusher[p].ticket
    /\ \A e \in live : e.ticket # pusher[p].ticket
    /\ \A i \in 0 .. N - 1 : slot[i].second # pusher[p].ticket
    /\ pusher[p].at = "written" => /\ pusher[p].ticket < occrev + N
                                   /\ slot[entry(pusher[p].ticket)].first \in Items

(* What was published has a ticket of its own, too. *)
LiveTickets ==
  /\ \A i \in 0 .. N - 1 : slot[i].second < occ /\ (slot[i].second # -1 => slot[i].first \in Items)
  /\ \A e \in live : e.ticket < occ /\ e.ticket < occrev + N
  /\ \A e, f \in live : e.ticket = f.ticket => e = f

(* The tickets of pops are their own; a pop that found its ticket in the slot is
   not ahead of the push; pops that are ahead of all pushes are still waiting. *)
PopTickets ==
  /\ \A c \in Poppers : Popping(c) =>
       /\ popper[c].ticket < occrev
       /\ \A d \in Poppers : Popping(d) /\ d # c => popper[d].ticket # popper[c].ticket
       /\ popper[c].at = "matched" =>
            /\ popper[c].ticket < occ
            /\ slot[entry(popper[c].ticket)].first \in Items
            /\ \A p \in Pushers : Pushing(p) => pusher[p].ticket # popper[c].ticket
  /\ ~terminating => \A k \in occ .. occrev - 1 : Drawn(k)

(* Every ticket that a pop may still come to belongs to a packet. *)
NoGaps ==
  /\ \A k \in occrev .. occ - 1 : Owned(k)
  /\ \A c \in Poppers : Popping(c) => \A k \in popper[c].ticket .. occ - 1 : Owned(k)

(* Every packet is in one place: outside, being pushed, or in the ring. *)
ItemsOnce ==
  /\ \A p \in Pushers : Pushing(p) =>
       /\ pusher[p].item \notin outside
       /\ \A q \in Pushers : Pushing(q) /\ q # p => pusher[q].item # pusher[p].item
       /\ \A e \in live : e.item # pusher[p].item
       /\ pusher[p].at = "written" => slot[entry(pusher[p].ticket)].first = pusher[p].item
  /\ \A e \in live : e.item \notin outside
  /\ \A e, f \in live : e.item = f.item => e = f

(* The invariant of the ring: types, every published packet of emplace can
   still be popped, tickets are drawn once, and until a pop is overtaken no
   packet is lost or doubled. *)
RingInv ==
  /\ TypeOK /\ PacketsReachable
  /\ PushTickets /\ LiveTickets /\ PopTickets
  /\ overtaken \/ (NoGaps /\ ItemsOnce)
=============================================================================
