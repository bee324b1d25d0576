------------------------- MODULE TicketQueue_proofs -------------------------
(***************************************************************************)
(* Proofs about TicketQueue, for any number of threads, packets and slots: *)
(* tickets are drawn once, a published packet can be popped, and until a   *)
(* pop is overtaken no push overwrites a packet that was not taken.        *)
(***************************************************************************)
EXTENDS TicketQueue, TLAPS

(* The time a leaf may take, so that no proof depends on the speed of the machine. *)
USE SMTT(60)

(* The ring starts empty. *)
LEMMA RingInit ==
  ASSUME Init
  PROVE  RingInv /\ NothingOverwritten
PROOF
  <1>n. N \in Nat \ {0} /\ MaxTickets \in Nat
    BY Zenon, TicketAssumption
  <1>0. /\ occ = 0 /\ occrev = 0 /\ terminating = FALSE /\ overtaken = FALSE
        /\ outside = Items /\ live = {}
        /\ slot = [i \in 0 .. N - 1 |-> [first |-> None, second |-> -1]]
        /\ pusher = [p \in Pushers |-> IdlePusher] /\ popper = [c \in Poppers |-> Idle]
    BY Zenon DEF Init
  <1>1. TypeOK
    <2>1. slot \in [0 .. N - 1 -> [first : Items \cup {None}, second : -1 .. MaxTickets - 1]]
      BY <1>0, <1>n
    <2>2. pusher \in [Pushers -> [at : {"idle", "reserved", "written"},
                                 ticket : 0 .. MaxTickets, item : Items \cup {None}]]
      BY <1>0, <1>n DEF IdlePusher
    <2>3. popper \in [Poppers -> [at : {"idle", "polling", "matched"}, ticket : 0 .. MaxTickets]]
      BY <1>0, <1>n DEF Idle
    <2>4. occ \in 0 .. MaxTickets /\ occrev \in 0 .. MaxTickets
      BY <1>0, <1>n
    <2>5. /\ terminating \in BOOLEAN /\ overtaken \in BOOLEAN /\ outside \subseteq Items
          /\ live \subseteq [ticket : 0 .. MaxTickets - 1, item : Items]
      BY Zenon, <1>0
    <2> QED
      BY Zenon, <2>1, <2>2, <2>3, <2>4, <2>5 DEF TypeOK
  <1>2. (\A p \in Pushers : ~Pushing(p)) /\ (\A c \in Poppers : ~Popping(c))
    BY Zenon, <1>0 DEF Pushing, Popping, Idle, IdlePusher
  <1>3. \A k \in 0 .. 0 - 1 : FALSE
    OBVIOUS
  <1>4. PacketsReachable /\ PushTickets /\ ItemsOnce /\ NothingOverwritten
    BY Zenon, <1>0, <1>2 DEF PacketsReachable, PushTickets, ItemsOnce, NothingOverwritten
  <1>5. PopTickets /\ NoGaps
    BY Zenon, <1>0, <1>2, <1>3 DEF PopTickets, NoGaps
  <1>6. LiveTickets
    <2>1. \A i \in 0 .. N - 1 : slot[i].second = -1
      BY Zenon, <1>0
    <2> QED
      BY <1>0, <2>1 DEF LiveTickets
  <1> QED
    BY Zenon, <1>1, <1>4, <1>5, <1>6 DEF RingInv

(* The quotient and the remainder of a ticket. *)
LEMMA DivMod ==
  ASSUME NEW n \in Nat \ {0}, NEW a \in Nat
  PROVE  a = n * (a \div n) + (a % n) /\ a \div n \in Nat /\ a % n \in 0 .. n - 1
OBVIOUS

(* Different multiples of n are at least n apart. *)
LEMMA MultiplesApart ==
  ASSUME NEW n \in Nat \ {0}, NEW x \in Nat, NEW y \in Nat, n * x < n * y
  PROVE  n * y - n * x >= n
PROOF
  <1>1. y >= x + 1
    OBVIOUS
  <1> QED
    BY <1>1

(* Two tickets with the same slot are at least a round of the ring apart. *)
LEMMA SameSlotApart ==
  ASSUME NEW a \in Nat, NEW b \in Nat, a < b, entry(a) = entry(b)
  PROVE  b - a >= N
PROOF
  <1>1. N \in Nat \ {0}
    BY Zenon, TicketAssumption
  <1>2. PICK x \in Nat, y \in Nat, r \in Int : a = N * x + r /\ b = N * y + r
    <2>1. a = N * (a \div N) + entry(a) /\ a \div N \in Nat
      BY Zenon, <1>1, DivMod DEF entry
    <2>3. entry(a) \in Int
      BY <1>1, DivMod DEF entry
    <2>2. b = N * (b \div N) + entry(b) /\ b \div N \in Nat
      BY Zenon, <1>1, DivMod DEF entry
    <2> QED
      BY Zenon, <2>1, <2>2, <2>3
  <1>3. N * x \in Int /\ N * y \in Int
    BY <1>1
  <1>4. N * x < N * y
    BY <1>2, <1>3
  <1>5. N * y - N * x >= N
    BY Zenon, <1>1, <1>4, MultiplesApart
  <1> QED
    BY <1>1, <1>2, <1>3, <1>5

(* The slot of a ticket is in the ring. *)
LEMMA EntryType ==
  ASSUME NEW a \in Nat
  PROVE  entry(a) \in 0 .. N - 1
BY Zenon, TicketAssumption, DivMod DEF entry

(* The packet x has the ticket k. *)
Holds(k, x) ==
  \/ \E p \in Pushers : Pushing(p) /\ pusher[p].ticket = k /\ pusher[p].item = x
  \/ \E e \in live : e.ticket = k /\ e.item = x

(* A ticket is of a packet, that of a push under way or of the ring. *)
LEMMA OwnedHolds ==
  ASSUME TypeOK, PushTickets, LiveTickets, NEW k, Owned(k)
  PROVE  k < occ /\ \E x \in Items : Holds(k, x)
PROOF
  <1>1. CASE \E p \in Pushers : Pushing(p) /\ pusher[p].ticket = k
    BY Zenon, <1>1 DEF PushTickets, Holds
  <1>2. CASE \E e \in live : e.ticket = k
    BY Zenon, <1>2 DEF LiveTickets, Holds, TypeOK
  <1> QED
    BY Zenon, <1>1, <1>2 DEF Owned

(* While packets are in one place, they have one ticket. *)
LEMMA HoldsOnce ==
  ASSUME ItemsOnce, NEW k, NEW m, NEW x, Holds(k, x), Holds(m, x)
  PROVE  k = m
BY DEF Holds, ItemsOnce

-----------------------------------------------------------------------------
(* The slot of a call under way is in the ring. *)
LEMMA EntryOfPush ==
  ASSUME TypeOK, NEW p \in Pushers
  PROVE  pusher[p].ticket \in Nat /\ entry(pusher[p].ticket) \in 0 .. N - 1
PROOF
  <1>1. pusher[p].ticket \in Nat
    BY TicketAssumption DEF TypeOK
  <1> QED
    BY Zenon, <1>1, EntryType

LEMMA EntryOfPop ==
  ASSUME TypeOK, NEW c \in Poppers
  PROVE  popper[c].ticket \in Nat /\ entry(popper[c].ticket) \in 0 .. N - 1
PROOF
  <1>1. popper[c].ticket \in Nat
    BY TicketAssumption DEF TypeOK
  <1> QED
    BY Zenon, <1>1, EntryType

LEMMA EntryOfLive ==
  ASSUME TypeOK, NEW e \in live
  PROVE  e.ticket \in Nat /\ entry(e.ticket) \in 0 .. N - 1
PROOF
  <1>1. e.ticket \in Nat
    BY TicketAssumption DEF TypeOK
  <1> QED
    BY Zenon, <1>1, EntryType

(* A store to one field of a slot or of a call keeps the types of the others. *)
LEMMA SlotStore ==
  ASSUME NEW S, NEW A, NEW B, NEW f \in [S -> [first : A, second : B]], NEW i \in S
  PROVE  /\ \A x \in A : [f EXCEPT ![i].first = x] \in [S -> [first : A, second : B]]
         /\ \A k \in B : [f EXCEPT ![i].second = k] \in [S -> [first : A, second : B]]
BY Zenon

LEMMA CallStore ==
  ASSUME NEW S, NEW A, NEW B, NEW C, NEW f \in [S -> [at : A, ticket : B, item : C]], NEW p \in S
  PROVE  \A a \in A : [f EXCEPT ![p].at = a] \in [S -> [at : A, ticket : B, item : C]]
BY Zenon

(* Every step keeps the types. *)
LEMMA TypeStep ==
  ASSUME TypeOK, PushTickets, PopTickets, [Next]_vars
  PROVE  TypeOK'
PROOF
  <1>n. N \in Nat \ {0} /\ MaxTickets \in Nat
    BY Zenon, TicketAssumption
  <1>a. /\ occ \in 0 .. MaxTickets /\ occrev \in 0 .. MaxTickets
        /\ slot \in [0 .. N - 1 -> [first : Items \cup {None}, second : -1 .. MaxTickets - 1]]
        /\ pusher \in [Pushers -> [at : {"idle", "reserved", "written"},
                                   ticket : 0 .. MaxTickets, item : Items \cup {None}]]
        /\ popper \in [Poppers -> [at : {"idle", "polling", "matched"}, ticket : 0 .. MaxTickets]]
        /\ outside \subseteq Items
        /\ live \subseteq [ticket : 0 .. MaxTickets - 1, item : Items]
    BY Zenon DEF TypeOK
  <1>1. ASSUME NEW p \in Pushers, NEW x \in Items, emplace_reserve(p, x)
        PROVE  TypeOK'
    BY <1>1, <1>n DEF emplace_reserve, TypeOK
  <1>2. ASSUME NEW p \in Pushers, emplace_write(p)
        PROVE  TypeOK'
    <2>1. PICK i \in 0 .. N - 1 : i = entry(pusher[p].ticket)
      BY Zenon, EntryOfPush
    <2>2. PICK x \in Items \cup {None} : x = pusher[p].item
      BY Zenon, <1>a
    <2>3. slot' = [slot EXCEPT ![i].first = x]
      BY Zenon, <1>2, <2>1, <2>2 DEF emplace_write
    <2>4. slot' \in [0 .. N - 1 -> [first : Items \cup {None}, second : -1 .. MaxTickets - 1]]
      BY Zenon, <1>a, <2>3, SlotStore
    <2>5. pusher' \in [Pushers -> [at : {"idle", "reserved", "written"},
                                   ticket : 0 .. MaxTickets, item : Items \cup {None}]]
      <3>1. pusher' = [pusher EXCEPT ![p].at = "written"]
        BY Zenon, <1>2 DEF emplace_write
      <3>2. "written" \in {"idle", "reserved", "written"}
        BY Zenon
      <3> QED
        BY ZenonT(60), <1>a, <3>1, <3>2, CallStore
    <2> QED
      BY Zenon, <1>2, <2>4, <2>5 DEF emplace_write, TypeOK
  <1>3. ASSUME NEW p \in Pushers, emplace_publish(p)
        PROVE  TypeOK'
    <2>1. PICK i \in 0 .. N - 1 : i = entry(pusher[p].ticket)
      BY Zenon, EntryOfPush
    <2>2. pusher[p].ticket \in 0 .. MaxTickets - 1 /\ pusher[p].item \in Items
      BY <1>3, <1>a, <1>n DEF emplace_publish, PushTickets, Pushing
    <2>7. PICK k \in -1 .. MaxTickets - 1 : k = pusher[p].ticket
      BY <2>2, <1>n
    <2>3. slot' = [slot EXCEPT ![i].second = k]
      BY Zenon, <1>3, <2>1, <2>7 DEF emplace_publish
    <2>4. slot' \in [0 .. N - 1 -> [first : Items \cup {None}, second : -1 .. MaxTickets - 1]]
      BY Zenon, <1>a, <2>3, SlotStore
    <2>5. pusher' \in [Pushers -> [at : {"idle", "reserved", "written"},
                                   ticket : 0 .. MaxTickets, item : Items \cup {None}]]
      BY <1>3, <1>a, <1>n DEF emplace_publish, IdlePusher
    <2>6. live' \subseteq [ticket : 0 .. MaxTickets - 1, item : Items]
      BY <1>3, <1>a, <2>2 DEF emplace_publish
    <2> QED
      BY ZenonT(60), <1>3, <2>4, <2>5, <2>6 DEF emplace_publish, TypeOK
  <1>4. ASSUME NEW c \in Poppers, pop_reserve(c)
        PROVE  TypeOK'
    BY <1>4, <1>n DEF pop_reserve, TypeOK
  <1>5. ASSUME NEW c \in Poppers, pop_match(c)
        PROVE  TypeOK'
    BY <1>5 DEF pop_match, TypeOK
  <1>6. ASSUME NEW c \in Poppers, pop_take(c)
        PROVE  TypeOK'
    <2>1. slot[entry(popper[c].ticket)].first \in Items
      BY Zenon, <1>6 DEF pop_take, PopTickets, Popping
    <2>2. overtaken' \in BOOLEAN
      BY Zenon, <1>6 DEF pop_take
    <2> QED
      BY <1>6, <1>n, <2>1, <2>2 DEF pop_take, TypeOK, Idle
  <1>7. ASSUME NEW c \in Poppers, pop_end(c)
        PROVE  TypeOK'
    BY <1>7, <1>n DEF pop_end, TypeOK, Idle
  <1>8. CASE close
    BY Zenon, <1>8 DEF close, TypeOK
  <1>9. CASE reset
    <2>1. outside' \subseteq Items /\ live' \subseteq [ticket : 0 .. MaxTickets - 1, item : Items]
      BY <1>9, <1>a DEF reset
    <2> QED
      BY Zenon, <1>9, <2>1 DEF reset, TypeOK
  <1>10. CASE UNCHANGED vars
    BY Zenon, <1>10 DEF vars, TypeOK
  <1> QED
    BY Zenon, <1>1, <1>2, <1>3, <1>4, <1>5, <1>6, <1>7, <1>8, <1>9, <1>10 DEF Next, Push, Pop

(* A ticket that can still be popped, because it was not drawn or its pop is under
   way, stays so until its packet is taken or the ring is reset. *)
LEMMA StillDrawn ==
  ASSUME TypeOK, [Next]_vars, ~reset,
         NEW k \in Nat, k < occ, k >= occrev \/ Drawn(k),
         \A c \in Poppers : pop_take(c) => popper[c].ticket # k
  PROVE  k >= occrev' \/ Drawn(k)'
PROOF
  <1>t. occ \in Nat /\ occrev \in Nat /\ popper = [c \in Poppers |-> popper[c]]
    BY TicketAssumption DEF TypeOK
  <1>s. ASSUME occrev' = occrev, NEW c \in Poppers, popper[c].ticket # k,
               \A d \in Poppers : d # c => popper'[d] = popper[d]
        PROVE  k >= occrev' \/ Drawn(k)'
    BY Zenon, <1>s DEF Drawn, Popping
  <1>u. ASSUME occrev' = occrev, popper' = popper
        PROVE  k >= occrev' \/ Drawn(k)'
    BY Zenon, <1>u DEF Drawn, Popping
  <1>1. ASSUME NEW p \in Pushers, NEW x \in Items, emplace_reserve(p, x)
        PROVE  k >= occrev' \/ Drawn(k)'
    BY Zenon, <1>1, <1>u DEF emplace_reserve
  <1>2. ASSUME NEW p \in Pushers, emplace_write(p)
        PROVE  k >= occrev' \/ Drawn(k)'
    BY Zenon, <1>2, <1>u DEF emplace_write
  <1>3. ASSUME NEW p \in Pushers, emplace_publish(p)
        PROVE  k >= occrev' \/ Drawn(k)'
    BY Zenon, <1>3, <1>u DEF emplace_publish
  <1>4. ASSUME NEW c \in Poppers, pop_reserve(c)
        PROVE  k >= occrev' \/ Drawn(k)'
    <2>1. /\ occrev' = occrev + 1 /\ popper[c].at = "idle"
          /\ popper'[c].at = "polling" /\ popper'[c].ticket = occrev
          /\ \A d \in Poppers : d # c => popper'[d] = popper[d]
      BY Zenon, <1>4, <1>t DEF pop_reserve
    <2>2. CASE k = occrev
      BY Zenon, <2>1, <2>2 DEF Drawn, Popping
    <2>3. CASE k # occrev /\ k >= occrev
      BY <2>1, <2>3, <1>t
    <2>4. CASE Drawn(k)
      BY Zenon, <2>1, <2>4 DEF Drawn, Popping
    <2> QED
      BY Zenon, <2>2, <2>3, <2>4
  <1>5. ASSUME NEW c \in Poppers, pop_match(c)
        PROVE  k >= occrev' \/ Drawn(k)'
    <2>1. /\ occrev' = occrev
          /\ popper'[c].at = "matched" /\ popper'[c].ticket = popper[c].ticket
          /\ \A d \in Poppers : d # c => popper'[d] = popper[d]
      BY Zenon, <1>5, <1>t DEF pop_match, TypeOK
    <2> QED
      BY Zenon, <2>1 DEF Drawn, Popping
  <1>6. ASSUME NEW c \in Poppers, pop_take(c)
        PROVE  k >= occrev' \/ Drawn(k)'
    <2>1. occrev' = occrev /\ \A d \in Poppers : d # c => popper'[d] = popper[d]
      BY Zenon, <1>6, <1>t DEF pop_take
    <2> QED
      BY Zenon, <1>6, <2>1, <1>s
  <1>7. ASSUME NEW c \in Poppers, pop_end(c)
        PROVE  k >= occrev' \/ Drawn(k)'
    <2>1. occrev' = occrev /\ \A d \in Poppers : d # c => popper'[d] = popper[d]
      BY Zenon, <1>7, <1>t DEF pop_end
    <2>2. popper[c].ticket # k
      BY <1>7, <1>t, EntryOfPop DEF pop_end
    <2> QED
      BY Zenon, <2>1, <2>2, <1>s
  <1>8. CASE close
    BY Zenon, <1>8, <1>u DEF close
  <1>10. CASE UNCHANGED vars
    BY Zenon, <1>10, <1>u DEF vars
  <1> QED
    BY Zenon, <1>1, <1>2, <1>3, <1>4, <1>5, <1>6, <1>7, <1>8, <1>10 DEF Next, Push, Pop

(* Only emplace_publish adds to the ring. *)
LEMMA LiveGrows ==
  ASSUME [Next]_vars
  PROVE  live' \subseteq live \/ \E p \in Pushers : emplace_publish(p)
PROOF
  <1>1. ASSUME NEW p \in Pushers, Push(p), ~emplace_publish(p)
        PROVE  live' = live
    BY Zenon, <1>1 DEF Push, emplace_reserve, emplace_write
  <1>2. ASSUME NEW c \in Poppers, Pop(c)
        PROVE  live' \subseteq live
    BY Zenon, <1>2 DEF Pop, pop_reserve, pop_match, pop_take, pop_end
  <1>3. ASSUME close \/ reset \/ UNCHANGED vars
        PROVE  live' \subseteq live
    BY Zenon, <1>3 DEF close, reset, vars
  <1> QED
    BY Zenon, <1>1, <1>2, <1>3 DEF Next

(* A published packet can still be popped after every step: emplace publishes a
   ticket that is not drawn or whose pop is polling, and reset empties the ring. *)
LEMMA ReachStep ==
  ASSUME TypeOK, PacketsReachable, PushTickets, LiveTickets, PopTickets, [Next]_vars
  PROVE  PacketsReachable'
PROOF
  <1>1. CASE reset
    BY Zenon, <1>1 DEF reset, PacketsReachable
  <1>2. CASE ~reset
    <2> SUFFICES ASSUME NEW e \in live'
                 PROVE  e.ticket >= occrev' \/ Drawn(e.ticket)'
      BY Zenon DEF PacketsReachable, Drawn, Popping
    <2>1. CASE e \in live
      <3>1. e.ticket \in Nat /\ e.ticket < occ /\ (e.ticket >= occrev \/ Drawn(e.ticket))
        BY Zenon, <2>1, EntryOfLive DEF LiveTickets, PacketsReachable, Drawn, Popping
      <3>2. \A c \in Poppers : pop_take(c) => popper[c].ticket # e.ticket
        BY Zenon DEF pop_take
      <3> QED
        BY Zenon, <1>2, <3>1, <3>2, StillDrawn
    <2>2. CASE e \notin live
      <3>1. PICK p \in Pushers : emplace_publish(p) /\ e.ticket = pusher[p].ticket
        <4>1. PICK p \in Pushers : emplace_publish(p)
          BY Zenon, <2>2, LiveGrows
        <4>2. live' = live \cup {[ticket |-> pusher[p].ticket, item |-> pusher[p].item]}
          BY Zenon, <4>1 DEF emplace_publish
        <4>3. e = [ticket |-> pusher[p].ticket, item |-> pusher[p].item]
          BY Zenon, <2>2, <4>2
        <4>4. e.ticket = pusher[p].ticket
          BY <4>3
        <4> QED
          BY Zenon, <4>1, <4>4
      <3>2. e.ticket \in Nat /\ e.ticket < occ /\ (e.ticket >= occrev \/ Drawn(e.ticket))
        BY Zenon, <3>1, EntryOfPush DEF PushTickets, Pushing, emplace_publish
      <3>3. \A c \in Poppers : pop_take(c) => popper[c].ticket # e.ticket
        BY Zenon, <3>1 DEF pop_take, PopTickets, Popping, Pushing, emplace_publish
      <3> QED
        BY Zenon, <1>2, <3>2, <3>3, StillDrawn
    <2> QED
      BY Zenon, <2>1, <2>2
  <1> QED
    BY Zenon, <1>1, <1>2

(* Tickets of published packets stay their own. *)
LEMMA LiveStep ==
  ASSUME TypeOK, PushTickets, LiveTickets, [Next]_vars
  PROVE  LiveTickets'
PROOF
  <1>n. N \in Nat /\ occ \in Nat /\ occrev \in Nat
    BY TicketAssumption DEF TypeOK
  <1>t. slot \in [0 .. N - 1 -> [first : Items \cup {None}, second : -1 .. MaxTickets - 1]]
    BY Zenon DEF TypeOK
  <1>l. \A e \in live : e.ticket \in Nat
    BY Zenon, EntryOfLive
  <1>1. ASSUME NEW p \in Pushers, NEW x \in Items, emplace_reserve(p, x)
        PROVE  LiveTickets'
    <2>1. occ' = occ + 1 /\ UNCHANGED <<occrev, slot, live>>
      BY Zenon, <1>1 DEF emplace_reserve
    <2>2. \A i \in 0 .. N - 1 : slot[i].second < occ + 1
      BY <1>n, <1>t, TicketAssumption DEF LiveTickets
    <2>3. \A e \in live : e.ticket < occ + 1
      BY <1>n, <1>l DEF LiveTickets
    <2> QED
      BY Zenon, <2>1, <2>2, <2>3 DEF LiveTickets
  <1>2. ASSUME NEW p \in Pushers, emplace_write(p)
        PROVE  LiveTickets'
    <2>1. PICK j \in 0 .. N - 1 : j = entry(pusher[p].ticket)
      BY Zenon, EntryOfPush
    <2>2. pusher[p].item \in Items
      BY Zenon, <1>2 DEF emplace_write, PushTickets, Pushing
    <2>3. slot' = [slot EXCEPT ![j].first = pusher[p].item] /\ UNCHANGED <<occ, occrev, live>>
      BY Zenon, <1>2, <2>1 DEF emplace_write
    <2>4. \A i \in 0 .. N - 1 : /\ slot'[i].second = slot[i].second
                                /\ slot'[i].first = slot[i].first \/ slot'[i].first \in Items
      BY Zenon, <1>t, <2>2, <2>3
    <2> QED
      BY Zenon, <2>3, <2>4 DEF LiveTickets
  <1>3. ASSUME NEW p \in Pushers, emplace_publish(p)
        PROVE  LiveTickets'
    <2>1. PICK j \in 0 .. N - 1 : j = entry(pusher[p].ticket)
      BY Zenon, EntryOfPush
    <2>2. /\ pusher[p].ticket < occ /\ pusher[p].ticket < occrev + N
          /\ slot[j].first \in Items
          /\ \A e \in live : e.ticket # pusher[p].ticket
      BY Zenon, <1>3, <2>1 DEF emplace_publish, PushTickets, Pushing
    <2>3. /\ slot' = [slot EXCEPT ![j].second = pusher[p].ticket] /\ UNCHANGED <<occ, occrev>>
          /\ live' = live \cup {[ticket |-> pusher[p].ticket, item |-> pusher[p].item]}
      BY Zenon, <1>3, <2>1 DEF emplace_publish
    <2>4. \A i \in 0 .. N - 1 : /\ slot'[i].first = slot[i].first
                                /\ i # j => slot'[i].second = slot[i].second
                                /\ i = j => slot'[i].second = pusher[p].ticket
      BY Zenon, <1>t, <2>3
    <2>5. \A i \in 0 .. N - 1 : slot'[i].second < occ' /\ (slot'[i].second # -1 => slot'[i].first \in Items)
      BY Zenon, <2>2, <2>3, <2>4 DEF LiveTickets
    <2>6. \A e \in live' : e.ticket < occ' /\ e.ticket < occrev' + N
      BY <2>2, <2>3 DEF LiveTickets
    <2>7. \A e, f \in live' : e.ticket = f.ticket => e = f
      BY <2>2, <2>3 DEF LiveTickets
    <2> QED
      BY Zenon, <2>5, <2>6, <2>7 DEF LiveTickets
  <1>4. ASSUME NEW c \in Poppers, pop_reserve(c)
        PROVE  LiveTickets'
    <2>1. occrev' = occrev + 1 /\ UNCHANGED <<occ, slot, live>>
      BY Zenon, <1>4 DEF pop_reserve
    <2>2. \A e \in live : e.ticket < (occrev + 1) + N
      BY <1>n, <1>l DEF LiveTickets
    <2> QED
      BY Zenon, <2>1, <2>2 DEF LiveTickets
  <1>5. ASSUME NEW c \in Poppers, pop_match(c)
        PROVE  LiveTickets'
    BY Zenon, <1>5 DEF pop_match, LiveTickets
  <1>6. ASSUME NEW c \in Poppers, pop_take(c)
        PROVE  LiveTickets'
    <2>1. UNCHANGED <<occ, occrev, slot>> /\ live' \subseteq live
      BY Zenon, <1>6 DEF pop_take
    <2> QED
      BY Zenon, <2>1 DEF LiveTickets
  <1>7. ASSUME NEW c \in Poppers, pop_end(c)
        PROVE  LiveTickets'
    BY Zenon, <1>7 DEF pop_end, LiveTickets
  <1>8. CASE close
    BY Zenon, <1>8 DEF close, LiveTickets
  <1>9. CASE reset
    BY Zenon, <1>9 DEF reset, LiveTickets
  <1>10. CASE UNCHANGED vars
    BY Zenon, <1>10 DEF vars, LiveTickets
  <1> QED
    BY Zenon, <1>1, <1>2, <1>3, <1>4, <1>5, <1>6, <1>7, <1>8, <1>9, <1>10 DEF Next, Push, Pop

(* What PushTickets says of one emplace that is under way. *)
PushAt(p) ==
  /\ pusher[p].ticket < occ /\ pusher[p].item \in Items
  /\ pusher[p].ticket >= occrev \/ Drawn(pusher[p].ticket)
  /\ \A q \in Pushers : Pushing(q) /\ q # p => pusher[q].ticket # pusher[p].ticket
  /\ \A e \in live : e.ticket # pusher[p].ticket
  /\ \A i \in 0 .. N - 1 : slot[i].second # pusher[p].ticket
  /\ pusher[p].at = "written" => /\ pusher[p].ticket < occrev + N
                                 /\ slot[entry(pusher[p].ticket)].first \in Items

(* A ticket that an emplace has drawn stays its own, and can still be popped. *)
LEMMA PushReach ==
  ASSUME TypeOK, PushTickets, PopTickets, [Next]_vars, ~reset, NEW p \in Pushers, Pushing(p)
  PROVE  pusher[p].ticket >= occrev' \/ \E c \in Poppers : Popping(c)' /\ popper'[c].ticket = pusher[p].ticket
PROOF
  <1>1. PICK k \in Nat : k = pusher[p].ticket
    BY Zenon, EntryOfPush
  <1>2. k < occ /\ (k >= occrev \/ Drawn(k))
    BY Zenon, <1>1 DEF PushTickets
  <1>3. \A c \in Poppers : pop_take(c) => popper[c].ticket # k
    BY Zenon, <1>1 DEF pop_take, PopTickets, Popping
  <1>4. k >= occrev' \/ Drawn(k)'
    BY Zenon, <1>2, <1>3, StillDrawn
  <1> QED
    BY Zenon, <1>1, <1>4 DEF Drawn

LEMMA PushStep ==
  ASSUME TypeOK, PushTickets, LiveTickets, PopTickets, [Next]_vars
  PROVE  PushTickets'
PROOF
  <1>n. N \in Nat /\ occ \in Nat /\ occrev \in Nat
    BY TicketAssumption DEF TypeOK
  <1>t. /\ slot \in [0 .. N - 1 -> [first : Items \cup {None}, second : -1 .. MaxTickets - 1]]
        /\ pusher \in [Pushers -> [at : {"idle", "reserved", "written"},
                                   ticket : 0 .. MaxTickets, item : Items \cup {None}]]
    BY Zenon DEF TypeOK
  <1>e. \A q \in Pushers : pusher[q].ticket \in Nat /\ entry(pusher[q].ticket) \in 0 .. N - 1
    BY Zenon, EntryOfPush
  <1>r. ASSUME ~reset, NEW q \in Pushers, Pushing(q), pusher'[q].ticket = pusher[q].ticket
        PROVE  pusher'[q].ticket >= occrev' \/ Drawn(pusher[q].ticket)'
    BY Zenon, <1>r, PushReach DEF Drawn
  <1>u. ASSUME ~reset, pusher' = pusher, slot' = slot, occ' = occ, occrev' >= occrev, occrev' \in Nat,
               live' \subseteq live
        PROVE  PushTickets'
    <2> SUFFICES ASSUME NEW q \in Pushers, Pushing(q)'
                 PROVE  PushAt(q)'
      BY Zenon DEF PushTickets, PushAt
    <2>1. Pushing(q) /\ pusher'[q] = pusher[q]
      BY Zenon, <1>u DEF Pushing
    <2>2. pusher'[q].ticket >= occrev' \/ Drawn(pusher[q].ticket)'
      BY Zenon, <1>u, <2>1, <1>r
    <2>3. pusher[q].at = "written" => pusher[q].ticket < occrev' + N
      BY <1>u, <1>n, <1>e, <2>1 DEF PushTickets
    <2> QED
      BY Zenon, <1>u, <2>1, <2>2, <2>3 DEF PushTickets, PushAt, Pushing
  <1>1. ASSUME NEW p \in Pushers, NEW x \in Items, emplace_reserve(p, x)
        PROVE  PushTickets'
    <2>1. /\ ~terminating /\ occ' = occ + 1 /\ UNCHANGED <<occrev, slot, popper, live>>
          /\ pusher' = [pusher EXCEPT ![p] = [at |-> "reserved", ticket |-> occ, item |-> x]]
      BY Zenon, <1>1 DEF emplace_reserve
    <2>2. /\ pusher'[p] = [at |-> "reserved", ticket |-> occ, item |-> x]
          /\ \A q \in Pushers : q # p => pusher'[q] = pusher[q]
      BY Zenon, <1>t, <2>1
    <2>3. occ >= occrev \/ Drawn(occ)
      BY <1>n, <2>1 DEF PopTickets
    <2>4. \A q \in Pushers : Pushing(q) => pusher[q].ticket < occ
      BY Zenon DEF PushTickets
    <2>5. (\A e \in live : e.ticket # occ) /\ (\A i \in 0 .. N - 1 : slot[i].second # occ)
      BY <1>n DEF LiveTickets
    <2> SUFFICES ASSUME NEW q \in Pushers, Pushing(q)'
                 PROVE  PushAt(q)'
      BY ZenonT(60) DEF PushTickets, PushAt
    <2>6. CASE q = p
      <3>1. pusher'[q].ticket = occ /\ pusher'[q].item = x /\ pusher'[q].at = "reserved"
        BY <2>2, <2>6
      <3>2. \A r \in Pushers : Pushing(r)' /\ r # q => pusher'[r].ticket # occ
        BY <1>n, <2>2, <2>4, <2>6 DEF Pushing
      <3>3. pusher'[q].ticket >= occrev' \/ Drawn(pusher[q].ticket)'
        BY Zenon, <2>1, <2>3, <3>1 DEF Drawn, Popping
      <3>4. pusher'[q].ticket < occ'
        BY <1>n, <2>1, <3>1
      <3> QED
        BY Zenon, <2>1, <2>5, <3>1, <3>2, <3>3, <3>4 DEF PushAt
    <2>7. CASE q # p
      <3>1. Pushing(q) /\ pusher'[q] = pusher[q]
        BY Zenon, <2>2, <2>7 DEF Pushing
      <3>2. pusher'[q].ticket < occ'
        BY <1>n, <1>e, <2>1, <2>4, <3>1
      <3>3. \A r \in Pushers : Pushing(r)' /\ r # q => pusher'[r].ticket # pusher[q].ticket
        <4> SUFFICES ASSUME NEW r \in Pushers, Pushing(r)', r # q
                     PROVE  pusher'[r].ticket # pusher[q].ticket
          BY Zenon
        <4>1. CASE r = p
          BY <1>n, <1>e, <2>2, <2>4, <3>1, <4>1
        <4>2. CASE r # p
          BY <2>2, <3>1, <4>2 DEF Pushing, PushTickets
        <4> QED
          BY Zenon, <4>1, <4>2
      <3>4. pusher'[q].ticket >= occrev' \/ Drawn(pusher[q].ticket)'
        BY Zenon, <2>1, <3>1 DEF Drawn, Popping, PushTickets
      <3> QED
        BY Zenon, <2>1, <3>1, <3>2, <3>3, <3>4 DEF PushTickets, PushAt
    <2> QED
      BY Zenon, <2>6, <2>7
  <1>2. ASSUME NEW p \in Pushers, emplace_write(p)
        PROVE  PushTickets'
    <2>1. PICK j \in 0 .. N - 1 : j = entry(pusher[p].ticket)
      BY Zenon, EntryOfPush
    <2>2. /\ Pushing(p) /\ pusher[p].item \in Items /\ pusher[p].ticket < occrev + N
          /\ pusher' = [pusher EXCEPT ![p].at = "written"]
          /\ slot' = [slot EXCEPT ![j].first = pusher[p].item]
          /\ UNCHANGED <<occ, occrev, popper, live>>
      BY Zenon, <1>2, <1>n, <1>e, <2>1 DEF emplace_write, PushTickets, Pushing
    <2>3. \A i \in 0 .. N - 1 : /\ slot'[i].second = slot[i].second
                                /\ slot'[i].first = slot[i].first \/ slot'[i].first \in Items
      BY <1>t, <2>2
    <2>4. slot'[j].first \in Items
      BY Zenon, <1>t, <2>2
    <2>5. \A q \in Pushers : /\ pusher'[q].ticket = pusher[q].ticket /\ pusher'[q].item = pusher[q].item
                             /\ q # p => pusher'[q] = pusher[q]
      BY Zenon, <1>t, <2>2
    <2>6. \A q \in Pushers : Pushing(q)' => Pushing(q)
      BY Zenon, <2>2, <2>5 DEF Pushing
    <2> SUFFICES ASSUME NEW q \in Pushers, Pushing(q)'
                 PROVE  PushAt(q)'
      BY Zenon DEF PushTickets, PushAt
    <2>7. pusher'[q].ticket >= occrev' \/ Drawn(pusher[q].ticket)'
      BY <2>2, <2>5, <2>6 DEF Drawn, Popping, PushTickets
    <2>8. \A r \in Pushers : Pushing(r)' /\ r # q => pusher'[r].ticket # pusher'[q].ticket
      BY <2>5, <2>6 DEF PushTickets
    <2>9. \A i \in 0 .. N - 1 : slot'[i].second # pusher'[q].ticket
      BY <2>3, <2>5, <2>6 DEF PushTickets
    <2>10. pusher'[q].at = "written" => /\ pusher'[q].ticket < occrev' + N
                                        /\ slot'[entry(pusher'[q].ticket)].first \in Items
      <3>1. CASE q = p
        BY Zenon, <2>1, <2>2, <2>4, <2>5, <3>1
      <3>2. CASE q # p
        BY <1>e, <2>2, <2>3, <2>5, <2>6, <3>2 DEF PushTickets
      <3> QED
        BY Zenon, <3>1, <3>2
    <2> QED
      BY <2>2, <2>5, <2>6, <2>7, <2>8, <2>9, <2>10 DEF PushTickets, PushAt
  <1>3. ASSUME NEW p \in Pushers, emplace_publish(p)
        PROVE  PushTickets'
    <2>1. PICK j \in 0 .. N - 1 : j = entry(pusher[p].ticket)
      BY Zenon, EntryOfPush
    <2>2. /\ Pushing(p) /\ pusher' = [pusher EXCEPT ![p] = IdlePusher]
          /\ slot' = [slot EXCEPT ![j].second = pusher[p].ticket]
          /\ live' = live \cup {[ticket |-> pusher[p].ticket, item |-> pusher[p].item]}
          /\ UNCHANGED <<occ, occrev, popper>>
      BY Zenon, <1>3, <2>1 DEF emplace_publish, Pushing
    <2>3. \A i \in 0 .. N - 1 : /\ slot'[i].first = slot[i].first
                                /\ slot'[i].second = slot[i].second \/ slot'[i].second = pusher[p].ticket
      BY Zenon, <1>t, <2>2
    <2>4. \A q \in Pushers : Pushing(q)' => q # p /\ Pushing(q) /\ pusher'[q] = pusher[q]
      BY Zenon, <1>t, <2>2 DEF Pushing, IdlePusher
    <2> SUFFICES ASSUME NEW q \in Pushers, Pushing(q)'
                 PROVE  PushAt(q)'
      BY Zenon DEF PushTickets, PushAt
    <2>5. q # p /\ Pushing(q) /\ pusher'[q] = pusher[q] /\ pusher[p].ticket # pusher[q].ticket
      BY Zenon, <2>2, <2>4 DEF PushTickets
    <2>6. pusher'[q].ticket >= occrev' \/ Drawn(pusher[q].ticket)'
      BY Zenon, <2>2, <2>5 DEF Drawn, Popping, PushTickets
    <2>7. \A r \in Pushers : Pushing(r)' /\ r # q => pusher'[r].ticket # pusher'[q].ticket
      BY Zenon, <2>4, <2>5 DEF PushTickets
    <2>8. \A e \in live' : e.ticket # pusher'[q].ticket
      BY <2>2, <2>5 DEF PushTickets
    <2>9. \A i \in 0 .. N - 1 : slot'[i].second # pusher'[q].ticket
      BY Zenon, <2>3, <2>5 DEF PushTickets
    <2>10. pusher'[q].at = "written" => /\ pusher'[q].ticket < occrev' + N
                                        /\ slot'[entry(pusher'[q].ticket)].first \in Items
      BY <1>e, <2>2, <2>3, <2>5 DEF PushTickets
    <2> QED
      BY Zenon, <2>2, <2>5, <2>6, <2>7, <2>8, <2>9, <2>10 DEF PushTickets, PushAt
  <1>8. ASSUME NEW c \in Poppers, Pop(c)
        PROVE  PushTickets'
    <2>1. CASE reset
      BY Zenon, <2>1 DEF reset, PushTickets, Pushing
    <2>2. /\ pusher' = pusher /\ slot' = slot /\ occ' = occ /\ live' \subseteq live
          /\ occrev' = occrev \/ occrev' = occrev + 1
      BY Zenon, <1>8 DEF Pop, pop_reserve, pop_match, pop_take, pop_end
    <2> QED
      BY <1>n, <1>u, <2>1, <2>2
  <1>9. CASE reset
    BY Zenon, <1>9 DEF reset, PushTickets, Pushing
  <1>10. CASE close \/ UNCHANGED vars
    <2>1. /\ pusher' = pusher /\ slot' = slot /\ occ' = occ /\ live' = live /\ occrev' = occrev
      BY Zenon, <1>10 DEF close, vars
    <2> QED
      BY <1>9, <1>n, <1>u, <2>1
  <1> QED
    BY Zenon, <1>1, <1>2, <1>3, <1>8, <1>9, <1>10 DEF Next, Push

(* What PopTickets says of one pop that is under way. *)
PopAt(c) ==
  /\ popper[c].ticket < occrev
  /\ \A d \in Poppers : Popping(d) /\ d # c => popper[d].ticket # popper[c].ticket
  /\ popper[c].at = "matched" =>
       /\ popper[c].ticket < occ
       /\ slot[entry(popper[c].ticket)].first \in Items
       /\ \A p \in Pushers : Pushing(p) => pusher[p].ticket # popper[c].ticket

(* The tickets of pops stay their own. *)
LEMMA PopStep ==
  ASSUME TypeOK, PushTickets, LiveTickets, PopTickets, [Next]_vars
  PROVE  PopTickets'
PROOF
  <1>n. N \in Nat /\ occ \in Nat /\ occrev \in Nat
    BY TicketAssumption DEF TypeOK
  <1>t. /\ slot \in [0 .. N - 1 -> [first : Items \cup {None}, second : -1 .. MaxTickets - 1]]
        /\ pusher \in [Pushers -> [at : {"idle", "reserved", "written"},
                                   ticket : 0 .. MaxTickets, item : Items \cup {None}]]
        /\ popper \in [Poppers -> [at : {"idle", "polling", "matched"}, ticket : 0 .. MaxTickets]]
    BY Zenon DEF TypeOK
  <1>e. \A c \in Poppers : popper[c].ticket \in Nat /\ entry(popper[c].ticket) \in 0 .. N - 1
    BY Zenon, EntryOfPop
  <1>p. /\ \A c \in Poppers : Popping(c) => PopAt(c)
        /\ ~terminating => \A k \in occ .. occrev - 1 : Drawn(k)
    BY Zenon DEF PopTickets, PopAt
  <1>q. ASSUME \A c \in Poppers : Popping(c)' => PopAt(c)',
               ~terminating' => \A k \in occ' .. occrev' - 1 : Drawn(k)'
        PROVE  PopTickets'
    BY Zenon, <1>q DEF PopTickets, PopAt
  <1>1. ASSUME NEW p \in Pushers, NEW x \in Items, emplace_reserve(p, x)
        PROVE  PopTickets'
    <2>1. /\ occ' = occ + 1 /\ UNCHANGED <<occrev, slot, popper, terminating>>
          /\ \A q \in Pushers : q # p => pusher'[q] = pusher[q]
          /\ pusher'[p].ticket = occ
      BY Zenon, <1>1, <1>t DEF emplace_reserve
    <2>2. ASSUME NEW c \in Poppers, Popping(c)'
          PROVE  PopAt(c)'
      <3>1. Popping(c) /\ PopAt(c) /\ popper'[c] = popper[c]
        BY Zenon, <2>1, <2>2, <1>p DEF Popping
      <3>2. ASSUME popper[c].at = "matched"
            PROVE  /\ popper[c].ticket < occ + 1
                   /\ \A q \in Pushers : Pushing(q)' => pusher'[q].ticket # popper[c].ticket
        BY <1>n, <1>e, <2>1, <3>1, <3>2 DEF PopAt, Pushing
      <3> QED
        BY Zenon, <2>1, <3>1, <3>2 DEF PopAt, Popping
    <2>3. ASSUME ~terminating', NEW k \in occ' .. occrev' - 1
          PROVE  Drawn(k)'
      <3>1. k \in occ .. occrev - 1
        BY <1>n, <2>1
      <3> QED
        BY Zenon, <1>p, <2>1, <2>3, <3>1 DEF Drawn, Popping
    <2> QED
      BY Zenon, <1>q, <2>2, <2>3
  <1>2. ASSUME NEW p \in Pushers, emplace_write(p)
        PROVE  PopTickets'
    <2>1. PICK j \in 0 .. N - 1 : j = entry(pusher[p].ticket)
      BY Zenon, EntryOfPush
    <2>2. /\ pusher[p].item \in Items
          /\ slot' = [slot EXCEPT ![j].first = pusher[p].item]
          /\ UNCHANGED <<occ, occrev, popper, terminating>>
      BY Zenon, <1>2, <2>1 DEF emplace_write, PushTickets, Pushing
    <2>3. \A i \in 0 .. N - 1 : slot'[i].first = slot[i].first \/ slot'[i].first \in Items
      BY <1>t, <2>2
    <2>4. \A q \in Pushers : (Pushing(q)' => Pushing(q)) /\ pusher'[q].ticket = pusher[q].ticket
      BY <1>2, <1>t DEF emplace_write, Pushing
    <2>5. ASSUME NEW c \in Poppers, Popping(c)'
          PROVE  PopAt(c)'
      <3>1. Popping(c) /\ PopAt(c) /\ popper'[c] = popper[c]
        BY Zenon, <2>2, <2>5, <1>p DEF Popping
      <3> QED
        BY Zenon, <1>e, <2>2, <2>3, <2>4, <3>1 DEF PopAt, Popping
    <2> QED
      BY Zenon, <1>p, <1>q, <2>2, <2>5 DEF Drawn, Popping
  <1>3. ASSUME NEW p \in Pushers, emplace_publish(p)
        PROVE  PopTickets'
    <2>1. PICK j \in 0 .. N - 1 : j = entry(pusher[p].ticket)
      BY Zenon, EntryOfPush
    <2>2. /\ slot' = [slot EXCEPT ![j].second = pusher[p].ticket]
          /\ UNCHANGED <<occ, occrev, popper, terminating>>
      BY Zenon, <1>3, <2>1 DEF emplace_publish
    <2>3. \A i \in 0 .. N - 1 : slot'[i].first = slot[i].first
      BY <1>t, <2>2
    <2>4. \A q \in Pushers : Pushing(q)' => Pushing(q) /\ pusher'[q].ticket = pusher[q].ticket
      BY Zenon, <1>3, <1>t DEF emplace_publish, Pushing, IdlePusher
    <2>5. ASSUME NEW c \in Poppers, Popping(c)'
          PROVE  PopAt(c)'
      <3>1. Popping(c) /\ PopAt(c) /\ popper'[c] = popper[c]
        BY Zenon, <2>2, <2>5, <1>p DEF Popping
      <3> QED
        BY <1>e, <2>2, <2>3, <2>4, <3>1 DEF PopAt, Popping
    <2> QED
      BY Zenon, <1>p, <1>q, <2>2, <2>5 DEF Drawn, Popping
  <1>4. ASSUME NEW c \in Poppers, pop_reserve(c)
        PROVE  PopTickets'
    <2>1. /\ occrev' = occrev + 1 /\ ~Popping(c)
          /\ popper'[c].at = "polling" /\ popper'[c].ticket = occrev
          /\ \A d \in Poppers : d # c => popper'[d] = popper[d]
          /\ UNCHANGED <<occ, slot, pusher, terminating>>
      BY Zenon, <1>4, <1>t DEF pop_reserve, Popping
    <2>2. ASSUME NEW d \in Poppers, Popping(d)'
          PROVE  PopAt(d)'
      <3>1. CASE d = c
        BY <1>n, <1>p, <2>1, <3>1 DEF PopAt, Popping
      <3>2. CASE d # c
        <4>1. Popping(d) /\ PopAt(d) /\ popper'[d] = popper[d] /\ popper'[d].ticket < occrev + 1
          BY <1>n, <1>e, <1>p, <2>1, <2>2, <3>2 DEF PopAt, Popping
        <4>2. \A b \in Poppers : Popping(b)' /\ b # d => popper'[b].ticket # popper'[d].ticket
          BY <1>n, <1>e, <2>1, <4>1 DEF PopAt, Popping
        <4> QED
          BY Zenon, <2>1, <4>1, <4>2 DEF PopAt, Pushing
      <3> QED
        BY Zenon, <3>1, <3>2
    <2>3. ASSUME ~terminating', NEW k \in occ' .. occrev' - 1
          PROVE  Drawn(k)'
      <3>1. CASE k = occrev
        BY Zenon, <2>1, <3>1 DEF Drawn, Popping
      <3>2. CASE k # occrev
        <4>1. k \in occ .. occrev - 1
          BY <1>n, <2>1, <3>2
        <4>2. PICK d \in Poppers : Popping(d) /\ popper[d].ticket = k
          BY Zenon, <1>p, <2>1, <2>3, <4>1 DEF Drawn
        <4> QED
          BY Zenon, <2>1, <4>2 DEF Drawn, Popping
      <3> QED
        BY Zenon, <3>1, <3>2
    <2> QED
      BY Zenon, <1>q, <2>2, <2>3
  <1>5. ASSUME NEW c \in Poppers, pop_match(c)
        PROVE  PopTickets'
    <2>1. /\ Popping(c) /\ slot[entry(popper[c].ticket)].second = popper[c].ticket
          /\ popper'[c].ticket = popper[c].ticket /\ popper'[c].at = "matched"
          /\ \A d \in Poppers : d # c => popper'[d] = popper[d]
          /\ UNCHANGED <<occ, occrev, slot, pusher, terminating>>
      BY Zenon, <1>5, <1>t DEF pop_match, Popping
    <2>2. \A d \in Poppers : (Popping(d)' <=> Popping(d)) /\ popper'[d].ticket = popper[d].ticket
      BY ZenonT(60), <2>1 DEF Popping
    <2>3. /\ popper[c].ticket < occ /\ slot[entry(popper[c].ticket)].first \in Items
          /\ \A p \in Pushers : Pushing(p) => pusher[p].ticket # popper[c].ticket
      BY <1>e, <2>1 DEF LiveTickets, PushTickets
    <2>4. ASSUME NEW d \in Poppers, Popping(d)'
          PROVE  PopAt(d)'
      BY <1>p, <2>1, <2>2, <2>3, <2>4 DEF PopAt, Pushing
    <2> QED
      BY <1>p, <1>q, <2>1, <2>2, <2>4 DEF Drawn
  <1>6. ASSUME NEW c \in Poppers, pop_take(c)
        PROVE  PopTickets'
    <2>1. /\ Popping(c) /\ popper[c].ticket < occ
          /\ popper'[c].at = "idle" /\ \A d \in Poppers : d # c => popper'[d] = popper[d]
          /\ UNCHANGED <<occ, occrev, slot, pusher, terminating>>
      BY Zenon, <1>6, <1>t, <1>p DEF pop_take, Popping, PopAt, Idle
    <2>2. \A d \in Poppers : Popping(d)' => Popping(d) /\ popper'[d] = popper[d]
      BY ZenonT(60), <2>1 DEF Popping
    <2>3. ASSUME NEW d \in Poppers, Popping(d)'
          PROVE  PopAt(d)'
      BY <1>p, <2>1, <2>2, <2>3 DEF PopAt, Pushing
    <2>4. ASSUME ~terminating', NEW k \in occ' .. occrev' - 1
          PROVE  Drawn(k)'
      <3>1. PICK d \in Poppers : Popping(d) /\ popper[d].ticket = k
        BY Zenon, <1>p, <2>1, <2>4 DEF Drawn
      <3>2. d # c
        BY <1>n, <2>1, <3>1
      <3> QED
        BY ZenonT(60), <2>1, <3>1, <3>2 DEF Drawn, Popping
    <2> QED
      BY Zenon, <1>q, <2>3, <2>4
  <1>7. ASSUME NEW c \in Poppers, pop_end(c)
        PROVE  PopTickets'
    <2>1. /\ terminating' /\ popper'[c].at = "idle"
          /\ \A d \in Poppers : d # c => popper'[d] = popper[d]
          /\ UNCHANGED <<occ, occrev, slot, pusher>>
      BY Zenon, <1>7, <1>t DEF pop_end, Idle
    <2>2. \A d \in Poppers : Popping(d)' => Popping(d) /\ popper'[d] = popper[d]
      BY ZenonT(60), <2>1 DEF Popping
    <2>3. ASSUME NEW d \in Poppers, Popping(d)'
          PROVE  PopAt(d)'
      BY <1>p, <2>1, <2>2, <2>3 DEF PopAt, Pushing
    <2> QED
      BY Zenon, <1>q, <2>1, <2>3
  <1>8. CASE close
    <2>1. terminating' /\ UNCHANGED <<occ, occrev, slot, pusher, popper>>
      BY Zenon, <1>8 DEF close
    <2>2. \A d \in Poppers : Popping(d)' => PopAt(d)'
      BY Zenon, <1>p, <2>1 DEF PopAt, Popping, Pushing
    <2> QED
      BY Zenon, <1>q, <2>1, <2>2
  <1>9. CASE reset
    <2>1. /\ \A d \in Poppers : ~Popping(d)'
          /\ occrev' = occ /\ occ' = occ
      BY Zenon, <1>9 DEF reset, Popping
    <2>2. \A k \in occ' .. occrev' - 1 : Drawn(k)'
      BY <1>n, <2>1
    <2> QED
      BY Zenon, <1>q, <2>1, <2>2
  <1>10. CASE UNCHANGED vars
    <2>1. UNCHANGED <<occ, occrev, slot, pusher, popper, terminating>>
      BY Zenon, <1>10 DEF vars
    <2>2. \A d \in Poppers : Popping(d)' => PopAt(d)'
      BY Zenon, <1>p, <2>1 DEF PopAt, Popping, Pushing
    <2> QED
      BY Zenon, <1>p, <1>q, <2>1, <2>2 DEF Drawn, Popping
  <1> QED
    BY Zenon, <1>1, <1>2, <1>3, <1>4, <1>5, <1>6, <1>7, <1>8, <1>9, <1>10 DEF Next, Push, Pop
-----------------------------------------------------------------------------
(* A ticket stays of its packet until that is taken or the ring is reset. *)
LEMMA StillOwned ==
  ASSUME TypeOK, [Next]_vars, ~reset, NEW k \in Nat, Owned(k),
         \A c \in Poppers : pop_take(c) => popper[c].ticket # k
  PROVE  Owned(k)'
PROOF
  <1>t. pusher \in [Pushers -> [at : {"idle", "reserved", "written"},
                                ticket : 0 .. MaxTickets, item : Items \cup {None}]]
    BY Zenon DEF TypeOK
  <1>u. ASSUME UNCHANGED <<pusher, live>>
        PROVE  Owned(k)'
    BY Zenon, <1>u DEF Owned, Pushing
  <1>1. ASSUME NEW p \in Pushers, NEW x \in Items, emplace_reserve(p, x)
        PROVE  Owned(k)'
    <2>1. /\ ~Pushing(p) /\ live' = live
          /\ \A q \in Pushers : q # p => pusher'[q] = pusher[q]
      BY Zenon, <1>1, <1>t DEF emplace_reserve, Pushing
    <2> QED
      BY Zenon, <2>1 DEF Owned, Pushing
  <1>2. ASSUME NEW p \in Pushers, emplace_write(p)
        PROVE  Owned(k)'
    <2>1. /\ live' = live
          /\ \A q \in Pushers : pusher'[q].ticket = pusher[q].ticket /\ (Pushing(q) => Pushing(q)')
      BY Zenon, <1>2, <1>t DEF emplace_write, Pushing
    <2> QED
      BY Zenon, <2>1 DEF Owned
  <1>3. ASSUME NEW p \in Pushers, emplace_publish(p)
        PROVE  Owned(k)'
    <2>1. /\ live' = live \cup {[ticket |-> pusher[p].ticket, item |-> pusher[p].item]}
          /\ \A q \in Pushers : q # p => pusher'[q] = pusher[q]
      BY Zenon, <1>3, <1>t DEF emplace_publish
    <2>2. \E e \in live' : e.ticket = pusher[p].ticket
      <3> DEFINE e == [ticket |-> pusher[p].ticket, item |-> pusher[p].item]
      <3>1. e \in live' /\ e.ticket = pusher[p].ticket
        BY Zenon, <2>1
      <3> QED
        BY Zenon, <3>1
    <2> QED
      BY Zenon, <2>1, <2>2 DEF Owned, Pushing
  <1>6. ASSUME NEW c \in Poppers, pop_take(c)
        PROVE  Owned(k)'
    BY Zenon, <1>6 DEF pop_take, Owned, Pushing
  <1>7. ASSUME NEW c \in Poppers, Pop(c), ~pop_take(c)
        PROVE  Owned(k)'
    BY Zenon, <1>7, <1>u DEF Pop, pop_reserve, pop_match, pop_end
  <1>8. CASE close \/ UNCHANGED vars
    BY Zenon, <1>8, <1>u DEF close, vars
  <1> QED
    BY Zenon, <1>1, <1>2, <1>3, <1>6, <1>7, <1>8 DEF Next, Push

(* While no pop overtakes another, all tickets that pops may still come to are of
   packets: a pop takes the oldest packet that pops under way are to get. *)
LEMMA GapStep ==
  ASSUME TypeOK, PopTickets, NoGaps, [Next]_vars, ~overtaken'
  PROVE  NoGaps'
PROOF
  <1>n. N \in Nat /\ occ \in Nat /\ occrev \in Nat
    BY TicketAssumption DEF TypeOK
  <1>t. /\ pusher \in [Pushers -> [at : {"idle", "reserved", "written"},
                                   ticket : 0 .. MaxTickets, item : Items \cup {None}]]
        /\ popper \in [Poppers -> [at : {"idle", "polling", "matched"}, ticket : 0 .. MaxTickets]]
    BY Zenon DEF TypeOK
  <1>e. \A c \in Poppers : popper[c].ticket \in Nat
    BY Zenon, EntryOfPop
  <1>u. ASSUME ~reset, UNCHANGED occ, occrev' >= occrev, occrev' \in Nat,
               \A c \in Poppers : ~pop_take(c),
               \A c \in Poppers : Popping(c)' => \/ Popping(c) /\ popper'[c].ticket = popper[c].ticket
                                                 \/ popper'[c].ticket = occrev
        PROVE  NoGaps'
    <2>1. ASSUME NEW k \in Nat, Owned(k)
          PROVE  Owned(k)'
      BY Zenon, <1>u, <2>1, StillOwned
    <2>2. ASSUME NEW k \in occrev' .. occ' - 1
          PROVE  Owned(k)'
      <3>1. k \in occrev .. occ - 1 /\ k \in Nat
        BY <1>u, <1>n
      <3> QED
        BY Zenon, <2>1, <3>1 DEF NoGaps
    <2>3. ASSUME NEW c \in Poppers, Popping(c)', NEW k \in popper'[c].ticket .. occ' - 1
          PROVE  Owned(k)'
      <3>1. k \in Nat
        BY <1>u, <1>e, <1>n, <2>3
      <3>2. Owned(k)
        BY Zenon, <1>u, <2>3 DEF NoGaps
      <3> QED
        BY Zenon, <2>1, <3>1, <3>2
    <2> QED
      BY Zenon, <2>2, <2>3 DEF NoGaps
  <1>1. ASSUME NEW p \in Pushers, NEW x \in Items, emplace_reserve(p, x)
        PROVE  NoGaps'
    <2>1. /\ occ' = occ + 1 /\ UNCHANGED <<occrev, popper, live>>
          /\ \A q \in Pushers : q # p => pusher'[q] = pusher[q]
          /\ ~Pushing(p) /\ pusher'[p].at = "reserved" /\ pusher'[p].ticket = occ
      BY Zenon, <1>1, <1>t DEF emplace_reserve, Pushing
    <2>2. ASSUME NEW k \in Int, Owned(k) \/ k = occ
          PROVE  Owned(k)'
      BY Zenon, <2>1, <2>2 DEF Owned, Pushing
    <2>3. ASSUME NEW k \in occrev' .. occ' - 1
          PROVE  Owned(k)'
      <3>1. k \in Int /\ (k \in occrev .. occ - 1 \/ k = occ)
        BY <1>n, <2>1
      <3> QED
        BY Zenon, <2>2, <3>1 DEF NoGaps
    <2>4. ASSUME NEW c \in Poppers, Popping(c)', NEW k \in popper'[c].ticket .. occ' - 1
          PROVE  Owned(k)'
      <3>1. Popping(c) /\ k \in Int /\ (k \in popper[c].ticket .. occ - 1 \/ k = occ)
        BY <1>n, <1>e, <2>1, <2>4 DEF Popping
      <3> QED
        BY Zenon, <2>2, <3>1 DEF NoGaps
    <2> QED
      BY Zenon, <2>3, <2>4 DEF NoGaps
  <1>9. CASE reset
    <2>1. occ' = occ /\ occrev' = occ /\ \A c \in Poppers : ~Popping(c)'
      BY Zenon, <1>9 DEF reset, Popping
    <2>2. \A k \in occrev' .. occ' - 1 : Owned(k)'
      BY <1>n, <2>1
    <2> QED
      BY ZenonT(60), <2>1, <2>2 DEF NoGaps
  <1>6. ASSUME NEW c \in Poppers, pop_take(c)
        PROVE  NoGaps'
    <2>1. /\ Popping(c) /\ popper[c].ticket < occrev
          /\ UNCHANGED <<occ, occrev, pusher>> /\ live' = {e \in live : e.ticket # popper[c].ticket}
      BY Zenon, <1>6 DEF pop_take, Popping, PopTickets
    <2>2. ASSUME NEW d \in Poppers, Popping(d)'
          PROVE  d # c /\ Popping(d) /\ popper'[d].ticket = popper[d].ticket
      BY Zenon, <1>6, <1>t, <2>2 DEF pop_take, Popping, Idle
    <2>3. ASSUME NEW d \in Poppers, Popping(d)'
          PROVE  popper[d].ticket > popper[c].ticket
      <3>1. ~(popper[d].ticket < popper[c].ticket)
        BY ZenonT(60), <1>6, <2>2, <2>3 DEF pop_take, Popping
      <3>2. popper[d].ticket # popper[c].ticket
        BY Zenon, <2>1, <2>2, <2>3 DEF PopTickets
      <3> QED
        BY <1>e, <3>1, <3>2
    <2>4. ASSUME NEW k \in Int, Owned(k), k > popper[c].ticket
          PROVE  Owned(k)'
      BY <1>e, <2>1, <2>4 DEF Owned, Pushing
    <2>5. ASSUME NEW k \in occrev' .. occ' - 1
          PROVE  Owned(k)'
      <3>1. k \in occrev .. occ - 1 /\ k \in Int /\ k > popper[c].ticket
        BY <1>n, <1>e, <2>1
      <3> QED
        BY Zenon, <2>4, <3>1 DEF NoGaps
    <2>6. ASSUME NEW d \in Poppers, Popping(d)', NEW k \in popper'[d].ticket .. occ' - 1
          PROVE  Owned(k)'
      <3>1. /\ Popping(d) /\ k \in popper[d].ticket .. occ - 1 /\ k \in Int /\ k > popper[c].ticket
        BY <1>n, <1>e, <2>1, <2>2, <2>3, <2>6
      <3> QED
        BY Zenon, <2>4, <3>1 DEF NoGaps
    <2> QED
      BY ZenonT(60), <2>5, <2>6 DEF NoGaps
  <1>n6. ASSUME ~reset, \A c \in Poppers : ~pop_take(c)
         PROVE  NoGaps'
    <2>1. ASSUME NEW p \in Pushers, emplace_write(p) \/ emplace_publish(p)
          PROVE  NoGaps'
      <3>1. UNCHANGED <<occ, occrev, popper>>
        BY Zenon, <2>1 DEF emplace_write, emplace_publish
      <3> QED
        BY <1>n, <1>n6, <1>u, <3>1 DEF Popping
    <2>2. ASSUME NEW c \in Poppers, pop_reserve(c)
          PROVE  NoGaps'
      <3>1. /\ occ' = occ /\ occrev' = occrev + 1 /\ popper'[c].ticket = occrev
            /\ \A d \in Poppers : d # c => popper'[d] = popper[d]
        BY Zenon, <2>2, <1>t DEF pop_reserve
      <3> QED
        BY <1>n, <1>n6, <1>u, <3>1 DEF Popping
    <2>3. ASSUME NEW c \in Poppers, pop_match(c)
          PROVE  NoGaps'
      <3>1. /\ UNCHANGED <<occ, occrev>> /\ Popping(c) /\ popper'[c].ticket = popper[c].ticket
            /\ \A d \in Poppers : d # c => popper'[d] = popper[d]
        BY Zenon, <2>3, <1>t DEF pop_match, Popping
      <3> QED
        BY <1>n, <1>n6, <1>u, <3>1 DEF Popping
    <2>4. ASSUME NEW c \in Poppers, pop_end(c)
          PROVE  NoGaps'
      <3>1. /\ UNCHANGED <<occ, occrev>> /\ ~Popping(c)'
            /\ \A d \in Poppers : d # c => popper'[d] = popper[d]
        BY Zenon, <2>4, <1>t DEF pop_end, Popping, Idle
      <3> QED
        BY <1>n, <1>n6, <1>u, <3>1 DEF Popping
    <2>5. CASE close \/ UNCHANGED vars
      <3>1. UNCHANGED <<occ, occrev, popper>>
        BY Zenon, <2>5 DEF close, vars
      <3> QED
        BY <1>n, <1>n6, <1>u, <3>1 DEF Popping
    <2> QED
      BY Zenon, <1>1, <1>n6, <2>1, <2>2, <2>3, <2>4, <2>5 DEF Next, Push, Pop
  <1> QED
    BY Zenon, <1>6, <1>9, <1>n6

(* What ItemsOnce says of one emplace that is under way. *)
ItemAt(p) ==
  /\ pusher[p].item \notin outside
  /\ \A q \in Pushers : Pushing(q) /\ q # p => pusher[q].item # pusher[p].item
  /\ \A e \in live : e.item # pusher[p].item
  /\ pusher[p].at = "written" => slot[entry(pusher[p].ticket)].first = pusher[p].item

(* A pop reads the packet that was pushed with its ticket. *)
LEMMA TakesItsPacket ==
  ASSUME TypeOK, PopTickets, NoGaps, NothingOverwritten, ~overtaken,
         NEW c \in Poppers, pop_take(c)
  PROVE  \E e \in live : e.ticket = popper[c].ticket /\ slot[entry(popper[c].ticket)].first = e.item
PROOF
  <1>1. /\ Popping(c) /\ popper[c].ticket < occ
        /\ \A p \in Pushers : Pushing(p) => pusher[p].ticket # popper[c].ticket
    BY Zenon DEF pop_take, PopTickets, Popping
  <1>2. popper[c].ticket \in popper[c].ticket .. occ - 1
    BY <1>1, EntryOfPop, TicketAssumption DEF TypeOK
  <1>3. Owned(popper[c].ticket)
    BY Zenon, <1>1, <1>2 DEF NoGaps
  <1>4. PICK e \in live : e.ticket = popper[c].ticket
    BY Zenon, <1>1, <1>3 DEF Owned
  <1>5. slot[entry(e.ticket)] = [first |-> e.item, second |-> e.ticket]
    BY ZenonT(60), <1>4 DEF NothingOverwritten
  <1> QED
    BY <1>4, <1>5

(* overtaken is never cleared. *)
LEMMA OvertakenStays ==
  ASSUME [Next]_vars, overtaken
  PROVE  overtaken'
PROOF
  <1>1. ASSUME NEW p \in Pushers, Push(p)
        PROVE  overtaken'
    BY Zenon, <1>1 DEF Push, emplace_reserve, emplace_write, emplace_publish
  <1>2. ASSUME NEW c \in Poppers, Pop(c)
        PROVE  overtaken'
    BY Zenon, <1>2 DEF Pop, pop_reserve, pop_match, pop_take, pop_end
  <1>3. CASE close \/ reset \/ UNCHANGED vars
    BY Zenon, <1>3 DEF close, reset, vars
  <1> QED
    BY Zenon, <1>1, <1>2, <1>3 DEF Next

INSTANCE FiniteSetTheorems

(* The packets of the ring are less than a round apart: otherwise a pop under way
   has the older one's ticket, every ticket from there on is of a packet, and there
   are not so many packets. *)
LEMMA Spread ==
  ASSUME TypeOK, PacketsReachable, PushTickets, LiveTickets, NoGaps, ItemsOnce,
         NEW a \in Nat, NEW b \in Nat, Owned(a), Owned(b), a < b, b < occrev + N
  PROVE  b - a < N
PROOF
  <1> SUFFICES ASSUME b - a >= N
               PROVE  FALSE
    BY TicketAssumption
  <1>n. N \in Nat \ {0} /\ occ \in Nat /\ occrev \in Nat
    BY TicketAssumption DEF TypeOK
  <1>1. a < occrev
    BY <1>n
  <1>2. Drawn(a)
    <2>1. CASE \E p \in Pushers : Pushing(p) /\ pusher[p].ticket = a
      BY <1>1, <1>n, <2>1 DEF PushTickets
    <2>2. CASE \E e \in live : e.ticket = a
      BY <1>1, <1>n, <2>2 DEF PacketsReachable, Drawn, Popping
    <2> QED
      BY Zenon, <2>1, <2>2 DEF Owned
  <1>3. \A k \in a .. occ - 1 : Owned(k)
    BY Zenon, <1>2 DEF Drawn, NoGaps
  <1>4. b < occ
    BY Zenon, OwnedHolds
  <1>5. \A k \in a .. a + N : \E x \in Items : Holds(k, x)
    <2> TAKE k \in a .. a + N
    <2>1. k \in a .. occ - 1
      BY <1>n, <1>4
    <2> QED
      BY Zenon, <1>3, <2>1, OwnedHolds
  <1> DEFINE f == [k \in a .. a + N |-> CHOOSE x \in Items : Holds(k, x)]
  <1>6. f \in [a .. a + N -> Items] /\ \A k \in a .. a + N : Holds(k, f[k])
    BY Zenon, <1>5
  <1>7. IsFiniteSet(a .. a + N) /\ Cardinality(a .. a + N) = N + 1
    <2>1. a + N \in Int /\ ~(a > a + N) /\ (a + N) - a + 1 = N + 1
      BY <1>n
    <2>2. IsFiniteSet(a .. a + N) /\ Cardinality(a .. a + N) = IF a > a + N THEN 0 ELSE (a + N) - a + 1
      BY <2>1, FS_Interval
    <2> QED
      BY Zenon, <2>1, <2>2
  <1>8. Cardinality(Items) < Cardinality(a .. a + N) /\ IsFiniteSet(Items)
    BY <1>n, <1>7, TicketAssumption, FS_CardinalityType
  <1> HIDE DEF f
  <1>9. PICK k \in a .. a + N, m \in a .. a + N : k # m /\ f[k] = f[m]
    BY ZenonT(60), <1>6, <1>7, <1>8, FS_PigeonHole
  <1> QED
    BY Zenon, <1>6, <1>9, HoldsOnce
-----------------------------------------------------------------------------
(* Two packets that are written no more than a round ahead of the pops have
   different slots. *)
LEMMA SlotsApart ==
  ASSUME TypeOK, PacketsReachable, PushTickets, LiveTickets, NoGaps, ItemsOnce,
         NEW a \in Nat, NEW b \in Nat, Owned(a), Owned(b), a # b,
         a < occrev + N, b < occrev + N
  PROVE  entry(a) # entry(b)
PROOF
  <1>n. N \in Nat
    BY Zenon, TicketAssumption
  <1>1. CASE a < b
    <2>1. b - a < N
      BY Zenon, <1>1, Spread
    <2> QED
      BY <1>1, <1>n, <2>1, SameSlotApart
  <1>2. CASE b < a
    <2>1. a - b < N
      BY Zenon, <1>2, Spread
    <2> QED
      BY <1>2, <1>n, <2>1, SameSlotApart
  <1> QED
    BY <1>1, <1>2

(* An emplace writes to a slot that no other packet has. *)
LEMMA OwnSlot ==
  ASSUME TypeOK, PacketsReachable, PushTickets, LiveTickets, NoGaps, ItemsOnce,
         NEW p \in Pushers, Pushing(p), pusher[p].ticket < occrev + N
  PROVE  /\ \A e \in live : entry(e.ticket) # entry(pusher[p].ticket)
         /\ \A q \in Pushers : q # p /\ pusher[q].at = "written" =>
              entry(pusher[q].ticket) # entry(pusher[p].ticket)
PROOF
  <1>1. pusher[p].ticket \in Nat /\ Owned(pusher[p].ticket)
    BY Zenon, EntryOfPush DEF Owned
  <1>2. ASSUME NEW e \in live
        PROVE  entry(e.ticket) # entry(pusher[p].ticket)
    <2>1. e.ticket \in Nat /\ Owned(e.ticket) /\ e.ticket < occrev + N /\ e.ticket # pusher[p].ticket
      BY Zenon, EntryOfLive DEF Owned, LiveTickets, PushTickets
    <2> QED
      BY Zenon, <1>1, <2>1, SlotsApart
  <1>3. ASSUME NEW q \in Pushers, q # p, pusher[q].at = "written"
        PROVE  entry(pusher[q].ticket) # entry(pusher[p].ticket)
    <2>1. /\ pusher[q].ticket \in Nat /\ Owned(pusher[q].ticket)
          /\ pusher[q].ticket < occrev + N /\ pusher[q].ticket # pusher[p].ticket
      BY Zenon, <1>3, EntryOfPush DEF Owned, Pushing, PushTickets
    <2> QED
      BY ZenonT(60), <1>1, <2>1, SlotsApart
  <1> QED
    BY Zenon, <1>2, <1>3

(* While no pop overtakes another, a packet stays in one place. *)
LEMMA ItemsStep ==
  ASSUME TypeOK, PacketsReachable, PushTickets, LiveTickets, PopTickets, NoGaps, ItemsOnce,
         NothingOverwritten, ~overtaken, [Next]_vars
  PROVE  ItemsOnce'
PROOF
  <1>t. /\ slot \in [0 .. N - 1 -> [first : Items \cup {None}, second : -1 .. MaxTickets - 1]]
        /\ pusher \in [Pushers -> [at : {"idle", "reserved", "written"},
                                   ticket : 0 .. MaxTickets, item : Items \cup {None}]]
    BY Zenon DEF TypeOK
  <1>e. \A q \in Pushers : entry(pusher[q].ticket) \in 0 .. N - 1
    BY Zenon, EntryOfPush
  <1>p. /\ \A p \in Pushers : Pushing(p) => ItemAt(p)
        /\ \A e \in live : e.item \notin outside
        /\ \A e, f \in live : e.item = f.item => e = f
    BY Zenon DEF ItemsOnce, ItemAt
  <1>q. ASSUME \A p \in Pushers : Pushing(p)' => ItemAt(p)',
               \A e \in live' : e.item \notin outside',
               \A e, f \in live' : e.item = f.item => e = f
        PROVE  ItemsOnce'
    BY Zenon, <1>q DEF ItemsOnce, ItemAt
  <1>u. ASSUME UNCHANGED <<slot, pusher, outside, live>>
        PROVE  ItemsOnce'
    <2>1. \A p \in Pushers : Pushing(p)' => ItemAt(p)'
      BY ZenonT(60), <1>p, <1>u DEF ItemAt, Pushing
    <2> QED
      BY Zenon, <1>p, <1>q, <1>u, <2>1
  <1>1. ASSUME NEW p \in Pushers, NEW x \in Items, emplace_reserve(p, x)
        PROVE  ItemsOnce'
    <2>1. /\ x \in outside /\ outside' = outside \ {x} /\ UNCHANGED <<slot, live>>
          /\ pusher'[p] = [at |-> "reserved", ticket |-> occ, item |-> x]
          /\ \A q \in Pushers : q # p => pusher'[q] = pusher[q]
      BY Zenon, <1>1, <1>t DEF emplace_reserve
    <2>2. ASSUME NEW q \in Pushers, Pushing(q)'
          PROVE  ItemAt(q)'
      <3>1. CASE q = p
        BY <1>p, <2>1, <3>1 DEF ItemAt, Pushing
      <3>2. CASE q # p
        BY <1>p, <2>1, <2>2, <3>2 DEF ItemAt, Pushing
      <3> QED
        BY ZenonT(60), <3>1, <3>2
    <2> QED
      BY Zenon, <1>p, <1>q, <2>1, <2>2
  <1>2. ASSUME NEW p \in Pushers, emplace_write(p)
        PROVE  ItemsOnce'
    <2>1. PICK j \in 0 .. N - 1 : j = entry(pusher[p].ticket)
      BY Zenon, EntryOfPush
    <2>2. /\ Pushing(p) /\ pusher[p].ticket < occrev + N
          /\ slot' = [slot EXCEPT ![j].first = pusher[p].item] /\ UNCHANGED <<outside, live>>
      BY Zenon, <1>2, <2>1, EntryOfPush, TicketAssumption DEF emplace_write, Pushing, TypeOK
    <2>3. /\ slot'[j].first = pusher[p].item
          /\ \A i \in 0 .. N - 1 : i # j => slot'[i] = slot[i]
      BY Zenon, <1>t, <2>2
    <2>4. \A q \in Pushers : /\ pusher'[q].ticket = pusher[q].ticket /\ pusher'[q].item = pusher[q].item
                             /\ q # p => pusher'[q].at = pusher[q].at
                             /\ Pushing(q)' => Pushing(q)
      BY Zenon, <1>2, <1>t DEF emplace_write, Pushing
    <2>5. ASSUME NEW q \in Pushers, Pushing(q)', pusher'[q].at = "written"
          PROVE  slot'[entry(pusher'[q].ticket)].first = pusher'[q].item
      <3>1. CASE q = p
        BY ZenonT(60), <2>1, <2>3, <2>4, <3>1
      <3>2. CASE q # p
        <4>1. entry(pusher[q].ticket) # j /\ Pushing(q) /\ pusher[q].at = "written"
          BY ZenonT(60), <2>1, <2>2, <2>4, <2>5, <3>2, OwnSlot
        <4>2. slot[entry(pusher[q].ticket)].first = pusher[q].item
          BY Zenon, <1>p, <4>1 DEF ItemAt
        <4> QED
          BY Zenon, <1>e, <2>3, <2>4, <4>1, <4>2
      <3> QED
        BY Zenon, <3>1, <3>2
    <2>6. ASSUME NEW q \in Pushers, Pushing(q)'
          PROVE  ItemAt(q)'
      <3>1. Pushing(q) /\ ItemAt(q)
        BY Zenon, <1>p, <2>4, <2>6
      <3> QED
        BY Zenon, <2>2, <2>4, <2>5, <2>6, <3>1 DEF ItemAt
    <2> QED
      BY Zenon, <1>p, <1>q, <2>2, <2>6
  <1>3. ASSUME NEW p \in Pushers, emplace_publish(p)
        PROVE  ItemsOnce'
    <2>1. PICK j \in 0 .. N - 1 : j = entry(pusher[p].ticket)
      BY Zenon, EntryOfPush
    <2>2. /\ Pushing(p) /\ slot' = [slot EXCEPT ![j].second = pusher[p].ticket]
          /\ live' = live \cup {[ticket |-> pusher[p].ticket, item |-> pusher[p].item]}
          /\ UNCHANGED outside
      BY Zenon, <1>3, <2>1 DEF emplace_publish, Pushing
    <2>3. \A i \in 0 .. N - 1 : slot'[i].first = slot[i].first
      BY Zenon, <1>t, <2>2
    <2>4. \A q \in Pushers : Pushing(q)' => q # p /\ Pushing(q) /\ pusher'[q] = pusher[q]
      BY Zenon, <1>3, <1>t DEF emplace_publish, Pushing, IdlePusher
    <2>5. ItemAt(p)
      BY Zenon, <1>p, <2>2
    <2>6. ASSUME NEW q \in Pushers, Pushing(q)'
          PROVE  ItemAt(q)'
      <3>1. q # p /\ Pushing(q) /\ pusher'[q] = pusher[q] /\ ItemAt(q)
        BY ZenonT(60), <1>p, <2>4, <2>6
      <3>2. pusher[p].item # pusher[q].item
        BY Zenon, <2>5, <3>1 DEF ItemAt
      <3>3. \A e \in live' : e.item # pusher'[q].item
        BY <2>2, <3>1, <3>2 DEF ItemAt
      <3>4. \A r \in Pushers : Pushing(r)' /\ r # q => pusher'[r].item # pusher'[q].item
        BY Zenon, <2>4, <3>1 DEF ItemAt
      <3>5. pusher'[q].at = "written" => slot'[entry(pusher'[q].ticket)].first = pusher'[q].item
        BY Zenon, <1>e, <2>3, <3>1 DEF ItemAt
      <3> QED
        BY <2>2, <3>1, <3>3, <3>4, <3>5 DEF ItemAt
    <2>7. \A e \in live' : e.item \notin outside'
      BY <1>p, <2>2, <2>5 DEF ItemAt
    <2>8. \A e, f \in live' : e.item = f.item => e = f
      BY <1>p, <2>2, <2>5 DEF ItemAt
    <2> QED
      BY Zenon, <1>q, <2>6, <2>7, <2>8
  <1>6. ASSUME NEW c \in Poppers, pop_take(c)
        PROVE  ItemsOnce'
    <2>1. PICK e \in live : e.ticket = popper[c].ticket /\ slot[entry(popper[c].ticket)].first = e.item
      BY Zenon, <1>6, TakesItsPacket
    <2>2. /\ outside' = outside \cup {e.item} /\ live' = {f \in live : f.ticket # e.ticket}
          /\ UNCHANGED <<slot, pusher>>
      BY Zenon, <1>6, <2>1 DEF pop_take
    <2>3. ASSUME NEW q \in Pushers, Pushing(q)'
          PROVE  ItemAt(q)'
      <3>1. Pushing(q) /\ ItemAt(q) /\ pusher'[q] = pusher[q]
        BY Zenon, <1>p, <2>2, <2>3 DEF Pushing
      <3> QED
        BY ZenonT(60), <2>1, <2>2, <3>1 DEF ItemAt, Pushing
    <2>4. \A f \in live' : f.item \notin outside'
      BY Zenon, <1>p, <2>1, <2>2
    <2>5. \A f, g \in live' : f.item = g.item => f = g
      BY Zenon, <1>p, <2>2
    <2> QED
      BY Zenon, <1>q, <2>3, <2>4, <2>5
  <1>7. ASSUME NEW c \in Poppers, Pop(c), ~pop_take(c)
        PROVE  ItemsOnce'
    BY Zenon, <1>7, <1>u DEF Pop, pop_reserve, pop_match, pop_end
  <1>8. CASE close \/ UNCHANGED vars
    BY Zenon, <1>8, <1>u DEF close, vars
  <1>9. CASE reset
    BY Zenon, <1>9, <1>q DEF reset, Pushing
  <1> QED
    BY Zenon, <1>1, <1>2, <1>3, <1>6, <1>7, <1>8, <1>9 DEF Next, Push

(* While no pop overtakes another, no step overwrites a packet of the ring. *)
LEMMA OverwriteStep ==
  ASSUME TypeOK, PacketsReachable, PushTickets, LiveTickets, NoGaps, ItemsOnce,
         NothingOverwritten, ~overtaken, [Next]_vars
  PROVE  NothingOverwritten'
PROOF
  <1>t. slot \in [0 .. N - 1 -> [first : Items \cup {None}, second : -1 .. MaxTickets - 1]]
    BY Zenon DEF TypeOK
  <1>p. \A e \in live : slot[entry(e.ticket)] = [first |-> e.item, second |-> e.ticket]
    BY Zenon DEF NothingOverwritten
  <1>q. ASSUME \A e \in live' : slot'[entry(e.ticket)] = [first |-> e.item, second |-> e.ticket]
        PROVE  NothingOverwritten'
    BY ZenonT(60), <1>q DEF NothingOverwritten
  <1>u. ASSUME slot' = slot, live' \subseteq live
        PROVE  NothingOverwritten'
    BY Zenon, <1>p, <1>q, <1>u
  <1>l. \A e \in live : entry(e.ticket) \in 0 .. N - 1
    BY EntryOfLive
  <1>2. ASSUME NEW p \in Pushers, emplace_write(p)
        PROVE  NothingOverwritten'
    <2>1. PICK j \in 0 .. N - 1 : j = entry(pusher[p].ticket)
      BY EntryOfPush
    <2>2. /\ Pushing(p) /\ pusher[p].ticket < occrev + N
          /\ slot' = [slot EXCEPT ![j].first = pusher[p].item] /\ live' = live
      BY <1>2, <2>1, EntryOfPush, TicketAssumption DEF emplace_write, Pushing, TypeOK
    <2>3. \A i \in 0 .. N - 1 : i # j => slot'[i] = slot[i]
      BY Zenon, <1>t, <2>2
    <2>4. \A e \in live : entry(e.ticket) # j
      BY Zenon, <2>1, <2>2, OwnSlot
    <2> QED
      BY Zenon, <1>p, <1>q, <1>l, <2>2, <2>3, <2>4
  <1>3. ASSUME NEW p \in Pushers, emplace_publish(p)
        PROVE  NothingOverwritten'
    <2>1. PICK j \in 0 .. N - 1 : j = entry(pusher[p].ticket)
      BY Zenon, EntryOfPush
    <2>2. /\ Pushing(p) /\ pusher[p].ticket < occrev + N /\ slot[j].first = pusher[p].item
          /\ slot' = [slot EXCEPT ![j].second = pusher[p].ticket]
          /\ live' = live \cup {[ticket |-> pusher[p].ticket, item |-> pusher[p].item]}
      BY Zenon, <1>3, <2>1 DEF emplace_publish, Pushing, PushTickets, ItemsOnce
    <2>3. /\ \A i \in 0 .. N - 1 : i # j => slot'[i] = slot[i]
          /\ slot'[j] = [first |-> pusher[p].item, second |-> pusher[p].ticket]
      BY Zenon, <1>t, <2>2
    <2>4. \A e \in live : entry(e.ticket) # j
      BY Zenon, <2>1, <2>2, OwnSlot
    <2>5. ASSUME NEW e \in live'
          PROVE  slot'[entry(e.ticket)] = [first |-> e.item, second |-> e.ticket]
      <3>1. CASE e \in live
        BY Zenon, <1>p, <1>l, <2>3, <2>4, <3>1
      <3>2. CASE e \notin live
        <4>1. e.ticket = pusher[p].ticket /\ e.item = pusher[p].item
          BY <2>2, <3>2
        <4> QED
          BY Zenon, <2>1, <2>3, <4>1
      <3> QED
        BY <3>1, <3>2
    <2> QED
      BY <1>q, <2>5
  <1>4. ASSUME NEW p \in Pushers, NEW x \in Items, emplace_reserve(p, x)
        PROVE  NothingOverwritten'
    BY Zenon, <1>4, <1>u DEF emplace_reserve
  <1>5. ASSUME NEW c \in Poppers, Pop(c)
        PROVE  NothingOverwritten'
    <2>1. slot' = slot /\ live' \subseteq live
      BY Zenon, <1>5 DEF Pop, pop_reserve, pop_match, pop_take, pop_end
    <2> QED
      BY Zenon, <1>u, <2>1
  <1>6. CASE close \/ reset \/ UNCHANGED vars
    <2>1. slot' = slot /\ live' \subseteq live
      BY Zenon, <1>6 DEF close, reset, vars
    <2> QED
      BY ZenonT(60), <1>u, <2>1
  <1> QED
    BY Zenon, <1>2, <1>3, <1>4, <1>5, <1>6 DEF Next, Push

-----------------------------------------------------------------------------
(* Every step keeps the invariant of the ring, and that nothing was overwritten. *)
LEMMA RingStep ==
  ASSUME RingInv, NothingOverwritten, [Next]_vars
  PROVE  RingInv' /\ NothingOverwritten'
PROOF
  <1>1. /\ TypeOK /\ PacketsReachable /\ PushTickets /\ LiveTickets /\ PopTickets
        /\ overtaken \/ (NoGaps /\ ItemsOnce)
    BY Zenon DEF RingInv
  <1>2. TypeOK' /\ PacketsReachable' /\ PushTickets' /\ LiveTickets' /\ PopTickets'
    BY Zenon, <1>1, TypeStep, ReachStep, PushStep, LiveStep, PopStep
  <1>3. CASE overtaken'
    BY Zenon, <1>2, <1>3 DEF RingInv, NothingOverwritten
  <1>4. CASE ~overtaken'
    <2>1. ~overtaken /\ NoGaps /\ ItemsOnce
      BY Zenon, <1>1, <1>4, OvertakenStays
    <2>2. NoGaps' /\ ItemsOnce' /\ NothingOverwritten'
      BY Zenon, <1>1, <1>4, <2>1, GapStep, ItemsStep, OverwriteStep
    <2> QED
      BY ZenonT(60), <1>2, <2>2 DEF RingInv
  <1> QED
    BY Zenon, <1>3, <1>4

(* AsyncQueueMPMC, for any number of threads and slots and no more packets than
   slots: tickets are drawn once, every published packet is of a pop to come or
   under way, also after reset, and until a pop reads its packet before one with
   an older ticket, every packet is in one place. *)
THEOREM RingSafe == Spec => []RingInv
PROOF
  <1>1. RingInv /\ NothingOverwritten /\ [Next]_vars => (RingInv /\ NothingOverwritten)'
    BY Zenon, RingStep
  <1> QED
    BY <1>1, RingInit, PTL DEF Spec

(* emplace waits only for the ticket a round before its own to be drawn, not for
   that packet to be read; still it overwrites no packet that was not taken,
   unless a pop reads its packet before one with an older ticket. *)
THEOREM NoOverwrite == Spec => []NothingOverwritten
PROOF
  <1>1. RingInv /\ NothingOverwritten /\ [Next]_vars => (RingInv /\ NothingOverwritten)'
    BY Zenon, RingStep
  <1> QED
    BY <1>1, RingInit, PTL DEF Spec

=============================================================================
