--------------------------- MODULE Router_proofs ---------------------------
(***************************************************************************)
(* Proofs about the exchange, for any number of producers, targets and     *)
(* packets: no block is lost or delivered twice, and fire() frees the      *)
(* memory of its packets only when nobody has one - unless a thread has    *)
(* freed its memory after it re-acquired packets of other targets from a   *)
(* shared pool.                                                            *)
(*                                                                         *)
(* The argument follows the packets.  At any time a packet is held in at   *)
(* most one place: a free pool, a ready queue, the hand of a thread, or    *)
(* the set of packets that the firing thread has re-acquired.              *)
(***************************************************************************)
EXTENDS Router, TLAPS

(* The time a leaf may take, so that no proof depends on the speed of the machine. *)
USE SMTT(60)

-----------------------------------------------------------------------------
(* The places a packet can be in ... *)
Place == ({"pool", "fifo", "back"} \X Targets) \cup ({"hand"} \X Threads)

(* ... and the packets in each of them. *)
Holding == [l \in Place |->
  CASE l[1] = "pool" -> Range(free_pool[l[2]])
    [] l[1] = "fifo" -> Range(ready_fifo[l[2]])
    [] l[1] = "back" -> back[l[2]]
    [] OTHER -> {packet[l[2]]} \ {None}]

Apart(H) == \A l, m \in Place : l # m => H[l] \cap H[m] = {}

(* A packet is in one place, and there only once. *)
Unique ==
  /\ \A t \in Targets : IsInjective(free_pool[t]) /\ IsInjective(ready_fifo[t])
  /\ Apart(Holding)

(* The target a place belongs to: a producer works for its target. *)
Home(l) == IF l[2] \in Producers THEN target[l[2]] ELSE l[2]

(* Unless the pool is shared, a packet stays with its target. *)
Own == ~shared => \A l \in Place : \A b \in Holding[l] : b[1] = Home(l)

(* Who has a packet, and where a producer with one is. *)
Hands ==
  /\ \A p \in Producers : packet[p] # None <=> producer[p] = "stored"
  /\ \A t \in Targets : packet[t] # None <=> firer[t] \in {"consuming", "freeing"}
  /\ \A p \in Producers :
       producer[p] \in {"acquiring", "stored"} => routed[p] < MaxBlocks /\ target[p] \in Targets

(* The producers that have not closed. *)
Active == {p \in Producers : producer[p] \in {"new", "routing", "acquiring", "stored"}}

(* remaining_producers counts them; the queues are closed after the last one,
   and the threads are spawned with the first. *)
Counted ==
  /\ remaining_producers = Cardinality(Active)
  /\ \A p \in Producers : producer[p] = "closing" => remaining_producers = 0
  /\ \A t, u \in Targets : firer[t] = "none" => firer[u] = "none"
  /\ \A t \in Targets : firer[t] = "none" /\ remaining_producers > 0 =>
       \A p \in Producers : producer[p] = "new"

(* The packets of a target are nowhere before its thread has allocated them. *)
NotYet(t) == firer[t] = "spawned" \/ (firer[t] = "none" /\ remaining_producers > 0)
Fresh == \A t \in Targets : NotYet(t) => \A l \in Place : \A b \in Holding[l] : b[1] # t

(* A thread takes packets back only in the end. *)
Late == \A t \in Targets : NotYet(t) => back[t] = {}

(* Nobody has freed packets that were not back. *)
Sound == ~(shared /\ Strayed)

(* A packet that was not re-acquired has its memory. *)
InPlay(l) == l[1] # "back"
Allocated ==
  \/ shared /\ Strayed
  \/ \A l \in Place : InPlay(l) => \A b \in Holding[l] : b[1] \in alive

(* The packets with a block that is still to be consumed. *)
Full == (UNION {Range(ready_fifo[t]) : t \in Targets})
          \cup {packet[t] : t \in {u \in Targets : firer[u] = "consuming"}}

(* They hold different blocks, and these are exactly the blocks that were
   pushed and not consumed yet. *)
Loads ==
  /\ \A b \in Full : content[b] \in Block /\ content[b][2] <= routed[content[b][1]]
  /\ \A b, c \in Full : content[b] = content[c] => b = c
  /\ \A x \in Block : x[2] <= routed[x[1]] =>
       \/ consumed[x] = 0 /\ \E b \in Full : content[b] = x
       \/ consumed[x] = 1 /\ \A b \in Full : content[b] # x
  /\ \A x \in Block : x[2] > routed[x[1]] => consumed[x] = 0
  /\ \A p \in Producers : producer[p] = "stored" => content[packet[p]] = <<p, routed[p] + 1>>

(* None of the packets of t is anywhere else than back. *)
Returned(t) == \A l \in Place : InPlay(l) => \A b \in Holding[l] : b[1] # t

(* The inductive invariant. *)
ExchangeInv ==
  TypeOK /\ Unique /\ Own /\ Hands /\ Counted /\ Fresh /\ Late /\ Allocated /\ (Sound => Loads)

-----------------------------------------------------------------------------
(* Lists of packets: what Append, Tail, RemoveAt and the filling of a pool do
   to the packets in a list that has each packet once. *)

LEMMA RangeOf ==
  ASSUME NEW S, NEW s \in Seq(S)
  PROVE  /\ \A i \in 1 .. Len(s) : s[i] \in Range(s)
         /\ \A b \in Range(s) : b \in S /\ \E i \in 1 .. Len(s) : s[i] = b
         /\ IsInjective(s) <=> \A i, j \in 1 .. Len(s) : s[i] = s[j] => i = j
BY DEF Range, IsInjective

LEMMA AppendPacket ==
  ASSUME NEW S, NEW s \in Seq(S), NEW b \in S
  PROVE  /\ Append(s, b) \in Seq(S)
         /\ Range(Append(s, b)) = Range(s) \cup {b}
         /\ IsInjective(s) /\ b \notin Range(s) => IsInjective(Append(s, b))
<1> DEFINE r == Append(s, b)
<1>1. r \in Seq(S) /\ Len(r) = Len(s) + 1 /\ r[Len(s) + 1] = b
      /\ \A i \in 1 .. Len(s) : r[i] = s[i]
  OBVIOUS
<1> HIDE DEF r
<1>2. Range(r) = Range(s) \cup {b}
  <2>1. \A x \in Range(r) : x \in Range(s) \cup {b}
    BY <1>1, RangeOf
  <2>2. \A x \in Range(s) : x \in Range(r)
    <3>1. SUFFICES ASSUME NEW x \in Range(s) PROVE x \in Range(r)
      BY Zenon
    <3>2. PICK i \in 1 .. Len(s) : s[i] = x
      BY RangeOf
    <3>3. i \in 1 .. Len(r) /\ r[i] = x
      BY <1>1, <3>2
    <3>4. QED
      BY Zenon, <1>1, <3>3, RangeOf
  <2>3. b \in Range(r)
    <3>1. Len(s) + 1 \in 1 .. Len(r)
      BY <1>1
    <3>2. QED
      BY Zenon, <1>1, <3>1, RangeOf
  <2>4. QED
    BY Zenon, <2>1, <2>2, <2>3
<1>3. ASSUME IsInjective(s), b \notin Range(s) PROVE IsInjective(r)
  <2>1. \A i, j \in 1 .. Len(s) : s[i] = s[j] => i = j
    BY Zenon, <1>3, RangeOf
  <2>2. \A i \in 1 .. Len(s) : s[i] # b
    BY <1>3, RangeOf
  <2>3. \A i, j \in 1 .. Len(r) : r[i] = r[j] => i = j
    BY <1>1, <2>1, <2>2
  <2>4. QED
    BY Zenon, <1>1, <2>3, RangeOf
<1>4. QED
  BY Zenon, <1>1, <1>2, <1>3 DEF r

LEMMA RemovePacket ==
  ASSUME NEW S, NEW s \in Seq(S), IsInjective(s), NEW k \in 1 .. Len(s)
  PROVE  /\ RemoveAt(s, k) \in Seq(S)
         /\ s[k] \in Range(s)
         /\ Range(RemoveAt(s, k)) = Range(s) \ {s[k]}
         /\ IsInjective(RemoveAt(s, k))
<1> DEFINE r == RemoveAt(s, k)
<1>1. /\ r \in Seq(S) /\ Len(r) = Len(s) - 1
      /\ \A i \in 1 .. Len(r) : r[i] = IF i < k THEN s[i] ELSE s[i + 1]
  <2> DEFINE a == SubSeq(s, 1, k - 1)
             c == SubSeq(s, k + 1, Len(s))
  <2>1. a \in Seq(S) /\ Len(a) = k - 1 /\ \A i \in 1 .. k - 1 : a[i] = s[i]
    OBVIOUS
  <2>2. c \in Seq(S) /\ Len(c) = Len(s) - k /\ \A i \in 1 .. Len(s) - k : c[i] = s[i + k]
    OBVIOUS
  <2>3. r = a \o c
    BY Zenon DEF RemoveAt
  <2> HIDE DEF r, a, c
  <2>4. r \in Seq(S) /\ Len(r) = Len(s) - 1
    BY <2>1, <2>2, <2>3
  <2>5. ASSUME NEW i \in 1 .. Len(r) PROVE r[i] = IF i < k THEN s[i] ELSE s[i + 1]
    <3>1. r[i] = IF i <= Len(a) THEN a[i] ELSE c[i - Len(a)]
      BY <2>1, <2>2, <2>3, <2>4
    <3>2. CASE i < k
      BY <2>1, <3>1, <3>2
    <3>3. CASE i >= k
      <4>1. /\ i - Len(a) \in 1 .. Len(s) - k /\ (i - Len(a)) + k = i + 1
            /\ ~(i <= Len(a)) /\ ~(i < k)
        BY <2>1, <2>4, <3>3
      <4>2. c[i - Len(a)] = s[(i - Len(a)) + k]
        BY Zenon, <2>2, <4>1
      <4>3. QED
        BY Zenon, <3>1, <4>1, <4>2
    <3>4. QED
      BY <3>2, <3>3
  <2>6. QED
    BY Zenon, <2>4, <2>5
<1> HIDE DEF r
<1>2. \A i, j \in 1 .. Len(s) : s[i] = s[j] => i = j
  BY Zenon, RangeOf
<1>3. Range(r) = Range(s) \ {s[k]}
  <2>1. ASSUME NEW x \in Range(r) PROVE x \in Range(s) /\ x # s[k]
    <3>1. PICK i \in 1 .. Len(r) : r[i] = x
      BY <1>1, RangeOf
    <3>2. PICK j \in 1 .. Len(s) : s[j] = x /\ j # k
      BY <1>1, <3>1
    <3>3. QED
      BY Zenon, <1>2, <3>2, RangeOf
  <2>2. ASSUME NEW x \in Range(s), x # s[k] PROVE x \in Range(r)
    <3>1. PICK j \in 1 .. Len(s) : s[j] = x /\ j # k
      BY <2>2, RangeOf
    <3>2. PICK i \in 1 .. Len(r) : r[i] = x
      <4>1. CASE j < k
        BY <1>1, <3>1, <4>1
      <4>2. CASE j > k
        <5>1. j - 1 \in 1 .. Len(r) /\ r[j - 1] = x
          BY <1>1, <3>1, <4>2
        <5>2. QED
          BY Zenon, <5>1
      <4>3. QED
        BY <3>1, <4>1, <4>2
    <3>3. QED
      BY Zenon, <1>1, <3>2, RangeOf
  <2>3. QED
    BY Zenon, <2>1, <2>2
<1>4. \A i, j \in 1 .. Len(r) : r[i] = r[j] => i = j
  BY <1>1, <1>2
<1>5. IsInjective(r)
  BY Zenon, <1>1, <1>4, RangeOf
<1>6. QED
  BY Zenon, <1>1, <1>3, <1>5, RangeOf DEF r

LEMMA TakeFirst ==
  ASSUME NEW S, NEW s \in Seq(S), IsInjective(s), s # <<>>
  PROVE  /\ Tail(s) \in Seq(S) /\ Head(s) \in S
         /\ Head(s) \in Range(s)
         /\ Range(Tail(s)) = Range(s) \ {Head(s)}
         /\ IsInjective(Tail(s))
<1>1. 1 \in 1 .. Len(s) /\ Head(s) = s[1]
  OBVIOUS
<1>2. Tail(s) = RemoveAt(s, 1)
  <2> DEFINE a == SubSeq(s, 1, 0)
             c == SubSeq(s, 2, Len(s))
  <2>1. a = <<>> /\ c \in Seq(S) /\ c = Tail(s)
    OBVIOUS
  <2>2. a \o c = c
    BY <2>1
  <2>3. QED
    BY <2>1, <2>2 DEF RemoveAt
<1>3. /\ Tail(s) \in Seq(S) /\ s[1] \in Range(s)
      /\ Range(Tail(s)) = Range(s) \ {s[1]} /\ IsInjective(Tail(s))
  <2>1. /\ RemoveAt(s, 1) \in Seq(S) /\ s[1] \in Range(s)
        /\ Range(RemoveAt(s, 1)) = Range(s) \ {s[1]} /\ IsInjective(RemoveAt(s, 1))
    BY Zenon, <1>1, RemovePacket
  <2>2. QED
    BY Zenon, <1>2, <2>1
<1>4. Head(s) \in S
  BY <1>1
<1>5. QED
  BY Zenon, <1>1, <1>3, <1>4

(* The packets of a target, as fire() puts them in the pool. *)
PacketsOf(t) == {t} \X (1 .. slack)

LEMMA PacketFacts ==
  /\ None \notin Packet
  /\ \A b \in Packet : b[1] \in Targets
  /\ \A t \in Targets : /\ PacketsOf(t) \subseteq Packet
                        /\ \A b \in Packet : b \in PacketsOf(t) <=> b[1] = t
BY DEF None, Packet, PacketsOf

LEMMA Concatenated ==
  ASSUME NEW S, NEW s \in Seq(S), NEW r \in Seq(S)
  PROVE  /\ s \o r \in Seq(S) /\ Len(s \o r) = Len(s) + Len(r)
         /\ \A i \in 1 .. Len(s) : (s \o r)[i] = s[i]
OBVIOUS

LEMMA FillPool ==
  ASSUME NEW t \in Targets, NEW s \in Seq(Packet), IsInjective(s), \A b \in Range(s) : b[1] # t
  PROVE  LET r == s \o [j \in 1 .. slack |-> <<t, j>>]
         IN  /\ r \in Seq(Packet)
             /\ Range(r) = Range(s) \cup PacketsOf(t)
             /\ IsInjective(r)
<1> DEFINE f == [j \in 1 .. slack |-> <<t, j>>]
           r == s \o f
<1>0. slack \in Nat \ {0}
  BY Zenon, RouterAssumption
<1>1. f \in Seq(Packet) /\ Len(f) = slack /\ \A j \in 1 .. slack : f[j] = <<t, j>>
  BY <1>0 DEF Packet
<1> HIDE DEF f
<1>2. r \in Seq(Packet) /\ Len(r) = Len(s) + slack
  <2>1. f \in Seq(Packet) /\ Len(f) = slack
    BY Zenon, <1>1
  <2>2. r \in Seq(Packet) /\ Len(r) = Len(s) + Len(f)
    BY Zenon, <2>1, Concatenated
  <2>3. QED
    BY Zenon, <2>1, <2>2
<1>3. \A i \in 1 .. Len(s) : r[i] = s[i]
  BY <1>1, Concatenated
<1>4. \A i \in 1 .. Len(r) : i > Len(s) => i - Len(s) \in 1 .. slack /\ r[i] = <<t, i - Len(s)>>
  <2>1. SUFFICES ASSUME NEW i \in 1 .. Len(r), i > Len(s)
                 PROVE  i - Len(s) \in 1 .. slack /\ r[i] = <<t, i - Len(s)>>
    BY Zenon
  <2>2. i - Len(s) \in 1 .. slack
    BY <1>0, <1>2, <2>1
  <2>3. r[i] = f[i - Len(s)]
    BY <1>0, <1>1, <1>2, <2>1
  <2>4. QED
    BY Zenon, <1>1, <2>2, <2>3
<1> HIDE DEF r
<1>5. \A i \in 1 .. Len(s) : s[i] \in Range(s) /\ s[i][1] # t
  BY Zenon, RangeOf
<1>6. Range(r) = Range(s) \cup PacketsOf(t)
  <2>1. ASSUME NEW x \in Range(r) PROVE x \in Range(s) \cup PacketsOf(t)
    <3>1. PICK i \in 1 .. Len(r) : r[i] = x
      BY <1>2, RangeOf
    <3>2. CASE i <= Len(s)
      BY <1>3, <1>5, <3>1, <3>2
    <3>3. CASE i > Len(s)
      <4> DEFINE d == i - Len(s)
      <4>1. d \in 1 .. slack /\ x = <<t, d>>
        BY Zenon, <1>4, <3>1, <3>3
      <4> HIDE DEF d
      <4>2. QED
        BY Zenon, <4>1 DEF PacketsOf
    <3>4. QED
      BY <3>2, <3>3
  <2>2. ASSUME NEW x \in Range(s) PROVE x \in Range(r)
    <3>1. PICK i \in 1 .. Len(s) : s[i] = x
      BY RangeOf
    <3>2. i \in 1 .. Len(r) /\ r[i] = x
      BY <1>0, <1>2, <1>3, <3>1
    <3>3. QED
      BY Zenon, <1>2, <3>2, RangeOf
  <2>3. ASSUME NEW x \in PacketsOf(t) PROVE x \in Range(r)
    <3>1. PICK j \in 1 .. slack : x = <<t, j>>
      BY DEF PacketsOf
    <3>2. Len(s) + j \in 1 .. Len(r) /\ Len(s) + j > Len(s) /\ (Len(s) + j) - Len(s) = j
      BY <1>0, <1>2
    <3>3. r[Len(s) + j] = <<t, (Len(s) + j) - Len(s)>>
      BY Zenon, <1>4, <3>2
    <3>4. r[Len(s) + j] = x
      BY Zenon, <3>1, <3>2, <3>3
    <3>5. QED
      BY Zenon, <1>2, <3>2, <3>4, RangeOf
  <2>4. QED
    BY Zenon, <2>1, <2>2, <2>3
<1>7. \A i, j \in 1 .. Len(r) : r[i] = r[j] => i = j
  <2>1. SUFFICES ASSUME NEW i \in 1 .. Len(r), NEW j \in 1 .. Len(r), r[i] = r[j] PROVE i = j
    BY Zenon
  <2>2. CASE i <= Len(s) /\ j <= Len(s)
    <3>1. s[i] = s[j] /\ i \in 1 .. Len(s) /\ j \in 1 .. Len(s)
      BY <1>3, <2>1, <2>2
    <3>2. QED
      BY Zenon, <3>1, RangeOf
  <2>3. CASE i > Len(s) /\ j > Len(s)
    <3>1. i - Len(s) = j - Len(s)
      BY <1>4, <2>1, <2>3
    <3>2. QED
      BY <3>1
  <2>4. CASE i <= Len(s) /\ j > Len(s)
    BY <1>3, <1>4, <1>5, <2>1, <2>4
  <2>5. CASE i > Len(s) /\ j <= Len(s)
    BY <1>3, <1>4, <1>5, <2>1, <2>5
  <2>6. QED
    BY <2>2, <2>3, <2>4, <2>5
<1>8. IsInjective(r)
  BY Zenon, <1>2, <1>7, RangeOf
<1>9. QED
  BY Zenon, <1>2, <1>6, <1>8 DEF r, f

-----------------------------------------------------------------------------
(* Places, and packets that move between them. *)

LEMMA PlaceFacts ==
  /\ Producers \cap Targets = {}
  /\ \A l \in Place : \/ l[1] \in {"pool", "fifo", "back"} /\ l[2] \in Targets
                      \/ l[1] = "hand" /\ l[2] \in Threads
  /\ \A l \in Place : l = <<l[1], l[2]>>
  /\ \A t \in Targets : <<"pool", t>> \in Place /\ <<"fifo", t>> \in Place /\ <<"back", t>> \in Place
  /\ \A w \in Threads : <<"hand", w>> \in Place
BY RouterAssumption DEF Place

LEMMA PlacesDiffer ==
  ASSUME NEW x, NEW y
  PROVE  /\ <<"pool", x>> # <<"hand", y>> /\ <<"fifo", x>> # <<"hand", y>>
         /\ <<"pool", x>> # <<"back", y>> /\ <<"back", x>> # <<"hand", y>>
         /\ <<"hand", x>> = <<"hand", y>> => x = y
BY Zenon

LEMMA PlacesInPlay ==
  ASSUME NEW x
  PROVE  InPlay(<<"pool", x>>) /\ InPlay(<<"fifo", x>>) /\ InPlay(<<"hand", x>>)
BY Zenon DEF InPlay

LEMMA HoldingAt ==
  /\ \A t \in Targets : /\ Holding[<<"pool", t>>] = Range(free_pool[t])
                        /\ Holding[<<"fifo", t>>] = Range(ready_fifo[t])
                        /\ Holding[<<"back", t>>] = back[t]
  /\ \A w \in Threads : Holding[<<"hand", w>>] = {packet[w]} \ {None}
<1>1. \A l \in Place : /\ l[1] = "pool" => Holding[l] = Range(free_pool[l[2]])
                       /\ l[1] = "fifo" => Holding[l] = Range(ready_fifo[l[2]])
                       /\ l[1] = "back" => Holding[l] = back[l[2]]
                       /\ l[1] = "hand" => Holding[l] = {packet[l[2]]} \ {None}
  BY Zenon DEF Holding
<1>2. \A k, x : <<k, x>>[1] = k /\ <<k, x>>[2] = x
  BY Zenon
<1>3. QED
  BY Zenon, <1>1, <1>2, PlaceFacts

LEMMA HoldingAtNext ==
  /\ \A t \in Targets : /\ Holding'[<<"pool", t>>] = Range(free_pool'[t])
                        /\ Holding'[<<"fifo", t>>] = Range(ready_fifo'[t])
                        /\ Holding'[<<"back", t>>] = back'[t]
  /\ \A w \in Threads : Holding'[<<"hand", w>>] = {packet'[w]} \ {None}
<1>1. \A l \in Place : /\ l[1] = "pool" => Holding'[l] = Range(free_pool'[l[2]])
                       /\ l[1] = "fifo" => Holding'[l] = Range(ready_fifo'[l[2]])
                       /\ l[1] = "back" => Holding'[l] = back'[l[2]]
                       /\ l[1] = "hand" => Holding'[l] = {packet'[l[2]]} \ {None}
  BY Zenon DEF Holding
<1>2. \A k, x : <<k, x>>[1] = k /\ <<k, x>>[2] = x
  BY Zenon
<1>3. QED
  BY Zenon, <1>1, <1>2, PlaceFacts

(* b goes from place a to place c. *)
Moves(b, a, c) ==
  /\ a \in Place /\ c \in Place /\ a # c /\ b \in Holding[a]
  /\ Holding'[a] = Holding[a] \ {b}
  /\ Holding'[c] = Holding[c] \cup {b}
  /\ \A l \in Place : l # a /\ l # c => Holding'[l] = Holding[l]

LEMMA StillApart ==
  ASSUME NEW b, NEW a, NEW c, Moves(b, a, c), Apart(Holding)
  PROVE  Apart(Holding')
<1> DEFINE H == Holding
           G == Holding'
<1>1. /\ a \in Place /\ c \in Place /\ a # c /\ b \in H[a]
      /\ G[a] = H[a] \ {b} /\ G[c] = H[c] \cup {b}
      /\ \A l \in Place : l # a /\ l # c => G[l] = H[l]
      /\ \A l, m \in Place : l # m => H[l] \cap H[m] = {}
  BY Zenon DEF Moves, Apart
<1> HIDE DEF H, G
<1>2. SUFFICES ASSUME NEW l \in Place, NEW m \in Place, l # m PROVE G[l] \cap G[m] = {}
  BY Zenon DEF Apart, G
<1>3. \A n \in Place : n # a => b \notin H[n]
  BY Zenon, <1>1
<1>4. G[l] \subseteq H[l] \cup {b} /\ (b \in G[l] => l = c)
  BY Zenon, <1>1, <1>3
<1>5. G[m] \subseteq H[m] \cup {b} /\ (b \in G[m] => m = c)
  BY Zenon, <1>1, <1>3
<1>6. H[l] \cap H[m] = {}
  BY Zenon, <1>1, <1>2
<1>7. QED
  BY Zenon, <1>2, <1>4, <1>5, <1>6

(* What a step leaves alone: the places of a kind, but the one of x. *)
SameBut(k, x) == \A l \in Place : l[1] = k /\ l[2] # x => Holding'[l] = Holding[l]
Same(k) == \A l \in Place : l[1] = k => Holding'[l] = Holding[l]

LEMMA SamePlaces ==
  /\ free_pool' = free_pool => Same("pool")
  /\ ready_fifo' = ready_fifo => Same("fifo")
  /\ back' = back => Same("back")
  /\ packet' = packet => Same("hand")
BY Zenon DEF Same, Holding

LEMMA SamePlacesBut ==
  ASSUME NEW x
  PROVE  /\ (\A t \in Targets : t # x => free_pool'[t] = free_pool[t]) => SameBut("pool", x)
         /\ (\A t \in Targets : t # x => ready_fifo'[t] = ready_fifo[t]) => SameBut("fifo", x)
         /\ (\A t \in Targets : t # x => back'[t] = back[t]) => SameBut("back", x)
         /\ (\A w \in Threads : w # x => packet'[w] = packet[w]) => SameBut("hand", x)
<1>1. \A l \in Place : /\ l[1] = "pool" => l[2] \in Targets
                       /\ l[1] = "fifo" => l[2] \in Targets
                       /\ l[1] = "back" => l[2] \in Targets
                       /\ l[1] = "hand" => l[2] \in Threads
  BY Zenon, PlaceFacts
<1>2. \A l \in Place :
        /\ l[1] = "pool" => Holding[l] = Range(free_pool[l[2]]) /\ Holding'[l] = Range(free_pool'[l[2]])
        /\ l[1] = "fifo" => Holding[l] = Range(ready_fifo[l[2]]) /\ Holding'[l] = Range(ready_fifo'[l[2]])
        /\ l[1] = "back" => Holding[l] = back[l[2]] /\ Holding'[l] = back'[l[2]]
        /\ l[1] = "hand" => Holding[l] = {packet[l[2]]} \ {None} /\ Holding'[l] = {packet'[l[2]]} \ {None}
  BY Zenon DEF Holding
<1>3. ASSUME \A t \in Targets : t # x => free_pool'[t] = free_pool[t] PROVE SameBut("pool", x)
  <2>1. SUFFICES ASSUME NEW l \in Place, l[1] = "pool", l[2] # x PROVE Holding'[l] = Holding[l]
    BY Zenon DEF SameBut
  <2>2. free_pool'[l[2]] = free_pool[l[2]]
    BY Zenon, <1>3, <1>1, <2>1
  <2>3. QED
    BY Zenon, <1>2, <2>1, <2>2
<1>4. ASSUME \A t \in Targets : t # x => ready_fifo'[t] = ready_fifo[t] PROVE SameBut("fifo", x)
  <2>1. SUFFICES ASSUME NEW l \in Place, l[1] = "fifo", l[2] # x PROVE Holding'[l] = Holding[l]
    BY Zenon DEF SameBut
  <2>2. ready_fifo'[l[2]] = ready_fifo[l[2]]
    BY Zenon, <1>4, <1>1, <2>1
  <2>3. QED
    BY Zenon, <1>2, <2>1, <2>2
<1>5. ASSUME \A t \in Targets : t # x => back'[t] = back[t] PROVE SameBut("back", x)
  <2>1. SUFFICES ASSUME NEW l \in Place, l[1] = "back", l[2] # x PROVE Holding'[l] = Holding[l]
    BY Zenon DEF SameBut
  <2>2. back'[l[2]] = back[l[2]]
    BY Zenon, <1>5, <1>1, <2>1
  <2>3. QED
    BY Zenon, <1>2, <2>1, <2>2
<1>6. ASSUME \A w \in Threads : w # x => packet'[w] = packet[w] PROVE SameBut("hand", x)
  <2>1. SUFFICES ASSUME NEW l \in Place, l[1] = "hand", l[2] # x PROVE Holding'[l] = Holding[l]
    BY Zenon DEF SameBut
  <2>2. packet'[l[2]] = packet[l[2]]
    BY Zenon, <1>6, <1>1, <2>1
  <2>3. QED
    BY Zenon, <1>2, <2>1, <2>2
<1>7. QED
  BY Zenon, <1>3, <1>4, <1>5, <1>6

LEMMA OnlyTwoPlaces ==
  ASSUME NEW k, NEW x, NEW n, NEW y, SameBut(k, x), SameBut(n, y),
         \A m \in {"pool", "fifo", "back", "hand"} \ {k, n} : Same(m)
  PROVE  \A l \in Place : l # <<k, x>> /\ l # <<n, y>> => Holding'[l] = Holding[l]
<1>1. SUFFICES ASSUME NEW l \in Place, l # <<k, x>>, l # <<n, y>> PROVE Holding'[l] = Holding[l]
  BY Zenon
<1>2. l[1] \in {"pool", "fifo", "back", "hand"} /\ l = <<l[1], l[2]>>
  BY Zenon, PlaceFacts
<1>3. CASE l[1] = k
  <2>1. l[2] # x
    BY Zenon, <1>1, <1>2, <1>3
  <2>2. QED
    BY Zenon, <1>3, <2>1 DEF SameBut
<1>4. CASE l[1] = n
  <2>1. l[2] # y
    BY Zenon, <1>1, <1>2, <1>4
  <2>2. QED
    BY Zenon, <1>4, <2>1 DEF SameBut
<1>5. CASE l[1] # k /\ l[1] # n
  BY Zenon, <1>2, <1>5 DEF Same
<1>6. QED
  BY Zenon, <1>3, <1>4, <1>5

-----------------------------------------------------------------------------
(* One list of several changes: the free pools, or the ready queues. *)
Lists(F) == F \in [Targets -> Seq(Packet)] /\ \A t \in Targets : IsInjective(F[t])

-----------------------------------------------------------------------------
(* The steps that move a packet. *)

LEMMA PoolOf ==
  ASSUME TypeOK
  PROVE  \A t \in Targets : pool(t) \in Targets /\ (~shared => pool(t) = t)
BY RouterAssumption DEF pool, Targets

LEMMA ListsHold ==
  ASSUME TypeOK, Unique
  PROVE  Lists(free_pool) /\ Lists(ready_fifo)
BY Zenon DEF TypeOK, Unique, Lists

(* What a thread has is nowhere else. *)
LEMMA HandAlone ==
  ASSUME Unique, NEW w \in Threads, packet[w] # None
  PROVE  /\ \A t \in Targets : /\ packet[w] \notin Range(free_pool[t])
                               /\ packet[w] \notin Range(ready_fifo[t])
         /\ \A v \in Threads : v # w => packet[v] # packet[w]
<1>1. packet[w] \in Holding[<<"hand", w>>]
  BY Zenon, HoldingAt
<1>2. \A l \in Place : l # <<"hand", w>> => packet[w] \notin Holding[l]
  BY Zenon, <1>1, PlaceFacts DEF Unique, Apart
<1>4. \A t \in Targets : /\ packet[w] \notin Holding[<<"pool", t>>]
                         /\ packet[w] \notin Holding[<<"fifo", t>>]
  BY Zenon, <1>2, PlacesDiffer, PlaceFacts
<1>5. \A v \in Threads : v # w => packet[w] \notin Holding[<<"hand", v>>]
  BY Zenon, <1>2, PlacesDiffer, PlaceFacts
<1>6. QED
  BY Zenon, <1>4, <1>5, HoldingAt

LEMMA StoreMoves ==
  ASSUME TypeOK, Unique, Hands, NEW p \in Producers, store(p)
  PROVE  /\ Moves(packet'[p], <<"pool", pool(target[p])>>, <<"hand", p>>)
         /\ Lists(free_pool') /\ packet'[p] \in Packet
         /\ \A w \in Threads : w # p => packet'[w] = packet[w]
<1> DEFINE q == pool(target[p])
<1>1. q \in Targets /\ p \in Threads /\ packet[p] = None
  BY Zenon, PoolOf DEF Hands, store, Threads
<1>2. PICK i \in 1 .. Len(tickets[q]) :
        /\ i <= Len(free_pool[q])
        /\ packet' = [packet EXCEPT ![p] = free_pool[q][i]]
        /\ free_pool' = [free_pool EXCEPT ![q] = RemoveAt(@, i)]
  BY Zenon DEF store, take
<1> HIDE DEF q
<1>3. i \in 1 .. Len(free_pool[q])
  BY <1>1, <1>2 DEF TypeOK
<1>4. /\ Lists(free_pool') /\ free_pool[q][i] \in Range(free_pool[q]) /\ free_pool[q][i] \in Packet
      /\ Range(free_pool'[q]) = Range(free_pool[q]) \ {free_pool[q][i]}
      /\ \A t \in Targets : t # q => free_pool'[t] = free_pool[t]
  <2>1. free_pool[q] \in Seq(Packet) /\ IsInjective(free_pool[q])
    BY Zenon, <1>1, ListsHold DEF Lists
  <2>2. /\ RemoveAt(free_pool[q], i) \in Seq(Packet) /\ IsInjective(RemoveAt(free_pool[q], i))
        /\ free_pool[q][i] \in Range(free_pool[q])
        /\ Range(RemoveAt(free_pool[q], i)) = Range(free_pool[q]) \ {free_pool[q][i]}
    BY Zenon, <1>3, <2>1, RemovePacket
  <2>3. /\ free_pool' \in [Targets -> Seq(Packet)] /\ free_pool'[q] = RemoveAt(free_pool[q], i)
        /\ \A t \in Targets : t # q => free_pool'[t] = free_pool[t]
    BY Zenon, <1>1, <1>2, <2>2 DEF TypeOK
  <2>4. Lists(free_pool')
    BY Zenon, <2>2, <2>3, ListsHold DEF Lists
  <2>5. free_pool[q][i] \in Packet
    BY Zenon, <2>1, <2>2, RangeOf
  <2>6. QED
    BY Zenon, <2>2, <2>3, <2>4, <2>5
<1>5. packet'[p] = free_pool[q][i] /\ \A w \in Threads : w # p => packet'[w] = packet[w]
  BY Zenon, <1>1, <1>2 DEF TypeOK
<1>6. ready_fifo' = ready_fifo /\ back' = back
  BY Zenon DEF store
<1>7. \A l \in Place : l # <<"pool", q>> /\ l # <<"hand", p>> => Holding'[l] = Holding[l]
  <2>1. SameBut("pool", q) /\ SameBut("hand", p) /\ Same("fifo") /\ Same("back")
    BY Zenon, <1>4, <1>5, <1>6, SamePlaces, SamePlacesBut
  <2>2. QED
    BY <2>1, OnlyTwoPlaces
<1>8. /\ Holding[<<"pool", q>>] = Range(free_pool[q]) /\ Holding'[<<"pool", q>>] = Range(free_pool'[q])
      /\ Holding[<<"hand", p>>] = {} /\ Holding'[<<"hand", p>>] = {packet'[p]}
  <2>1. None # packet'[p]
    BY <1>4, <1>5, PacketFacts
  <2>2. {None} \ {None} = {} /\ {packet'[p]} \ {None} = {packet'[p]}
    BY Zenon, <2>1
  <2>3. QED
    BY Zenon, <1>1, <2>2, HoldingAt, HoldingAtNext
<1>9. <<"pool", q>> \in Place /\ <<"hand", p>> \in Place /\ <<"pool", q>> # <<"hand", p>>
  BY Zenon, <1>1, PlaceFacts, PlacesDiffer
<1>10. QED
  BY Zenon, <1>4, <1>5, <1>7, <1>8, <1>9 DEF Moves, q

LEMMA ReleaseMoves ==
  ASSUME TypeOK, Unique, Hands, NEW p \in Producers, releaseBuffer(p)
  PROVE  /\ Moves(packet[p], <<"hand", p>>, <<"fifo", target[p]>>)
         /\ Lists(ready_fifo') /\ Range(ready_fifo'[target[p]]) = Range(ready_fifo[target[p]]) \cup {packet[p]}
         /\ \A t \in Targets : t # target[p] => ready_fifo'[t] = ready_fifo[t]
         /\ packet'[p] = None /\ \A w \in Threads : w # p => packet'[w] = packet[w]
<1> DEFINE q == target[p]
<1>1. q \in Targets /\ p \in Threads /\ packet[p] # None /\ packet[p] \in Packet
  BY Zenon DEF Hands, releaseBuffer, Threads, TypeOK
<1>2. /\ packet' = [packet EXCEPT ![p] = None]
      /\ ready_fifo' = [ready_fifo EXCEPT ![q] = Append(@, packet[p])]
      /\ free_pool' = free_pool /\ back' = back
  BY Zenon DEF releaseBuffer
<1> HIDE DEF q
<1>3. packet[p] \notin Range(ready_fifo[q])
  BY Zenon, <1>1, HandAlone
<1>4. /\ Lists(ready_fifo') /\ Range(ready_fifo'[q]) = Range(ready_fifo[q]) \cup {packet[p]}
      /\ \A t \in Targets : t # q => ready_fifo'[t] = ready_fifo[t]
  <2>1. ready_fifo[q] \in Seq(Packet) /\ IsInjective(ready_fifo[q])
    BY Zenon, <1>1, ListsHold DEF Lists
  <2>2. /\ Append(ready_fifo[q], packet[p]) \in Seq(Packet)
        /\ IsInjective(Append(ready_fifo[q], packet[p]))
        /\ Range(Append(ready_fifo[q], packet[p])) = Range(ready_fifo[q]) \cup {packet[p]}
    BY <1>1, <1>3, <2>1, AppendPacket
  <2>3. /\ ready_fifo' \in [Targets -> Seq(Packet)]
        /\ ready_fifo'[q] = Append(ready_fifo[q], packet[p])
        /\ \A t \in Targets : t # q => ready_fifo'[t] = ready_fifo[t]
    BY Zenon, <1>1, <1>2, <2>2 DEF TypeOK
  <2>4. Lists(ready_fifo')
    BY Zenon, <2>2, <2>3, ListsHold DEF Lists
  <2>5. QED
    BY Zenon, <2>2, <2>3, <2>4
<1>5. packet'[p] = None /\ \A w \in Threads : w # p => packet'[w] = packet[w]
  BY Zenon, <1>1, <1>2 DEF TypeOK
<1>6. \A l \in Place : l # <<"hand", p>> /\ l # <<"fifo", q>> => Holding'[l] = Holding[l]
  <2>1. SameBut("fifo", q) /\ SameBut("hand", p) /\ Same("pool") /\ Same("back")
    BY Zenon, <1>2, <1>4, <1>5, SamePlaces, SamePlacesBut
  <2>2. QED
    BY <2>1, OnlyTwoPlaces
<1>7. /\ Holding[<<"fifo", q>>] = Range(ready_fifo[q]) /\ Holding'[<<"fifo", q>>] = Range(ready_fifo'[q])
      /\ Holding[<<"hand", p>>] = {packet[p]} /\ Holding'[<<"hand", p>>] = {}
  <2>1. {None} \ {None} = {} /\ {packet[p]} \ {None} = {packet[p]}
    BY Zenon, <1>1
  <2>2. QED
    BY Zenon, <1>1, <1>5, <2>1, HoldingAt, HoldingAtNext
<1>8. <<"fifo", q>> \in Place /\ <<"hand", p>> \in Place /\ <<"hand", p>> # <<"fifo", q>>
  BY Zenon, <1>1, PlaceFacts, PlacesDiffer
<1>9. {packet[p]} \ {packet[p]} = {}
  BY Zenon
<1>10. Moves(packet[p], <<"hand", p>>, <<"fifo", q>>)
  BY Zenon, <1>4, <1>6, <1>7, <1>8, <1>9 DEF Moves
<1>11. QED
  BY Zenon, <1>4, <1>5, <1>10 DEF q

LEMMA ReadyMoves ==
  ASSUME TypeOK, Unique, Hands, NEW t \in Targets, get_ready(t)
  PROVE  /\ Moves(packet'[t], <<"fifo", t>>, <<"hand", t>>)
         /\ Lists(ready_fifo') /\ packet'[t] \in Range(ready_fifo[t]) /\ packet'[t] \in Packet
         /\ Range(ready_fifo'[t]) = Range(ready_fifo[t]) \ {packet'[t]}
         /\ \A u \in Targets : u # t => ready_fifo'[u] = ready_fifo[u]
         /\ \A w \in Threads : w # t => packet'[w] = packet[w]
<1>1. t \in Threads /\ packet[t] = None
  BY Zenon DEF Hands, get_ready, Threads
<1>2. /\ ready_fifo[t] # <<>>
      /\ packet' = [packet EXCEPT ![t] = Head(ready_fifo[t])]
      /\ ready_fifo' = [ready_fifo EXCEPT ![t] = Tail(@)]
      /\ free_pool' = free_pool /\ back' = back
  BY Zenon DEF get_ready
<1>3. packet'[t] = Head(ready_fifo[t]) /\ \A w \in Threads : w # t => packet'[w] = packet[w]
  BY Zenon, <1>1, <1>2 DEF TypeOK
<1>4. /\ Lists(ready_fifo') /\ packet'[t] \in Range(ready_fifo[t]) /\ packet'[t] \in Packet
      /\ Range(ready_fifo'[t]) = Range(ready_fifo[t]) \ {packet'[t]}
      /\ \A u \in Targets : u # t => ready_fifo'[u] = ready_fifo[u]
  <2>1. ready_fifo[t] \in Seq(Packet) /\ IsInjective(ready_fifo[t])
    BY Zenon, ListsHold DEF Lists
  <2>2. /\ Tail(ready_fifo[t]) \in Seq(Packet) /\ IsInjective(Tail(ready_fifo[t]))
        /\ Head(ready_fifo[t]) \in Range(ready_fifo[t]) /\ Head(ready_fifo[t]) \in Packet
        /\ Range(Tail(ready_fifo[t])) = Range(ready_fifo[t]) \ {Head(ready_fifo[t])}
    BY Zenon, <1>2, <2>1, TakeFirst
  <2>3. /\ ready_fifo' \in [Targets -> Seq(Packet)] /\ ready_fifo'[t] = Tail(ready_fifo[t])
        /\ \A u \in Targets : u # t => ready_fifo'[u] = ready_fifo[u]
    BY Zenon, <1>2, <2>2 DEF TypeOK
  <2>4. Lists(ready_fifo')
    BY Zenon, <2>2, <2>3, ListsHold DEF Lists
  <2>5. QED
    BY Zenon, <1>3, <2>2, <2>3, <2>4
<1>5. \A l \in Place : l # <<"fifo", t>> /\ l # <<"hand", t>> => Holding'[l] = Holding[l]
  <2>1. SameBut("fifo", t) /\ SameBut("hand", t) /\ Same("pool") /\ Same("back")
    BY Zenon, <1>2, <1>3, <1>4, SamePlaces, SamePlacesBut
  <2>2. QED
    BY <2>1, OnlyTwoPlaces
<1>6. /\ Holding[<<"fifo", t>>] = Range(ready_fifo[t]) /\ Holding'[<<"fifo", t>>] = Range(ready_fifo'[t])
      /\ Holding[<<"hand", t>>] = {} /\ Holding'[<<"hand", t>>] = {packet'[t]}
  <2>1. None # packet'[t]
    BY Zenon, <1>4, PacketFacts
  <2>2. {None} \ {None} = {} /\ {packet'[t]} \ {None} = {packet'[t]}
    BY Zenon, <2>1
  <2>3. QED
    BY Zenon, <1>1, <2>2, HoldingAt, HoldingAtNext
<1>7. <<"fifo", t>> \in Place /\ <<"hand", t>> \in Place /\ <<"fifo", t>> # <<"hand", t>>
  BY Zenon, <1>1, PlaceFacts, PlacesDiffer
<1>8. QED
  BY Zenon, <1>3, <1>4, <1>5, <1>6, <1>7 DEF Moves

LEMMA FreeMoves ==
  ASSUME TypeOK, Unique, Hands, NEW t \in Targets, freeBuffer(t)
  PROVE  /\ Moves(packet[t], <<"hand", t>>, <<"pool", pool(t)>>)
         /\ Lists(free_pool')
         /\ packet'[t] = None /\ \A w \in Threads : w # t => packet'[w] = packet[w]
<1> DEFINE q == pool(t)
<1>1. q \in Targets /\ t \in Threads /\ packet[t] # None /\ packet[t] \in Packet
  BY Zenon, PoolOf DEF Hands, freeBuffer, Threads, TypeOK
<1>2. /\ packet' = [packet EXCEPT ![t] = None]
      /\ free_pool' = [free_pool EXCEPT ![q] = Append(@, packet[t])]
      /\ ready_fifo' = ready_fifo /\ back' = back
  BY Zenon DEF freeBuffer
<1> HIDE DEF q
<1>3. packet[t] \notin Range(free_pool[q])
  BY Zenon, <1>1, HandAlone
<1>4. /\ Lists(free_pool') /\ Range(free_pool'[q]) = Range(free_pool[q]) \cup {packet[t]}
      /\ \A u \in Targets : u # q => free_pool'[u] = free_pool[u]
  <2>1. free_pool[q] \in Seq(Packet) /\ IsInjective(free_pool[q])
    BY Zenon, <1>1, ListsHold DEF Lists
  <2>2. /\ Append(free_pool[q], packet[t]) \in Seq(Packet)
        /\ IsInjective(Append(free_pool[q], packet[t]))
        /\ Range(Append(free_pool[q], packet[t])) = Range(free_pool[q]) \cup {packet[t]}
    BY <1>1, <1>3, <2>1, AppendPacket
  <2>3. /\ free_pool' \in [Targets -> Seq(Packet)]
        /\ free_pool'[q] = Append(free_pool[q], packet[t])
        /\ \A u \in Targets : u # q => free_pool'[u] = free_pool[u]
    BY Zenon, <1>1, <1>2, <2>2 DEF TypeOK
  <2>4. Lists(free_pool')
    BY Zenon, <2>2, <2>3, ListsHold DEF Lists
  <2>5. QED
    BY Zenon, <2>2, <2>3, <2>4
<1>5. packet'[t] = None /\ \A w \in Threads : w # t => packet'[w] = packet[w]
  BY Zenon, <1>1, <1>2 DEF TypeOK
<1>6. \A l \in Place : l # <<"hand", t>> /\ l # <<"pool", q>> => Holding'[l] = Holding[l]
  <2>1. SameBut("pool", q) /\ SameBut("hand", t) /\ Same("fifo") /\ Same("back")
    BY Zenon, <1>2, <1>4, <1>5, SamePlaces, SamePlacesBut
  <2>2. QED
    BY <2>1, OnlyTwoPlaces
<1>7. /\ Holding[<<"pool", q>>] = Range(free_pool[q]) /\ Holding'[<<"pool", q>>] = Range(free_pool'[q])
      /\ Holding[<<"hand", t>>] = {packet[t]} /\ Holding'[<<"hand", t>>] = {}
  <2>1. {None} \ {None} = {} /\ {packet[t]} \ {None} = {packet[t]}
    BY Zenon, <1>1
  <2>2. QED
    BY Zenon, <1>1, <1>5, <2>1, HoldingAt, HoldingAtNext
<1>8. <<"pool", q>> \in Place /\ <<"hand", t>> \in Place /\ <<"hand", t>> # <<"pool", q>>
  BY Zenon, <1>1, PlaceFacts, PlacesDiffer
<1>9. {packet[t]} \ {packet[t]} = {}
  BY Zenon
<1>10. Moves(packet[t], <<"hand", t>>, <<"pool", q>>)
  BY Zenon, <1>4, <1>6, <1>7, <1>8, <1>9 DEF Moves
<1>11. QED
  BY Zenon, <1>4, <1>5, <1>10 DEF q

(* fire_reacquire with a ticket whose packet has come. *)
LEMMA ReacquireMoves ==
  ASSUME TypeOK, Unique, NEW t \in Targets, fire_reacquire(t), free_pool' # free_pool \/ back' # back
  PROVE  /\ Lists(free_pool')
         /\ \E b \in Packet : /\ Moves(b, <<"pool", pool(t)>>, <<"back", t>>)
                              /\ back' = [back EXCEPT ![t] = @ \cup {b}]
<1> DEFINE q == pool(t)
<1>1. q \in Targets
  BY Zenon, PoolOf
<1>2. PICK i \in 1 .. Len(tickets[q]) :
        /\ i <= Len(free_pool[q])
        /\ back' = [back EXCEPT ![t] = @ \cup {free_pool[q][i]}]
        /\ free_pool' = [free_pool EXCEPT ![q] = RemoveAt(@, i)]
  BY Zenon DEF fire_reacquire
<1> HIDE DEF q
<1>3. i \in 1 .. Len(free_pool[q])
  BY <1>1, <1>2 DEF TypeOK
<1>4. /\ Lists(free_pool') /\ free_pool[q][i] \in Range(free_pool[q]) /\ free_pool[q][i] \in Packet
      /\ Range(free_pool'[q]) = Range(free_pool[q]) \ {free_pool[q][i]}
      /\ \A u \in Targets : u # q => free_pool'[u] = free_pool[u]
  <2>1. free_pool[q] \in Seq(Packet) /\ IsInjective(free_pool[q])
    BY Zenon, <1>1, ListsHold DEF Lists
  <2>2. /\ RemoveAt(free_pool[q], i) \in Seq(Packet) /\ IsInjective(RemoveAt(free_pool[q], i))
        /\ free_pool[q][i] \in Range(free_pool[q])
        /\ Range(RemoveAt(free_pool[q], i)) = Range(free_pool[q]) \ {free_pool[q][i]}
    BY Zenon, <1>3, <2>1, RemovePacket
  <2>3. /\ free_pool' \in [Targets -> Seq(Packet)] /\ free_pool'[q] = RemoveAt(free_pool[q], i)
        /\ \A u \in Targets : u # q => free_pool'[u] = free_pool[u]
    BY Zenon, <1>1, <1>2, <2>2 DEF TypeOK
  <2>4. Lists(free_pool')
    BY Zenon, <2>2, <2>3, ListsHold DEF Lists
  <2>5. free_pool[q][i] \in Packet
    BY Zenon, <2>1, <2>2, RangeOf
  <2>6. QED
    BY Zenon, <2>2, <2>3, <2>4, <2>5
<1> DEFINE b == free_pool[q][i]
<1>5. back'[t] = back[t] \cup {b} /\ \A u \in Targets : u # t => back'[u] = back[u]
  BY Zenon, <1>2 DEF TypeOK
<1> HIDE DEF b
<1>6. packet' = packet /\ ready_fifo' = ready_fifo
  BY Zenon DEF fire_reacquire
<1>7. \A l \in Place : l # <<"pool", q>> /\ l # <<"back", t>> => Holding'[l] = Holding[l]
  <2>1. SameBut("pool", q) /\ SameBut("back", t) /\ Same("fifo") /\ Same("hand")
    BY Zenon, <1>4, <1>5, <1>6, SamePlaces, SamePlacesBut
  <2>2. QED
    BY <2>1, OnlyTwoPlaces
<1>8. /\ Holding[<<"pool", q>>] = Range(free_pool[q]) /\ Holding'[<<"pool", q>>] = Range(free_pool'[q])
      /\ Holding[<<"back", t>>] = back[t] /\ Holding'[<<"back", t>>] = back'[t]
  BY Zenon, <1>1, HoldingAt, HoldingAtNext
<1>9. <<"pool", q>> \in Place /\ <<"back", t>> \in Place /\ <<"pool", q>> # <<"back", t>>
  BY Zenon, <1>1, PlaceFacts, PlacesDiffer
<1>10. Moves(b, <<"pool", q>>, <<"back", t>>)
  BY Zenon, <1>4, <1>5, <1>7, <1>8, <1>9 DEF Moves, b
<1>11. QED
  BY Zenon, <1>2, <1>4, <1>10 DEF q, b

(* fire() puts the packets of its target in the pool. *)
LEMMA OpenFills ==
  ASSUME TypeOK, Unique, Fresh, NEW t \in Targets, fire_open(t)
  PROVE  /\ Lists(free_pool')
         /\ Holding'[<<"pool", pool(t)>>] = Holding[<<"pool", pool(t)>>] \cup PacketsOf(t)
         /\ \A l \in Place : l # <<"pool", pool(t)>> => Holding'[l] = Holding[l]
<1> DEFINE q == pool(t)
           r == free_pool[q] \o [j \in 1 .. slack |-> <<t, j>>]
<1>1. q \in Targets
  BY Zenon, PoolOf
<1>2. /\ firer[t] = "spawned" /\ free_pool' = [free_pool EXCEPT ![q] = r]
      /\ packet' = packet /\ ready_fifo' = ready_fifo /\ back' = back
  BY Zenon DEF fire_open
<1> HIDE DEF q
<1>3. \A b \in Range(free_pool[q]) : b[1] # t
  <2>1. <<"pool", q>> \in Place /\ Holding[<<"pool", q>>] = Range(free_pool[q])
    BY Zenon, <1>1, HoldingAt, PlaceFacts
  <2>2. \A l \in Place : \A b \in Holding[l] : b[1] # t
    BY Zenon, <1>2 DEF Fresh, NotYet
  <2>3. QED
    BY Zenon, <2>1, <2>2
<1>4. free_pool[q] \in Seq(Packet) /\ IsInjective(free_pool[q])
  BY Zenon, <1>1, ListsHold DEF Lists
<1>5. /\ r \in Seq(Packet) /\ IsInjective(r)
      /\ Range(r) = Range(free_pool[q]) \cup PacketsOf(t)
  BY Zenon, <1>3, <1>4, FillPool
<1> HIDE DEF r
<1>6. /\ free_pool' \in [Targets -> Seq(Packet)] /\ free_pool'[q] = r
      /\ \A u \in Targets : u # q => free_pool'[u] = free_pool[u]
  <2>1. \A H, g : \A x \in Seq(Packet) : H \in [Targets -> Seq(Packet)] /\ g = [H EXCEPT ![q] = x]
          => g \in [Targets -> Seq(Packet)] /\ g[q] = x /\ \A u \in Targets : u # q => g[u] = H[u]
    BY Zenon, <1>1
  <2>2. free_pool \in [Targets -> Seq(Packet)]
    BY Zenon DEF TypeOK
  <2>3. QED
    BY Zenon, <1>2, <1>5, <2>1, <2>2
<1>7. Lists(free_pool')
  BY Zenon, <1>5, <1>6, ListsHold DEF Lists
<1>8. \A l \in Place : l # <<"pool", q>> => Holding'[l] = Holding[l]
  <2>1. SameBut("pool", q) /\ Same("back") /\ Same("fifo") /\ Same("hand")
    BY Zenon, <1>2, <1>6, SamePlaces, SamePlacesBut
  <2>2. QED
    BY <2>1, OnlyTwoPlaces
<1>9. QED
  BY Zenon, <1>1, <1>5, <1>6, <1>7, <1>8, HoldingAt, HoldingAtNext DEF q

(* The last producer empties the pools. *)
LEMMA JoinEmpties ==
  ASSUME NEW p \in Producers, join(p)
  PROVE  /\ Lists(free_pool')
         /\ \A l \in Place : Holding'[l] \subseteq Holding[l] /\ (l[1] # "pool" => Holding'[l] = Holding[l])
<1>1. /\ free_pool' = [t \in Targets |-> <<>>]
      /\ packet' = packet /\ ready_fifo' = ready_fifo /\ back' = back
  BY Zenon DEF join
<1>2. \A t \in Targets : free_pool'[t] = <<>>
  BY Zenon, <1>1
<1>3. <<>> \in Seq(Packet) /\ IsInjective(<<>>) /\ Range(<<>>) = {}
  BY DEF IsInjective, Range
<1>4. free_pool' \in [Targets -> Seq(Packet)]
  BY <1>1
<1>5. Lists(free_pool')
  BY Zenon, <1>2, <1>3, <1>4 DEF Lists
<1>6. \A l \in Place : l[1] # "pool" => Holding'[l] = Holding[l]
  <2>1. Same("fifo") /\ Same("back") /\ Same("hand")
    BY Zenon, <1>1, SamePlaces
  <2>2. QED
    BY Zenon, <2>1, PlaceFacts DEF Same
<1>7. ASSUME NEW l \in Place, l[1] = "pool" PROVE Holding'[l] = {}
  <2>1. l[2] \in Targets
    BY Zenon, <1>7, PlaceFacts
  <2>2. Holding'[l] = Range(free_pool'[l[2]])
    BY Zenon, <1>7 DEF Holding
  <2>3. QED
    BY Zenon, <1>2, <1>3, <2>1, <2>2
<1>8. QED
  BY Zenon, <1>5, <1>6, <1>7

-----------------------------------------------------------------------------
(* The producers that are left. *)

-----------------------------------------------------------------------------
(* What a step does to the places: nothing, one packet moves, the packets of a
   target come, or the pools are emptied. *)
LEMMA HoldingStep ==
  ASSUME TypeOK, Unique, Hands, Fresh, [Next]_vars
  PROVE  /\ Lists(free_pool') /\ Lists(ready_fifo')
         /\ \/ \A l \in Place : Holding'[l] = Holding[l]
            \/ \E b, a, c : Moves(b, a, c) /\ InPlay(a) /\ alive' = alive
            \/ \E t \in Targets : fire_open(t)
            \/ \E p \in Producers : join(p)
<1> DEFINE Moved == \E b, a, c : Moves(b, a, c) /\ InPlay(a) /\ alive' = alive
           Stay == \A l \in Place : Holding'[l] = Holding[l]
           Goal == /\ Lists(free_pool') /\ Lists(ready_fifo')
                   /\ \/ Stay \/ Moved
                      \/ \E t \in Targets : fire_open(t)
                      \/ \E p \in Producers : join(p)
<1>l. Lists(free_pool) /\ Lists(ready_fifo)
  BY Zenon, ListsHold
<1>s. ASSUME UNCHANGED <<free_pool, ready_fifo, back, packet>> PROVE Goal
  <2>1. Same("pool") /\ Same("fifo") /\ Same("back") /\ Same("hand")
    BY Zenon, <1>s, SamePlaces
  <2>2. Stay
    BY <2>1, PlaceFacts DEF Same
  <2>3. QED
    BY Zenon, <1>l, <1>s, <2>2
<1>1. ASSUME NEW p \in Producers,
             open(p) \/ (\E t \in Targets : acquireBuffer(p, t)) \/ close(p) \/ close_fifo(p) \/ close_fifo_return(p)
      PROVE  Goal
  <2>1. UNCHANGED <<free_pool, ready_fifo, back, packet>>
    BY Zenon, <1>1 DEF open, acquireBuffer, close, close_fifo, close_fifo_return
  <2>2. QED
    BY Zenon, <1>s, <2>1
<1>2. ASSUME NEW p \in Producers, store(p) PROVE Goal
  <2>1. /\ Moves(packet'[p], <<"pool", pool(target[p])>>, <<"hand", p>>) /\ Lists(free_pool')
        /\ alive' = alive /\ ready_fifo' = ready_fifo
    BY Zenon, <1>2, StoreMoves DEF store
  <2>2. Moved
    BY Zenon, <2>1, PlacesInPlay
  <2>3. QED
    BY Zenon, <1>l, <2>1, <2>2
<1>3. ASSUME NEW p \in Producers, releaseBuffer(p) PROVE Goal
  <2>1. /\ Moves(packet[p], <<"hand", p>>, <<"fifo", target[p]>>) /\ Lists(ready_fifo')
        /\ alive' = alive /\ free_pool' = free_pool
    BY Zenon, <1>3, ReleaseMoves DEF releaseBuffer
  <2>2. Moved
    BY Zenon, <2>1, PlacesInPlay
  <2>3. QED
    BY Zenon, <1>l, <2>1, <2>2
<1>4. ASSUME NEW p \in Producers, join(p) PROVE Goal
  <2>1. Lists(free_pool') /\ ready_fifo' = ready_fifo
    BY Zenon, <1>4, JoinEmpties DEF join
  <2>2. QED
    BY Zenon, <1>4, <1>l, <2>1
<1>5. ASSUME NEW t \in Targets, fire_open(t) PROVE Goal
  <2>1. Lists(free_pool') /\ ready_fifo' = ready_fifo
    BY Zenon, <1>5, OpenFills DEF fire_open
  <2>2. QED
    BY Zenon, <1>5, <1>l, <2>1
<1>6. ASSUME NEW t \in Targets, get_ready(t) PROVE Goal
  <2>1. /\ Moves(packet'[t], <<"fifo", t>>, <<"hand", t>>) /\ Lists(ready_fifo')
        /\ alive' = alive /\ free_pool' = free_pool
    BY Zenon, <1>6, ReadyMoves DEF get_ready
  <2>2. Moved
    BY Zenon, <2>1, PlacesInPlay
  <2>3. QED
    BY Zenon, <1>l, <2>1, <2>2
<1>7. ASSUME NEW t \in Targets, freeBuffer(t) PROVE Goal
  <2>1. /\ Moves(packet[t], <<"hand", t>>, <<"pool", pool(t)>>) /\ Lists(free_pool')
        /\ alive' = alive /\ ready_fifo' = ready_fifo
    BY Zenon, <1>7, FreeMoves DEF freeBuffer
  <2>2. Moved
    BY Zenon, <2>1, PlacesInPlay
  <2>3. QED
    BY Zenon, <1>l, <2>1, <2>2
<1>8. ASSUME NEW t \in Targets, consume(t) \/ fire_end(t) \/ fire_close(t) PROVE Goal
  <2>1. UNCHANGED <<free_pool, ready_fifo, back, packet>>
    BY Zenon, <1>8 DEF consume, fire_end, fire_close
  <2>2. QED
    BY Zenon, <1>s, <2>1
<1>9. ASSUME NEW t \in Targets, fire_reacquire(t) PROVE Goal
  <2>1. packet' = packet /\ ready_fifo' = ready_fifo /\ alive' = alive
    BY Zenon, <1>9 DEF fire_reacquire
  <2>2. CASE free_pool' = free_pool /\ back' = back
    BY Zenon, <1>s, <2>1, <2>2
  <2>3. CASE free_pool' # free_pool \/ back' # back
    <3>1. /\ Lists(free_pool')
          /\ \E b \in Packet : Moves(b, <<"pool", pool(t)>>, <<"back", t>>)
      BY Zenon, <1>9, <2>3, ReacquireMoves
    <3>2. Moved
      BY Zenon, <2>1, <3>1, PlacesInPlay
    <3>3. QED
      BY Zenon, <1>l, <2>1, <3>1, <3>2
  <2>4. QED
    BY Zenon, <2>2, <2>3
<1>10. ASSUME UNCHANGED vars PROVE Goal
  <2>1. UNCHANGED <<free_pool, ready_fifo, back, packet>>
    BY Zenon, <1>10 DEF vars
  <2>2. QED
    BY Zenon, <1>s, <2>1
<1> HIDE DEF Goal
<1>11. Goal
  <2>1. ASSUME NEW p \in Producers, Produce(p) PROVE Goal
    BY Zenon, <2>1, <1>1, <1>2, <1>3, <1>4 DEF Produce
  <2>2. ASSUME NEW t \in Targets, Fire(t) PROVE Goal
    BY Zenon, <2>2, <1>5, <1>6, <1>7, <1>8, <1>9 DEF Fire
  <2>3. ASSUME Next PROVE Goal
    BY Zenon, <2>1, <2>2, <2>3 DEF Next
  <2>4. QED
    BY Zenon, <1>10, <2>3
<1>12. QED
  BY Zenon, <1>11 DEF Goal

LEMMA UniqueStep ==
  ASSUME TypeOK, Unique, Hands, Fresh, [Next]_vars
  PROVE  Unique'
<1>1. \A t \in Targets : IsInjective(free_pool'[t]) /\ IsInjective(ready_fifo'[t])
  BY Zenon, HoldingStep DEF Lists
<1>2. CASE \A l \in Place : Holding'[l] = Holding[l]
  BY Zenon, <1>1, <1>2 DEF Unique, Apart
<1>3. CASE \E b, a, c : Moves(b, a, c)
  <2>1. Apart(Holding')
    BY Zenon, <1>3, StillApart DEF Unique
  <2>2. QED
    BY Zenon, <1>1, <2>1 DEF Unique, Apart
<1>4. ASSUME NEW t \in Targets, fire_open(t) PROVE Unique'
  <2> DEFINE a == <<"pool", pool(t)>>
             H == Holding
             G == Holding'
  <2>1. /\ G[a] = H[a] \cup PacketsOf(t) /\ \A l \in Place : l # a => G[l] = H[l]
        /\ \A l \in Place : \A b \in H[l] : b[1] # t
        /\ \A l, m \in Place : l # m => H[l] \cap H[m] = {}
    BY Zenon, <1>4, OpenFills DEF fire_open, Fresh, NotYet, Unique, Apart
  <2> HIDE DEF a, H, G
  <2>2. \A l \in Place : H[l] \cap PacketsOf(t) = {}
    BY <2>1 DEF PacketsOf
  <2>3. \A l, m \in Place : l # m => G[l] \cap G[m] = {}
    BY <2>1, <2>2
  <2>4. QED
    BY Zenon, <1>1, <2>3 DEF Unique, Apart, G
<1>5. ASSUME NEW p \in Producers, join(p) PROVE Unique'
  <2> DEFINE H == Holding
             G == Holding'
  <2>1. /\ \A l \in Place : G[l] \subseteq H[l]
        /\ \A l, m \in Place : l # m => H[l] \cap H[m] = {}
    BY Zenon, <1>5, JoinEmpties DEF Unique, Apart
  <2> HIDE DEF H, G
  <2>2. \A l, m \in Place : l # m => G[l] \cap G[m] = {}
    BY Zenon, <2>1
  <2>3. QED
    BY Zenon, <1>1, <2>2 DEF Unique, Apart, G
<1>6. QED
  BY Zenon, <1>2, <1>3, <1>4, <1>5, HoldingStep

LEMMA HoldingPackets ==
  ASSUME TypeOK
  PROVE  \A l \in Place : Holding[l] \subseteq Packet
<1>1. \A t \in Targets : /\ \A b \in Range(free_pool[t]) : b \in Packet
                         /\ \A b \in Range(ready_fifo[t]) : b \in Packet
                         /\ \A b \in back[t] : b \in Packet
  BY RangeOf DEF TypeOK
<1>2. \A w \in Threads : packet[w] \in Packet \cup {None}
  BY Zenon DEF TypeOK
<1>3. SUFFICES ASSUME NEW l \in Place PROVE Holding[l] \subseteq Packet
  BY Zenon
<1>4. \/ l[1] = "pool" /\ l[2] \in Targets /\ Holding[l] = Range(free_pool[l[2]])
      \/ l[1] = "fifo" /\ l[2] \in Targets /\ Holding[l] = Range(ready_fifo[l[2]])
      \/ l[1] = "back" /\ l[2] \in Targets /\ Holding[l] = back[l[2]]
      \/ l[1] = "hand" /\ l[2] \in Threads /\ Holding[l] = {packet[l[2]]} \ {None}
  BY Zenon, PlaceFacts DEF Holding
<1>5. QED
  BY <1>1, <1>2, <1>4

(* A packet moves between places of the same target. *)
LEMMA OwnMove ==
  ASSUME Own, NEW b, NEW a, NEW c, Moves(b, a, c), shared' = shared, target' = target,
         ~shared => Home(c) = Home(a)
  PROVE  Own'
<1> DEFINE H == Holding
           G == Holding'
<1>1. /\ a \in Place /\ b \in H[a] /\ G[a] = H[a] \ {b} /\ G[c] = H[c] \cup {b}
      /\ \A l \in Place : l # a /\ l # c => G[l] = H[l]
      /\ ~shared => \A l \in Place : \A x \in H[l] : x[1] = Home(l)
  BY Zenon DEF Moves, Own
<1> HIDE DEF H, G
<1>2. ~shared => \A l \in Place : \A x \in G[l] : x[1] = Home(l)
  BY <1>1
<1>3. \A l : Home(l)' = Home(l)
  BY Zenon DEF Home
<1>4. QED
  BY Zenon, <1>2, <1>3 DEF Own, G

LEMMA HomeAt ==
  /\ \A t \in Targets : Home(<<"pool", t>>) = t /\ Home(<<"fifo", t>>) = t /\ Home(<<"back", t>>) = t
                        /\ Home(<<"hand", t>>) = t
  /\ \A p \in Producers : Home(<<"hand", p>>) = target[p]
BY Zenon, PlaceFacts DEF Home

LEMMA OwnStep ==
  ASSUME TypeOK, Unique, Own, Hands, Fresh, [Next]_vars
  PROVE  Own'
<1>s. shared' = shared
  BY Zenon DEF Next, vars
<1>h. \A p \in Producers : target[p] # target'[p] =>
        producer[p] \in {"routing", "closing"} /\ UNCHANGED <<free_pool, ready_fifo, back, packet>>
  <2>1. SUFFICES ASSUME target' # target
                 PROVE  \A p \in Producers : target[p] # target'[p] =>
                          producer[p] \in {"routing", "closing"} /\ UNCHANGED <<free_pool, ready_fifo, back, packet>>
    BY Zenon
  <2>2. PICK p \in Producers : (\E t \in Targets : acquireBuffer(p, t)) \/ close(p) \/ close_fifo_return(p)
    BY Zenon, <2>1 DEF Next, Produce, Fire, vars, open, store, releaseBuffer, close_fifo, join,
         fire_open, get_ready, consume, freeBuffer, fire_end, fire_reacquire, fire_close
  <2>3. /\ producer[p] \in {"routing", "closing"} /\ UNCHANGED <<free_pool, ready_fifo, back, packet>>
        /\ \E x : target' = [target EXCEPT ![p] = x]
    BY Zenon, <2>2 DEF acquireBuffer, close, close_fifo_return
  <2>4. \A r \in Producers : r # p => target'[r] = target[r]
    BY Zenon, <2>3 DEF TypeOK
  <2>5. QED
    BY Zenon, <2>3, <2>4
<1>1. CASE \A l \in Place : Holding'[l] = Holding[l]
  <2>1. ASSUME NEW l \in Place, NEW b \in Holding[l], ~shared PROVE b[1] = Home(l)'
    <3>1. b[1] = Home(l)
      BY Zenon, <2>1 DEF Own
    <3>2. CASE l[2] \notin Producers \/ target'[l[2]] = target[l[2]]
      BY Zenon, <3>1, <3>2 DEF Home
    <3>3. CASE l[2] \in Producers /\ target'[l[2]] # target[l[2]]
      <4>1. packet[l[2]] = None
        BY Zenon, <1>h, <3>3 DEF Hands
      <4>2. l[1] = "hand" /\ l = <<"hand", l[2]>> /\ l[2] \in Threads
        BY Zenon, <3>3, PlaceFacts
      <4>3. Holding[l] = {packet[l[2]]} \ {None}
        BY Zenon, <4>2, HoldingAt
      <4>4. QED
        BY Zenon, <2>1, <4>1, <4>3
    <3>4. QED
      BY Zenon, <3>2, <3>3
  <2>2. QED
    BY Zenon, <1>1, <1>s, <2>1 DEF Own
<1>2. ASSUME NEW p \in Producers, store(p) PROVE Own'
  <2>1. target' = target /\ Moves(packet'[p], <<"pool", pool(target[p])>>, <<"hand", p>>)
    BY Zenon, <1>2, StoreMoves DEF store
  <2>2. target[p] \in Targets
    BY Zenon, <1>2 DEF store, Hands
  <2>3. ~shared => Home(<<"hand", p>>) = Home(<<"pool", pool(target[p])>>)
    BY Zenon, <2>2, PoolOf, HomeAt
  <2>4. QED
    BY Zenon, <1>s, <2>1, <2>3, OwnMove
<1>3. ASSUME NEW p \in Producers, releaseBuffer(p) PROVE Own'
  <2>1. target' = target /\ Moves(packet[p], <<"hand", p>>, <<"fifo", target[p]>>)
    BY Zenon, <1>3, ReleaseMoves DEF releaseBuffer
  <2>2. target[p] \in Targets
    BY Zenon, <1>3 DEF releaseBuffer, Hands
  <2>3. Home(<<"fifo", target[p]>>) = Home(<<"hand", p>>)
    BY Zenon, <2>2, HomeAt
  <2>4. QED
    BY Zenon, <1>s, <2>1, <2>3, OwnMove
<1>4. ASSUME NEW t \in Targets, get_ready(t) PROVE Own'
  <2>1. target' = target /\ Moves(packet'[t], <<"fifo", t>>, <<"hand", t>>)
    BY Zenon, <1>4, ReadyMoves DEF get_ready
  <2>2. Home(<<"hand", t>>) = Home(<<"fifo", t>>)
    BY Zenon, HomeAt
  <2>3. QED
    BY Zenon, <1>s, <2>1, <2>2, OwnMove
<1>5. ASSUME NEW t \in Targets, freeBuffer(t) PROVE Own'
  <2>1. target' = target /\ Moves(packet[t], <<"hand", t>>, <<"pool", pool(t)>>)
    BY Zenon, <1>5, FreeMoves DEF freeBuffer
  <2>2. ~shared => Home(<<"pool", pool(t)>>) = Home(<<"hand", t>>)
    BY Zenon, PoolOf, HomeAt
  <2>3. QED
    BY Zenon, <1>s, <2>1, <2>2, OwnMove
<1>6. ASSUME NEW t \in Targets, fire_reacquire(t), free_pool' # free_pool \/ back' # back PROVE Own'
  <2>1. target' = target /\ \E b : Moves(b, <<"pool", pool(t)>>, <<"back", t>>)
    BY Zenon, <1>6, ReacquireMoves DEF fire_reacquire
  <2>2. ~shared => Home(<<"back", t>>) = Home(<<"pool", pool(t)>>)
    BY Zenon, PoolOf, HomeAt
  <2>3. QED
    BY Zenon, <1>s, <2>1, <2>2, OwnMove
<1>7. ASSUME NEW t \in Targets, fire_open(t) PROVE Own'
  <2> DEFINE a == <<"pool", pool(t)>>
             H == Holding
             G == Holding'
  <2>1. /\ G[a] = H[a] \cup PacketsOf(t) /\ \A l \in Place : l # a => G[l] = H[l]
        /\ ~shared => \A l \in Place : \A x \in H[l] : x[1] = Home(l)
    BY Zenon, <1>7, OpenFills DEF Own
  <2>2. ~shared => Home(a) = t
    BY Zenon, PoolOf, HomeAt
  <2> HIDE DEF a, H, G
  <2>3. ~shared => \A l \in Place : \A x \in G[l] : x[1] = Home(l)
    BY <2>1, <2>2 DEF PacketsOf
  <2>4. \A l : Home(l)' = Home(l)
    BY Zenon, <1>7 DEF fire_open, Home
  <2>5. QED
    BY Zenon, <1>s, <2>3, <2>4 DEF Own, G
<1>8. ASSUME NEW p \in Producers, join(p) PROVE Own'
  <2>1. \A l : Home(l)' = Home(l)
    BY Zenon, <1>8 DEF join, Home
  <2>2. \A l \in Place : \A b \in Holding'[l] : b \in Holding[l]
    BY Zenon, <1>8, JoinEmpties
  <2>3. QED
    BY Zenon, <1>s, <2>1, <2>2 DEF Own
<1>9. ASSUME UNCHANGED <<free_pool, ready_fifo, back, packet>> PROVE Own'
  <2>1. Same("pool") /\ Same("fifo") /\ Same("back") /\ Same("hand")
    BY Zenon, <1>9, SamePlaces
  <2>2. \A l \in Place : Holding'[l] = Holding[l]
    BY Zenon, <2>1, PlaceFacts DEF Same
  <2>3. QED
    BY Zenon, <1>1, <2>2
<1>10. ASSUME NEW p \in Producers, Produce(p) PROVE Own'
  <2>1. \/ store(p) \/ releaseBuffer(p) \/ join(p)
        \/ UNCHANGED <<free_pool, ready_fifo, back, packet>>
    BY Zenon, <1>10 DEF Produce, open, acquireBuffer, close, close_fifo, close_fifo_return
  <2>2. QED
    BY Zenon, <1>2, <1>3, <1>8, <1>9, <2>1
<1>11. ASSUME NEW t \in Targets, Fire(t) PROVE Own'
  <2>1. \/ get_ready(t) \/ freeBuffer(t) \/ fire_open(t)
        \/ fire_reacquire(t) /\ (free_pool' # free_pool \/ back' # back)
        \/ UNCHANGED <<free_pool, ready_fifo, back, packet>>
    BY Zenon, <1>11 DEF Fire, consume, fire_end, fire_close, fire_reacquire
  <2>2. QED
    BY Zenon, <1>4, <1>5, <1>6, <1>7, <1>9, <2>1
<1>12. CASE UNCHANGED vars
  BY Zenon, <1>9, <1>12 DEF vars
<1>13. QED
  BY Zenon, <1>10, <1>11, <1>12 DEF Next

LEMMA HandsStep ==
  ASSUME TypeOK, Unique, Hands, [Next]_vars
  PROVE  Hands'
<1>f. /\ producer \in [Producers -> {"new", "routing", "acquiring", "stored", "closing", "closed"}]
      /\ firer \in [Targets -> {"none", "spawned", "popping", "consuming", "freeing", "ending", "done"}]
      /\ packet \in [Threads -> Packet \cup {None}]
      /\ target \in [Producers -> 0 .. fanout] /\ routed \in [Producers -> 0 .. MaxBlocks]
      /\ \A p \in Producers : p \in Threads /\ p \notin Targets
      /\ \A t \in Targets : t \in Threads /\ t \notin Producers
  BY Zenon, PlaceFacts DEF TypeOK, Threads
<1>1. ASSUME NEW p \in Producers, open(p) \/ close(p) PROVE Hands'
  <2>1. /\ producer[p] \notin {"acquiring", "stored"} /\ UNCHANGED <<packet, routed>>
        /\ \E x \in {"routing", "closing", "closed"} : producer' = [producer EXCEPT ![p] = x]
        /\ \A r \in Producers : r # p => target'[r] = target[r]
        /\ \A t \in Targets : firer'[t] \in {"consuming", "freeing"} <=> firer[t] \in {"consuming", "freeing"}
    BY Zenon, <1>1, <1>f DEF open, close
  <2>2. QED
    BY <1>f, <2>1 DEF Hands
<1>2. ASSUME NEW p \in Producers, NEW t \in Targets, acquireBuffer(p, t) PROVE Hands'
  BY Zenon, <1>2, <1>f DEF acquireBuffer, Hands
<1>3. ASSUME NEW p \in Producers, store(p) PROVE Hands'
  <2>1. /\ packet'[p] \in Packet /\ \A w \in Threads : w # p => packet'[w] = packet[w]
        /\ producer[p] = "acquiring" /\ producer' = [producer EXCEPT ![p] = "stored"]
        /\ UNCHANGED <<routed, target, firer>>
    BY Zenon, <1>3, StoreMoves DEF store
  <2>2. packet'[p] # None
    BY Zenon, <2>1, PacketFacts
  <2>3. QED
    BY <1>f, <2>1, <2>2 DEF Hands
<1>4. ASSUME NEW p \in Producers, releaseBuffer(p) PROVE Hands'
  <2>1. /\ packet'[p] = None /\ \A w \in Threads : w # p => packet'[w] = packet[w]
        /\ producer' = [producer EXCEPT ![p] = "routing"]
        /\ routed' = [routed EXCEPT ![p] = @ + 1] /\ UNCHANGED <<target, firer>>
    BY Zenon, <1>4, ReleaseMoves DEF releaseBuffer
  <2>2. QED
    BY <1>f, <2>1 DEF Hands
<1>5. ASSUME NEW p \in Producers, close_fifo(p) \/ close_fifo_return(p) \/ join(p) PROVE Hands'
  <2>1. /\ producer[p] = "closing" /\ UNCHANGED <<packet, routed>>
        /\ \E x \in {"closing", "closed"} : producer' = [producer EXCEPT ![p] = x]
        /\ \A r \in Producers : r # p => target'[r] = target[r]
        /\ \A t \in Targets : firer'[t] \in {"consuming", "freeing"} <=> firer[t] \in {"consuming", "freeing"}
    BY Zenon, <1>5, <1>f DEF close_fifo, close_fifo_return, join
  <2>2. QED
    BY <1>f, <2>1 DEF Hands
<1>6. ASSUME NEW t \in Targets, get_ready(t) PROVE Hands'
  <2>1. /\ packet'[t] \in Packet /\ \A w \in Threads : w # t => packet'[w] = packet[w]
        /\ firer' = [firer EXCEPT ![t] = "consuming"] /\ UNCHANGED <<producer, routed, target>>
    BY Zenon, <1>6, ReadyMoves DEF get_ready
  <2>2. packet'[t] # None
    BY Zenon, <2>1, PacketFacts
  <2>3. QED
    BY <1>f, <2>1, <2>2 DEF Hands
<1>7. ASSUME NEW t \in Targets, freeBuffer(t) PROVE Hands'
  <2>1. /\ packet'[t] = None /\ \A w \in Threads : w # t => packet'[w] = packet[w]
        /\ firer' = [firer EXCEPT ![t] = "popping"] /\ UNCHANGED <<producer, routed, target>>
    BY Zenon, <1>7, FreeMoves DEF freeBuffer
  <2>2. QED
    BY <1>f, <2>1 DEF Hands
<1>8. ASSUME NEW t \in Targets, consume(t) PROVE Hands'
  <2>1. /\ firer[t] = "consuming" /\ firer' = [firer EXCEPT ![t] = "freeing"]
        /\ UNCHANGED <<producer, routed, target, packet>>
    BY Zenon, <1>8 DEF consume
  <2>2. QED
    BY Zenon, <1>f, <2>1 DEF Hands
<1>9. ASSUME NEW t \in Targets, fire_open(t) \/ fire_end(t) \/ fire_reacquire(t) \/ fire_close(t) PROVE Hands'
  <2>1. /\ \A u \in Targets : firer'[u] \in {"consuming", "freeing"} <=> firer[u] \in {"consuming", "freeing"}
        /\ UNCHANGED <<producer, routed, target, packet>>
    BY Zenon, <1>9, <1>f DEF fire_open, fire_end, fire_reacquire, fire_close
  <2>2. QED
    BY Zenon, <2>1 DEF Hands
<1>10. CASE UNCHANGED vars
  BY Zenon, <1>10 DEF vars, Hands
<1>11. ASSUME NEW p \in Producers, Produce(p) PROVE Hands'
  BY Zenon, <1>1, <1>2, <1>3, <1>4, <1>5, <1>11 DEF Produce
<1>12. ASSUME NEW t \in Targets, Fire(t) PROVE Hands'
  BY Zenon, <1>6, <1>7, <1>8, <1>9, <1>12 DEF Fire
<1>13. QED
  BY Zenon, <1>10, <1>11, <1>12 DEF Next

-----------------------------------------------------------------------------
(* The blocks in the packets. *)
LEMMA BlockFacts ==
  /\ \A x \in Block : x[1] \in Producers /\ x[2] \in 1 .. MaxBlocks
  /\ \A x \in Block : \A p, k : x = <<p, k>> <=> x[1] = p /\ x[2] = k
  /\ \A p \in Producers : \A k \in 1 .. MaxBlocks : <<p, k>> \in Block
BY DEF Block

LEMMA FullAt ==
  \A b : b \in Full <=> \/ \E t \in Targets : b \in Range(ready_fifo[t])
                        \/ \E t \in Targets : firer[t] = "consuming" /\ b = packet[t]
<1> DEFINE Q == UNION {Range(ready_fifo[t]) : t \in Targets}
           R == {packet[t] : t \in {u \in Targets : firer[u] = "consuming"}}
<1>1. \A b : b \in Q <=> \E t \in Targets : b \in Range(ready_fifo[t])
  BY Zenon
<1>2. \A b : b \in R <=> \E t \in Targets : firer[t] = "consuming" /\ b = packet[t]
  BY Zenon
<1>3. Full = Q \cup R
  BY Zenon DEF Full
<1> HIDE DEF Q, R
<1>4. QED
  BY Zenon, <1>1, <1>2, <1>3

LEMMA FullAtNext ==
  \A b : b \in Full' <=> \/ \E t \in Targets : b \in Range(ready_fifo'[t])
                        \/ \E t \in Targets : firer'[t] = "consuming" /\ b = packet'[t]
<1> DEFINE Q == UNION {Range(ready_fifo'[t]) : t \in Targets}
           R == {packet'[t] : t \in {u \in Targets : firer'[u] = "consuming"}}
<1>1. \A b : b \in Q <=> \E t \in Targets : b \in Range(ready_fifo'[t])
  BY Zenon
<1>2. \A b : b \in R <=> \E t \in Targets : firer'[t] = "consuming" /\ b = packet'[t]
  BY Zenon
<1>3. Full' = Q \cup R
  BY Zenon DEF Full
<1> HIDE DEF Q, R
<1>4. QED
  BY Zenon, <1>1, <1>2, <1>3

(* How these packets change: not at all, when one is put into a queue, ... *)
LEMMA FullSame ==
  ASSUME \A t \in Targets : Range(ready_fifo'[t]) = Range(ready_fifo[t]),
         \A t \in Targets : firer'[t] = "consuming" <=> firer[t] = "consuming",
         \A t \in Targets : firer[t] = "consuming" => packet'[t] = packet[t]
  PROVE  Full' = Full
<1>1. \A c : c \in Full' <=> c \in Full
  BY FullAt, FullAtNext
<1>2. QED
  BY Zenon, <1>1

LEMMA FullGrows ==
  ASSUME NEW u \in Targets, NEW b, Range(ready_fifo'[u]) = Range(ready_fifo[u]) \cup {b},
         \A t \in Targets : t # u => ready_fifo'[t] = ready_fifo[t],
         firer' = firer, \A t \in Targets : packet'[t] = packet[t]
  PROVE  Full' = Full \cup {b}
<1>1. \A c : c \in Full' <=> c \in Full \/ c = b
  BY FullAt, FullAtNext
<1>2. QED
  BY Zenon, <1>1

(* ... when one goes from a queue to the thread, and when it is consumed. *)
LEMMA FullMoves ==
  ASSUME NEW t \in Targets, NEW b \in Range(ready_fifo[t]),
         Range(ready_fifo'[t]) = Range(ready_fifo[t]) \ {b}, b = packet'[t],
         \A u \in Targets : u # t => ready_fifo'[u] = ready_fifo[u] /\ packet'[u] = packet[u],
         firer[t] # "consuming", firer'[t] = "consuming", \A u \in Targets : u # t => firer'[u] = firer[u]
  PROVE  Full' = Full
<1>1. \A c : c \in Full' => c \in Full
  BY FullAt, FullAtNext
<1>2. \A c : c \in Full => c \in Full'
  BY FullAt, FullAtNext
<1>3. QED
  BY Zenon, <1>1, <1>2

LEMMA FullShrinks ==
  ASSUME NEW t \in Targets, ready_fifo' = ready_fifo, packet' = packet,
         \A u \in Targets : packet[t] \notin Range(ready_fifo[u]) /\ (u # t => packet[u] # packet[t]),
         firer[t] = "consuming", firer'[t] # "consuming", \A u \in Targets : u # t => firer'[u] = firer[u]
  PROVE  Full' = Full \ {packet[t]}
<1>1. \A c : c \in Full' => c \in Full /\ c # packet[t]
  BY FullAt, FullAtNext
<1>2. \A c : c \in Full /\ c # packet[t] => c \in Full'
  BY FullAt, FullAtNext
<1>3. QED
  BY Zenon, <1>1, <1>2

(* A packet with a block to be consumed is not in a pool. *)
LEMMA FullNotFree ==
  ASSUME TypeOK, Unique, Hands, NEW b \in Full, NEW t \in Targets
  PROVE  b \notin Range(free_pool[t])
<1>1. ASSUME NEW u \in Targets, b \in Range(ready_fifo[u]) PROVE b \notin Range(free_pool[t])
  <2>1. <<"fifo", u>> \in Place /\ <<"pool", t>> \in Place
    BY Zenon, PlaceFacts
  <2>2. <<"fifo", u>> # <<"pool", t>>
    BY Zenon
  <2>3. Range(ready_fifo[u]) \cap Range(free_pool[t]) = {}
    BY Zenon, <2>1, <2>2, HoldingAt DEF Unique, Apart
  <2>4. QED
    BY Zenon, <1>1, <2>3
<1>2. ASSUME NEW u \in Targets, firer[u] = "consuming", b = packet[u] PROVE b \notin Range(free_pool[t])
  <2>1. u \in Threads
    BY Zenon DEF Threads
  <2>2. packet[u] # None
    BY Zenon, <1>2 DEF Hands
  <2>3. QED
    BY Zenon, <1>2, <2>1, <2>2, HandAlone
<1>3. QED
  BY Zenon, <1>1, <1>2, FullAt

(* A step that leaves the blocks to be consumed as they are. *)
LEMMA LoadsSame ==
  ASSUME Loads, Full' = Full, \A b \in Full : content'[b] = content[b],
         routed' = routed, consumed' = consumed,
         \A p \in Producers : producer'[p] = "stored" => content'[packet'[p]] = <<p, routed[p] + 1>>
  PROVE  Loads'
<1>1. /\ \A b \in Full' : content'[b] \in Block /\ content'[b][2] <= routed'[content'[b][1]]
      /\ \A b, c \in Full' : content'[b] = content'[c] => b = c
  BY DEF Loads
<1>2. \A x \in Block : x[2] <= routed'[x[1]] =>
       \/ consumed'[x] = 0 /\ \E b \in Full' : content'[b] = x
       \/ consumed'[x] = 1 /\ \A b \in Full' : content'[b] # x
  BY DEF Loads
<1>3. \A x \in Block : x[2] > routed'[x[1]] => consumed'[x] = 0
  BY Zenon DEF Loads
<1>4. QED
  BY Zenon, <1>1, <1>2, <1>3 DEF Loads

(* releaseBuffer adds the block that was stored, ... *)
LEMMA LoadsRelease ==
  ASSUME TypeOK, Hands, Loads, NEW p \in Producers, NEW b, b \notin Full, b = packet[p], Full' = Full \cup {b},
         producer[p] = "stored", content' = content, consumed' = consumed,
         routed' = [routed EXCEPT ![p] = @ + 1],
         \A r \in Producers : producer'[r] = "stored" => r # p /\ producer[r] = "stored" /\ packet'[r] = packet[r]
  PROVE  Loads'
<1> DEFINE x == <<p, routed[p] + 1>>
<1>1. /\ content[b] = x /\ routed[p] < MaxBlocks
  BY Zenon DEF Loads, Hands
<1>2. routed \in [Producers -> 0 .. MaxBlocks] /\ MaxBlocks \in Nat
  BY Zenon, RouterAssumption DEF TypeOK
<1>3. x \in Block /\ x[1] = p /\ x[2] = routed[p] + 1
  BY <1>1, <1>2, BlockFacts
<1>4. /\ routed'[p] = routed[p] + 1 /\ routed[p] \in Nat
      /\ \A r \in Producers : r # p => routed'[r] = routed[r]
      /\ \A r \in Producers : routed[r] \in Nat
  BY <1>2
<1>5. \A y \in Block : y # x => (y[2] <= routed'[y[1]] <=> y[2] <= routed[y[1]])
  <2>1. SUFFICES ASSUME NEW y \in Block, y # x PROVE y[2] <= routed'[y[1]] <=> y[2] <= routed[y[1]]
    BY Zenon
  <2>2. y[1] \in Producers /\ y[2] \in 1 .. MaxBlocks
    BY Zenon, BlockFacts
  <2>3. y[1] # p \/ y[2] # routed[p] + 1
    BY <2>1, BlockFacts
  <2>4. QED
    BY <1>2, <1>4, <2>2, <2>3
<1>6. x[2] <= routed'[x[1]] /\ ~(x[2] <= routed[x[1]]) /\ x[2] > routed[x[1]]
  BY <1>3, <1>4
<1>7. \A y \in Block : y[2] > routed'[y[1]] => y[2] > routed[y[1]]
  BY <1>2, <1>4, BlockFacts
<1> HIDE DEF x
<1>8. \A c \in Full : content[c] # x
  BY Zenon, <1>6 DEF Loads
<1>9. /\ \A c \in Full' : content'[c] \in Block /\ content'[c][2] <= routed'[content'[c][1]]
      /\ \A c, d \in Full' : content'[c] = content'[d] => c = d
  <2>1. \A c \in Full' : c \in Full \/ c = b
    BY Zenon
  <2>2. \A c \in Full' : content'[c] \in Block /\ content'[c][2] <= routed'[content'[c][1]]
    BY Zenon, <1>1, <1>3, <1>5, <1>6, <1>8, <2>1 DEF Loads
  <2>3. \A c, d \in Full' : content'[c] = content'[d] => c = d
    <3>1. SUFFICES ASSUME NEW c \in Full', NEW d \in Full', content[c] = content[d] PROVE c = d
      BY Zenon
    <3>2. CASE c \in Full /\ d \in Full
      BY Zenon, <3>1, <3>2 DEF Loads
    <3>3. QED
      BY Zenon, <1>1, <1>8, <2>1, <3>1, <3>2
  <2>4. QED
    BY Zenon, <2>2, <2>3
<1>10. \A y \in Block : y[2] <= routed'[y[1]] =>
         \/ consumed'[y] = 0 /\ \E c \in Full' : content'[c] = y
         \/ consumed'[y] = 1 /\ \A c \in Full' : content'[c] # y
  <2>2. consumed'[x] = 0 /\ b \in Full' /\ content'[b] = x
    BY Zenon, <1>1, <1>3, <1>6 DEF Loads
  <2>3. ASSUME NEW y \in Block, y # x, y[2] <= routed'[y[1]]
        PROVE \/ consumed'[y] = 0 /\ \E c \in Full' : content'[c] = y
              \/ consumed'[y] = 1 /\ \A c \in Full' : content'[c] # y
    <3>1. y[2] <= routed[y[1]]
      BY Zenon, <1>5, <2>3
    <3>2. CASE consumed[y] = 0 /\ \E c \in Full : content[c] = y
      BY Zenon, <3>2
    <3>3. CASE consumed[y] = 1 /\ \A c \in Full : content[c] # y
      BY Zenon, <3>3, <1>1, <2>3
    <3>4. QED
      BY Zenon, <3>1, <3>2, <3>3 DEF Loads
  <2>4. QED
    BY Zenon, <2>2, <2>3
<1>11. \A y \in Block : y[2] > routed'[y[1]] => consumed'[y] = 0
  BY Zenon, <1>7 DEF Loads
<1>12. \A r \in Producers : producer'[r] = "stored" => content'[packet'[r]] = <<r, routed'[r] + 1>>
  BY Zenon, <1>4 DEF Loads
<1>13. QED
  BY Zenon, <1>9, <1>10, <1>11, <1>12 DEF Loads

(* ... and the pipeline takes its own away. *)
LEMMA LoadsConsume ==
  ASSUME TypeOK, Loads, NEW b \in Full, Full' = Full \ {b},
         content' = content, routed' = routed, consumed' = [consumed EXCEPT ![content[b]] = @ + 1],
         producer' = producer, packet' = packet
  PROVE  Loads'
<1> DEFINE x == content[b]
<1>1. x \in Block /\ x[2] <= routed[x[1]] /\ consumed[x] = 0
  BY Zenon DEF Loads
<1>2. consumed \in [Block -> Nat]
  BY Zenon DEF TypeOK
<1>3. consumed'[x] = 1 /\ \A y \in Block : y # x => consumed'[y] = consumed[y]
  <2>1. consumed' = [consumed EXCEPT ![x] = consumed[x] + 1]
    BY Zenon
  <2>2. 0 + 1 = 1
    OBVIOUS
  <2>3. QED
    BY Zenon, <1>1, <1>2, <2>1, <2>2
<1>4. \A c \in Full' : c \in Full /\ c # b /\ content[c] # x
  BY Zenon DEF Loads
<1> HIDE DEF x
<1>5. \A y \in Block : y[2] <= routed'[y[1]] =>
         \/ consumed'[y] = 0 /\ \E c \in Full' : content'[c] = y
         \/ consumed'[y] = 1 /\ \A c \in Full' : content'[c] # y
  <2>1. \A c \in Full' : content'[c] # x
    BY Zenon, <1>4
  <2>2. ASSUME NEW y \in Block, y # x, y[2] <= routed'[y[1]]
        PROVE \/ consumed'[y] = 0 /\ \E c \in Full' : content'[c] = y
              \/ consumed'[y] = 1 /\ \A c \in Full' : content'[c] # y
    <3>1. consumed'[y] = consumed[y] /\ y[2] <= routed[y[1]] /\ content[b] # y
      BY Zenon, <1>3, <2>2 DEF x
    <3>2. CASE consumed[y] = 0 /\ \E c \in Full : content[c] = y
      <4>1. PICK c \in Full : content[c] = y
        BY Zenon, <3>2
      <4>2. c \in Full' /\ content'[c] = y
        BY Zenon, <3>1, <4>1
      <4>3. QED
        BY Zenon, <3>1, <3>2, <4>2
    <3>3. CASE consumed[y] = 1 /\ \A c \in Full : content[c] # y
      BY Zenon, <3>1, <3>3, <1>4
    <3>4. QED
      BY Zenon, <3>1, <3>2, <3>3 DEF Loads
  <2>3. QED
    BY Zenon, <1>3, <2>1, <2>2
<1>6. \A y \in Block : y[2] > routed'[y[1]] => consumed'[y] = 0
  <2>1. \A y \in Block : y[2] > routed[y[1]] => consumed[y] = 0
    BY Zenon DEF Loads
  <2>2. ~(x[2] > routed[x[1]])
    <3>1. x[2] \in Int /\ routed[x[1]] \in Int
      BY <1>1, BlockFacts DEF TypeOK
    <3>2. QED
      BY <1>1, <3>1
  <2>3. QED
    BY Zenon, <1>3, <2>1, <2>2
<1>7. /\ \A c \in Full' : content'[c] \in Block /\ content'[c][2] <= routed'[content'[c][1]]
      /\ \A c, d \in Full' : content'[c] = content'[d] => c = d
      /\ \A r \in Producers : producer'[r] = "stored" => content'[packet'[r]] = <<r, routed'[r] + 1>>
  BY Zenon, <1>4 DEF Loads
<1>8. QED
  BY Zenon, <1>5, <1>6, <1>7 DEF Loads

LEMMA LoadsStep ==
  ASSUME TypeOK, Unique, Hands, Loads, [Next]_vars,
         \A t \in Targets : fire_close(t) => Returned(t)
  PROVE  Loads'
<1>f. /\ producer \in [Producers -> {"new", "routing", "acquiring", "stored", "closing", "closed"}]
      /\ firer \in [Targets -> {"none", "spawned", "popping", "consuming", "freeing", "ending", "done"}]
      /\ packet \in [Threads -> Packet \cup {None}]
      /\ content \in [Packet -> Block \cup {None}]
      /\ \A p \in Producers : p \in Threads /\ p \notin Targets
      /\ \A t \in Targets : t \in Threads /\ t \notin Producers
  BY Zenon, PlaceFacts DEF TypeOK, Threads
<1>s. \A p \in Producers : producer[p] = "stored" => content[packet[p]] = <<p, routed[p] + 1>>
  BY Zenon DEF Loads
<1>q. ASSUME UNCHANGED <<packet, ready_fifo, content, routed, consumed>>,
             \A t \in Targets : firer'[t] = "consuming" <=> firer[t] = "consuming",
             \A p \in Producers : producer'[p] = "stored" => producer[p] = "stored"
      PROVE  Loads'
  <2>1. Full' = Full
    BY Zenon, <1>q, FullSame
  <2>2. QED
    BY Zenon, <1>q, <1>s, <2>1, LoadsSame
<1>1. ASSUME NEW p \in Producers, open(p) \/ close(p) \/ (\E t \in Targets : acquireBuffer(p, t))
                                  \/ close_fifo(p) \/ close_fifo_return(p) \/ join(p)
      PROVE  Loads'
  <2>1. UNCHANGED <<packet, ready_fifo, content, routed, consumed>>
    BY Zenon, <1>1 DEF open, close, acquireBuffer, close_fifo, close_fifo_return, join
  <2>2. \A t \in Targets : firer'[t] = "consuming" <=> firer[t] = "consuming"
    BY Zenon, <1>1, <1>f DEF open, close, acquireBuffer, close_fifo, close_fifo_return, join
  <2>3. \A r \in Producers : producer'[r] = "stored" => producer[r] = "stored"
    <3>1. \/ producer' = producer
          \/ \E x \in {"routing", "acquiring", "closing", "closed"} : producer' = [producer EXCEPT ![p] = x]
      BY Zenon, <1>1 DEF open, close, acquireBuffer, close_fifo, close_fifo_return, join
    <3>2. QED
      BY Zenon, <1>f, <3>1
  <2>4. QED
    BY Zenon, <1>q, <2>1, <2>2, <2>3
<1>2. ASSUME NEW p \in Producers, store(p) PROVE Loads'
  <2> DEFINE b == packet'[p]
             a == <<"pool", pool(target[p])>>
  <2>1. /\ Moves(b, a, <<"hand", p>>) /\ b \in Packet
        /\ \A w \in Threads : w # p => packet'[w] = packet[w]
        /\ UNCHANGED <<routed, firer, ready_fifo, consumed>>
        /\ producer' = [producer EXCEPT ![p] = "stored"]
        /\ content' = [content EXCEPT ![b] = <<p, routed[p] + 1>>]
    BY Zenon, <1>2, StoreMoves DEF store
  <2>2. Full' = Full
    <3>1. \A t \in Targets : packet'[t] = packet[t]
      BY Zenon, <1>f, <2>1
    <3>2. QED
      BY Zenon, <2>1, <3>1, FullSame
  <2>3. b \notin Full
    <3>1. target[p] \in Targets
      BY Zenon, <1>2 DEF Hands, store
    <3>2. pool(target[p]) \in Targets
      BY Zenon, <3>1, PoolOf
    <3>3. b \in Range(free_pool[pool(target[p])])
      BY Zenon, <2>1, <3>2, HoldingAt DEF Moves
    <3>4. QED
      BY Zenon, <3>2, <3>3, FullNotFree
  <2>4. content'[b] = <<p, routed[p] + 1>> /\ \A c \in Packet : c # b => content'[c] = content[c]
    BY Zenon, <1>f, <2>1
  <2>5. \A c \in Full : content'[c] = content[c]
    <3>1. \A c \in Full : c \in DOMAIN content => content'[c] = content[c]
      BY Zenon, <1>f, <2>3, <2>4
    <3>2. \A c \in Full : c \in Packet
      <4>1. \A t \in Targets : firer[t] = "consuming" => packet[t] \in Packet
        <5>1. SUFFICES ASSUME NEW t \in Targets, firer[t] = "consuming" PROVE packet[t] \in Packet
          BY Zenon
        <5>2. packet[t] # None
          BY Zenon, <5>1 DEF Hands
        <5>3. packet[t] \in Packet \cup {None}
          BY Zenon, <1>f
        <5>4. QED
          BY Zenon, <5>2, <5>3
      <4>2. \A t \in Targets : \A c \in Range(ready_fifo[t]) : c \in Packet
        <5>1. \A t \in Targets : <<"fifo", t>> \in Place /\ Holding[<<"fifo", t>>] = Range(ready_fifo[t])
          BY Zenon, HoldingAt, PlaceFacts
        <5>2. \A t \in Targets : Range(ready_fifo[t]) \subseteq Packet
          BY Zenon, <5>1, HoldingPackets
        <5>3. QED
          BY Zenon, <5>2
      <4>3. QED
        BY Zenon, <4>1, <4>2, FullAt
    <3>3. QED
      BY Zenon, <1>f, <3>1, <3>2
  <2>6. \A r \in Producers : producer'[r] = "stored" => content'[packet'[r]] = <<r, routed[r] + 1>>
    <3>1. SUFFICES ASSUME NEW r \in Producers, producer'[r] = "stored", r # p
                   PROVE  content'[packet'[r]] = <<r, routed[r] + 1>>
      BY Zenon, <2>4
    <3>2. producer[r] = "stored" /\ packet'[r] = packet[r] /\ r \in Threads
      BY Zenon, <1>f, <2>1, <3>1
    <3>3. packet[r] # None /\ packet[r] \in Packet
      BY Zenon, <1>f, <3>2 DEF Hands
    <3>4. packet[r] # b
      <4>1. pool(target[p]) \in Targets
        BY Zenon, <1>2, PoolOf DEF Hands, store
      <4>2. b \in Range(free_pool[pool(target[p])])
        BY Zenon, <2>1, <4>1, HoldingAt DEF Moves
      <4>3. QED
        BY Zenon, <3>2, <3>3, <4>1, <4>2, HandAlone
    <3>5. QED
      BY Zenon, <1>s, <2>4, <3>2, <3>3, <3>4
  <2>7. QED
    BY Zenon, <2>1, <2>2, <2>5, <2>6, LoadsSame
<1>3. ASSUME NEW p \in Producers, releaseBuffer(p) PROVE Loads'
  <2> DEFINE b == packet[p]
  <2>1. /\ Range(ready_fifo'[target[p]]) = Range(ready_fifo[target[p]]) \cup {b}
        /\ \A t \in Targets : t # target[p] => ready_fifo'[t] = ready_fifo[t]
        /\ \A w \in Threads : w # p => packet'[w] = packet[w]
        /\ producer[p] = "stored" /\ producer' = [producer EXCEPT ![p] = "routing"]
        /\ routed' = [routed EXCEPT ![p] = @ + 1] /\ UNCHANGED <<firer, content, consumed>>
    BY Zenon, <1>3, ReleaseMoves DEF releaseBuffer
  <2>2. target[p] \in Targets /\ b # None /\ p \in Threads
    BY Zenon, <1>f, <2>1 DEF Hands
  <2>3. b \notin Full
    BY Zenon, <1>f, <2>2, HandAlone, FullAt
  <2>4. Full' = Full \cup {b}
    <3>1. \A t \in Targets : packet'[t] = packet[t]
      BY Zenon, <1>f, <2>1
    <3>2. QED
      BY Zenon, <2>1, <2>2, <3>1, FullGrows
  <2>5. \A r \in Producers : producer'[r] = "stored" => r # p /\ producer[r] = "stored" /\ packet'[r] = packet[r]
    <3>1. producer'[p] # "stored"
      BY <1>f, <2>1
    <3>2. QED
      BY Zenon, <1>f, <2>1, <3>1
  <2>6. QED
    BY Zenon, <2>1, <2>3, <2>4, <2>5, LoadsRelease
<1>4. ASSUME NEW t \in Targets, get_ready(t) PROVE Loads'
  <2> DEFINE b == packet'[t]
  <2>1. /\ b \in Range(ready_fifo[t]) /\ Range(ready_fifo'[t]) = Range(ready_fifo[t]) \ {b}
        /\ \A u \in Targets : u # t => ready_fifo'[u] = ready_fifo[u]
        /\ \A w \in Threads : w # t => packet'[w] = packet[w]
        /\ firer[t] = "popping" /\ firer' = [firer EXCEPT ![t] = "consuming"]
        /\ UNCHANGED <<producer, routed, content, consumed>>
    BY Zenon, <1>4, ReadyMoves DEF get_ready
  <2>2. /\ firer[t] # "consuming" /\ firer'[t] = "consuming"
        /\ \A u \in Targets : u # t => firer'[u] = firer[u]
    BY Zenon, <1>f, <2>1
  <2>3. Full' = Full
    <3>1. \A u \in Targets : u # t => packet'[u] = packet[u]
      BY Zenon, <1>f, <2>1
    <3>2. QED
      BY Zenon, <2>1, <2>2, <3>1, FullMoves
  <2>4. \A r \in Producers : producer'[r] = "stored" => content'[packet'[r]] = <<r, routed[r] + 1>>
    BY Zenon, <1>f, <1>s, <2>1
  <2>5. QED
    BY Zenon, <2>1, <2>3, <2>4, LoadsSame
<1>5. ASSUME NEW t \in Targets, consume(t) PROVE Loads'
  <2> DEFINE b == packet[t]
  <2>1. /\ firer[t] = "consuming" /\ firer' = [firer EXCEPT ![t] = "freeing"]
        /\ content[b] \in Block => consumed' = [consumed EXCEPT ![content[b]] = @ + 1]
        /\ UNCHANGED <<producer, routed, packet, content, ready_fifo>>
    BY Zenon, <1>5 DEF consume
  <2>2. firer'[t] # "consuming" /\ \A u \in Targets : u # t => firer'[u] = firer[u]
    BY Zenon, <1>f, <2>1
  <2>3. b # None /\ b \in Full
    BY Zenon, <2>1, FullAt DEF Hands
  <2>4. Full' = Full \ {b}
    <3>1. \A u \in Targets : b \notin Range(ready_fifo[u]) /\ (u # t => packet[u] # b)
      BY Zenon, <1>f, <2>3, HandAlone
    <3>2. QED
      BY Zenon, <2>1, <2>2, <3>1, FullShrinks
  <2>5. content[b] \in Block
    BY Zenon, <2>3 DEF Loads
  <2>6. QED
    BY Zenon, <2>1, <2>3, <2>4, <2>5, LoadsConsume
<1>6. ASSUME NEW t \in Targets, freeBuffer(t) PROVE Loads'
  <2>1. /\ \A w \in Threads : w # t => packet'[w] = packet[w]
        /\ firer[t] = "freeing" /\ firer' = [firer EXCEPT ![t] = "popping"]
        /\ UNCHANGED <<producer, routed, content, consumed, ready_fifo>>
    BY Zenon, <1>6, FreeMoves DEF freeBuffer
  <2>2. /\ firer[t] # "consuming" /\ firer'[t] # "consuming"
        /\ \A u \in Targets : u # t => firer'[u] = firer[u]
    BY Zenon, <1>f, <2>1
  <2>3. Full' = Full
    <3>1. \A u \in Targets : u # t => packet'[u] = packet[u]
      BY Zenon, <1>f, <2>1
    <3>2. QED
      BY Zenon, <2>1, <2>2, <3>1, FullSame
  <2>4. \A r \in Producers : producer'[r] = "stored" => content'[packet'[r]] = <<r, routed[r] + 1>>
    BY Zenon, <1>f, <1>s, <2>1
  <2>5. QED
    BY Zenon, <2>1, <2>3, <2>4, LoadsSame
<1>7. ASSUME NEW t \in Targets, fire_open(t) \/ fire_end(t) \/ fire_reacquire(t) PROVE Loads'
  <2>1. UNCHANGED <<packet, ready_fifo, content, routed, consumed, producer>>
    BY Zenon, <1>7 DEF fire_open, fire_end, fire_reacquire
  <2>2. \A u \in Targets : firer'[u] = "consuming" <=> firer[u] = "consuming"
    <3>1. \/ firer' = firer
          \/ firer[t] \in {"spawned", "popping"}
             /\ \E x \in {"popping", "ending"} : firer' = [firer EXCEPT ![t] = x]
      BY Zenon, <1>7 DEF fire_open, fire_end, fire_reacquire
    <3>2. QED
      BY <1>f, <3>1
  <2>3. QED
    BY Zenon, <1>q, <2>1, <2>2
<1>c. ASSUME NEW t \in Targets, fire_close(t) PROVE Loads'
  <2>1. /\ UNCHANGED <<packet, ready_fifo, routed, consumed, producer>>
        /\ firer[t] = "ending" /\ firer' = [firer EXCEPT ![t] = "done"]
    BY Zenon, <1>c DEF fire_close
  <2>2. \A u \in Targets : firer'[u] = "consuming" <=> firer[u] = "consuming"
    BY <1>f, <2>1
  <2>3. Full' = Full
    BY Zenon, <2>1, <2>2, FullSame
  <2>4. \A b \in Packet : b[1] # t => content'[b] = content[b]
    BY Zenon, <1>c DEF fire_close
  <2>5. ASSUME NEW l \in Place, InPlay(l), NEW b \in Holding[l] PROVE content'[b] = content[b]
    BY Zenon, <1>c, <2>4, <2>5, HoldingPackets DEF Returned
  <2>6. ASSUME NEW w \in Threads, packet[w] # None PROVE content'[packet[w]] = content[packet[w]]
    <3>1. <<"hand", w>> \in Place /\ InPlay(<<"hand", w>>) /\ Holding[<<"hand", w>>] = {packet[w]} \ {None}
      BY Zenon, PlaceFacts, HoldingAt, PlacesInPlay
    <3>2. packet[w] \in {packet[w]} \ {None}
      BY Zenon, <2>6
    <3>3. QED
      BY Zenon, <2>5, <3>1, <3>2
  <2>7. ASSUME NEW u \in Targets, NEW b \in Range(ready_fifo[u]) PROVE content'[b] = content[b]
    <3>1. <<"fifo", u>> \in Place /\ InPlay(<<"fifo", u>>) /\ Holding[<<"fifo", u>>] = Range(ready_fifo[u])
      BY Zenon, PlaceFacts, HoldingAt, PlacesInPlay
    <3>2. b \in Holding[<<"fifo", u>>]
      BY Zenon, <3>1
    <3>3. QED
      BY Zenon, <2>5, <3>1, <3>2
  <2>8. \A b \in Full : content'[b] = content[b]
    <3>1. \A u \in Targets : firer[u] = "consuming" => packet[u] # None /\ u \in Threads
      BY Zenon, <1>f DEF Hands
    <3>2. SUFFICES ASSUME NEW b \in Full PROVE content'[b] = content[b]
      BY Zenon
    <3>3. \/ \E u \in Targets : b \in Range(ready_fifo[u])
          \/ \E u \in Targets : firer[u] = "consuming" /\ b = packet[u]
      BY Zenon, FullAt
    <3>4. ASSUME NEW u \in Targets, firer[u] = "consuming", b = packet[u] PROVE content'[b] = content[b]
      BY Zenon, <2>6, <3>1, <3>4
    <3>5. QED
      BY Zenon, <2>7, <3>3, <3>4
  <2>9. \A p \in Producers : producer'[p] = "stored" => content'[packet'[p]] = <<p, routed[p] + 1>>
    <3>1. \A p \in Producers : producer[p] = "stored" => packet[p] # None /\ p \in Threads
      BY Zenon, <1>f DEF Hands
    <3>2. QED
      BY Zenon, <1>s, <2>1, <2>6, <3>1
  <2>10. QED
    BY Zenon, <2>1, <2>3, <2>8, <2>9, LoadsSame
<1>8. CASE UNCHANGED vars
  BY Zenon, <1>8, <1>q DEF vars
<1>9. ASSUME NEW p \in Producers, Produce(p) PROVE Loads'
  BY Zenon, <1>1, <1>2, <1>3, <1>9 DEF Produce
<1>10. ASSUME NEW t \in Targets, Fire(t) PROVE Loads'
  BY Zenon, <1>4, <1>5, <1>6, <1>7, <1>c, <1>10 DEF Fire
<1>11. QED
  BY Zenon, <1>8, <1>9, <1>10 DEF Next

-----------------------------------------------------------------------------
(* The types. *)

LEMMA RemoveAny ==
  ASSUME NEW S, NEW s \in Seq(S), NEW k \in 1 .. Len(s)
  PROVE  RemoveAt(s, k) \in Seq(S)
<1>1. SubSeq(s, 1, k - 1) \in Seq(S) /\ SubSeq(s, k + 1, Len(s)) \in Seq(S)
  OBVIOUS
<1>2. QED
  BY <1>1 DEF RemoveAt

LEMMA TicketStep ==
  ASSUME TypeOK, Hands, [Next]_vars
  PROVE  tickets' \in [Targets -> Seq(Threads)]
<1>f. /\ tickets \in [Targets -> Seq(Threads)]
      /\ \A p \in Producers : p \in Threads
      /\ \A t \in Targets : t \in Threads /\ pool(t) \in Targets
  BY Zenon, PoolOf DEF TypeOK, Threads
<1>1. ASSUME NEW q \in Targets, NEW w \in Threads, draw(w, q) PROVE tickets' \in [Targets -> Seq(Threads)]
  <2>1. Append(tickets[q], w) \in Seq(Threads)
    BY <1>f
  <2>2. QED
    BY Zenon, <1>1, <1>f, <2>1 DEF draw
<1>2. ASSUME NEW q \in Targets, NEW k \in 1 .. Len(tickets[q]),
             tickets' = [tickets EXCEPT ![q] = RemoveAt(@, k)]
      PROVE  tickets' \in [Targets -> Seq(Threads)]
  <2>1. RemoveAt(tickets[q], k) \in Seq(Threads)
    BY Zenon, <1>f, <1>2, RemoveAny
  <2>2. QED
    BY Zenon, <1>2, <1>f, <2>1
<1>3. ASSUME NEW p \in Producers, NEW t \in Targets, acquireBuffer(p, t)
      PROVE  tickets' \in [Targets -> Seq(Threads)]
  BY Zenon, <1>1, <1>3, <1>f DEF acquireBuffer
<1>4. ASSUME NEW p \in Producers, store(p) PROVE tickets' \in [Targets -> Seq(Threads)]
  <2>1. pool(target[p]) \in Targets
    BY Zenon, <1>4, <1>f DEF store, Hands
  <2>2. QED
    BY Zenon, <1>2, <1>4, <2>1 DEF store, take
<1>5. ASSUME NEW t \in Targets, fire_reacquire(t) PROVE tickets' \in [Targets -> Seq(Threads)]
  BY Zenon, <1>1, <1>2, <1>5, <1>f DEF fire_reacquire
<1>6. \/ tickets' = tickets
      \/ \E p \in Producers : store(p) \/ \E t \in Targets : acquireBuffer(p, t)
      \/ \E t \in Targets : fire_reacquire(t)
  BY Zenon DEF Next, Produce, Fire, vars, open, releaseBuffer, close, close_fifo,
         close_fifo_return, join, fire_open, get_ready, consume, freeBuffer, fire_end,
         fire_close
<1>7. QED
  BY Zenon, <1>3, <1>4, <1>5, <1>6, <1>f

-----------------------------------------------------------------------------
(* What the invariant says about the blocks. *)

LEMMA QueuedAt ==
  /\ \A t \in Targets : \A k \in 1 .. Len(ready_fifo[t]) : <<t, k>> \in Queued
  /\ \A e \in Queued : \E t \in Targets : \E k \in 1 .. Len(ready_fifo[t]) : e = <<t, k>>
BY DEF Queued

(* ... and about the memory. *)
LEMMA InUseAllocated ==
  ASSUME Allocated
  PROVE  PacketsAlive
<1>1. CASE shared /\ Strayed
  BY Zenon, <1>1 DEF PacketsAlive
<1>2. ASSUME \A l \in Place : InPlay(l) => \A b \in Holding[l] : b[1] \in alive, NEW b \in InUse
      PROVE  b[1] \in alive
  <2>1. ASSUME NEW w \in Threads, packet[w] # None, b = packet[w] PROVE b[1] \in alive
    <3>1. <<"hand", w>> \in Place /\ b \in Holding[<<"hand", w>>] /\ InPlay(<<"hand", w>>)
      <4>1. <<"hand", w>> \in Place /\ InPlay(<<"hand", w>>) /\ Holding[<<"hand", w>>] = {packet[w]} \ {None}
        BY Zenon, PlaceFacts, HoldingAt, PlacesInPlay
      <4>2. b \in {packet[w]} \ {None}
        BY Zenon, <2>1
      <4>3. QED
        BY Zenon, <4>1, <4>2
    <3>2. QED
      BY Zenon, <1>2, <3>1
  <2>2. ASSUME NEW t \in Targets, b \in Range(ready_fifo[t]) PROVE b[1] \in alive
    <3>1. <<"fifo", t>> \in Place /\ b \in Holding[<<"fifo", t>>] /\ InPlay(<<"fifo", t>>)
      BY Zenon, <2>2, PlaceFacts, HoldingAt, PlacesInPlay
    <3>2. QED
      BY Zenon, <1>2, <3>1
  <2>3. \/ \E w \in Threads : packet[w] # None /\ b = packet[w]
        \/ \E t \in Targets : b \in Range(ready_fifo[t])
    BY Zenon DEF InUse
  <2>4. QED
    BY Zenon, <2>1, <2>2, <2>3
<1>3. QED
  BY Zenon, <1>1, <1>2 DEF Allocated, PacketsAlive

INSTANCE FiniteSetTheorems

LEMMA ActiveCount ==
  /\ IsFiniteSet(Active) /\ Cardinality(Active) \in Nat
  /\ Cardinality(Producers) \in Nat /\ Cardinality(Active) <= Cardinality(Producers)
  /\ \A p \in Active : Cardinality(Active) > 0 /\ Cardinality(Active \ {p}) = Cardinality(Active) - 1
<1>1. IsFiniteSet(Producers) /\ Active \in SUBSET Producers
  BY Zenon, RouterAssumption DEF Active
<1>2. IsFiniteSet(Active) /\ Cardinality(Active) <= Cardinality(Producers)
  BY Zenon, <1>1, FS_Subset
<1>3. Cardinality(Active) \in Nat /\ Cardinality(Producers) \in Nat
  BY Zenon, <1>1, <1>2, FS_CardinalityType
<1>4. ASSUME NEW p \in Active
      PROVE  Cardinality(Active) > 0 /\ Cardinality(Active \ {p}) = Cardinality(Active) - 1
  <2>1. Cardinality(Active \ {p}) = Cardinality(Active) - 1
    BY Zenon, <1>2, <1>4, FS_RemoveElement
  <2>2. Cardinality(Active) # 0
    BY Zenon, <1>2, <1>4, FS_EmptySet
  <2>3. QED
    BY <1>3, <2>1, <2>2
<1>5. QED
  BY Zenon, <1>2, <1>3, <1>4

(* A step of a producer, or of the thread that fires a target, or none. *)
LEMMA CountedStep ==
  ASSUME TypeOK, Counted, [Next]_vars
  PROVE  Counted'
<1>f. /\ producer \in [Producers -> {"new", "routing", "acquiring", "stored", "closing", "closed"}]
      /\ firer \in [Targets -> {"none", "spawned", "popping", "consuming", "freeing", "ending", "done"}]
      /\ remaining_producers \in Nat
  BY ActiveCount DEF TypeOK, Counted
<1>1. ASSUME Active' = Active, remaining_producers' = remaining_producers,
             \A p \in Producers : producer'[p] = "closing" => producer[p] = "closing",
             \A t, u \in Targets : firer'[t] = "none" => firer'[u] = "none",
             \A t \in Targets : firer'[t] = "none" /\ remaining_producers > 0 =>
               \A p \in Producers : producer'[p] = "new"
      PROVE  Counted'
  BY Zenon, <1>1 DEF Counted
<1>2. ASSUME NEW p \in Producers, open(p) PROVE Counted'
  <2>1. p \in Active /\ remaining_producers > 0
    <3>1. p \in Active
      BY Zenon, <1>2 DEF open, Active
    <3>2. QED
      BY Zenon, <3>1, ActiveCount DEF Counted
  <2>2. /\ producer' = [producer EXCEPT ![p] = "routing"] /\ producer[p] = "new"
        /\ \/ (\A t \in Targets : firer[t] = "none") /\ firer' = [t \in Targets |-> "spawned"]
              /\ remaining_producers' = Cardinality(Producers)
           \/ ~(\A t \in Targets : firer[t] = "none") /\ firer' = firer
              /\ remaining_producers' = remaining_producers
    BY Zenon, <1>2 DEF open
  <2>3. Active' = Active
    BY <1>f, <2>2 DEF Active
  <2>4. \A t \in Targets : firer'[t] # "none"
    BY Zenon, <2>2 DEF Counted
  <2>5. remaining_producers' = remaining_producers
    <3>1. ASSUME \A t \in Targets : firer[t] = "none" PROVE Active = Producers
      <4>1. PICK t \in Targets : TRUE
        BY RouterAssumption DEF Targets
      <4>2. \A r \in Producers : producer[r] = "new"
        BY Zenon, <2>1, <3>1, <4>1 DEF Counted
      <4>3. QED
        BY Zenon, <4>2 DEF Active
    <3>2. QED
      BY Zenon, <2>2, <3>1 DEF Counted
  <2>6. \A r \in Producers : producer'[r] = "closing" => producer[r] = "closing"
    BY Zenon, <1>f, <2>2
  <2>7. QED
    BY Zenon, <1>1, <2>3, <2>4, <2>5, <2>6
<1>3. ASSUME NEW p \in Producers, acquireBuffer(p, target'[p]) \/ store(p) \/ releaseBuffer(p) PROVE Counted'
  <2>1. /\ producer[p] \in {"routing", "acquiring", "stored"}
        /\ \E x \in {"routing", "acquiring", "stored"} : producer' = [producer EXCEPT ![p] = x]
        /\ UNCHANGED <<firer, remaining_producers>>
    BY Zenon, <1>3 DEF acquireBuffer, store, releaseBuffer
  <2>2. Active' = Active /\ \A r \in Producers : producer'[r] = "closing" => producer[r] = "closing"
    BY Zenon, <1>f, <2>1 DEF Active
  <2>3. producer[p] # "new"
    BY Zenon, <2>1
  <2>4. QED
    BY Zenon, <1>1, <2>1, <2>2, <2>3 DEF Counted
<1>4. ASSUME NEW p \in Producers, close(p) PROVE Counted'
  <2>1. /\ producer[p] = "routing" /\ remaining_producers' = remaining_producers - 1
        /\ producer' = [producer EXCEPT ![p] = IF remaining_producers' = 0 THEN "closing" ELSE "closed"]
        /\ firer' = firer
    BY Zenon, <1>4 DEF close
  <2>2. p \in Active /\ Active' = Active \ {p}
    BY Zenon, <1>f, <2>1 DEF Active
  <2>3. remaining_producers > 0 /\ remaining_producers' = Cardinality(Active')
    BY Zenon, <2>1, <2>2, ActiveCount DEF Counted
  <2>4. \A r \in Producers : producer'[r] = "closing" => remaining_producers' = 0
    BY <1>f, <2>1, <2>3 DEF Counted
  <2>5. \A t \in Targets : ~(firer'[t] = "none" /\ remaining_producers' > 0)
    BY Zenon, <1>f, <2>1, <2>3 DEF Counted
  <2>6. QED
    BY Zenon, <2>1, <2>3, <2>4, <2>5 DEF Counted
<1>5. ASSUME NEW p \in Producers, close_fifo(p) \/ close_fifo_return(p) PROVE Counted'
  <2>1. UNCHANGED <<producer, firer, remaining_producers>>
    BY Zenon, <1>5 DEF close_fifo, close_fifo_return
  <2>2. Active' = Active
    BY Zenon, <2>1 DEF Active
  <2>3. QED
    BY Zenon, <2>1, <2>2 DEF Counted
<1>6. ASSUME NEW p \in Producers, join(p) PROVE Counted'
  <2>1. /\ producer[p] = "closing" /\ producer' = [producer EXCEPT ![p] = "closed"]
        /\ firer' = [t \in Targets |-> "none"] /\ remaining_producers' = remaining_producers
    BY Zenon, <1>6 DEF join
  <2>2. /\ Active' = Active
        /\ \A r \in Producers : producer'[r] = "closing" => producer[r] = "closing"
    BY Zenon, <1>f, <2>1 DEF Active
  <2>3. remaining_producers = 0 /\ \A t \in Targets : firer'[t] = "none"
    BY Zenon, <2>1 DEF Counted
  <2>4. ~(remaining_producers > 0)
    BY <2>3
  <2>5. QED
    BY Zenon, <1>1, <2>1, <2>2, <2>3, <2>4
<1>7. ASSUME NEW t \in Targets, Fire(t) PROVE Counted'
  <2>1. /\ firer[t] # "none"
        /\ \E x \in {"popping", "consuming", "freeing", "ending", "done"} : firer' = [firer EXCEPT ![t] = x]
        /\ UNCHANGED <<producer, remaining_producers>>
    <3>1. CASE fire_open(t) \/ get_ready(t) \/ consume(t) \/ freeBuffer(t) \/ fire_end(t) \/ fire_close(t)
      BY Zenon, <3>1 DEF fire_open, get_ready, consume, freeBuffer, fire_end, fire_close
    <3>2. CASE fire_reacquire(t)
      <4>1. firer[t] = "ending" /\ firer' = firer /\ UNCHANGED <<producer, remaining_producers>>
        BY Zenon, <3>2 DEF fire_reacquire
      <4>2. firer' = [firer EXCEPT ![t] = "ending"]
        BY Zenon, <1>f, <4>1
      <4>3. "ending" # "none" /\ "ending" \in {"popping", "consuming", "freeing", "ending", "done"}
        BY Zenon
      <4>4. QED
        BY Zenon, <4>1, <4>2, <4>3
    <3>3. QED
      BY Zenon, <1>7, <3>1, <3>2 DEF Fire
  <2>2. Active' = Active
    BY Zenon, <2>1 DEF Active
  <2>3. \A u \in Targets : firer'[u] # "none" \/ firer[u] = "none"
    BY Zenon, <1>f, <2>1
  <2>4. firer'[t] # "none" /\ firer[t] # "none"
    BY Zenon, <1>f, <2>1
  <2>5. \A u \in Targets : firer'[u] # "none"
    BY Zenon, <2>3, <2>4 DEF Counted
  <2>6. QED
    BY Zenon, <1>1, <2>1, <2>2, <2>5
<1>8. CASE UNCHANGED vars
  <2>1. UNCHANGED <<producer, firer, remaining_producers>>
    BY Zenon, <1>8 DEF vars
  <2>2. Active' = Active
    BY Zenon, <2>1 DEF Active
  <2>3. QED
    BY Zenon, <2>1, <2>2 DEF Counted
<1>9. ASSUME NEW p \in Producers, NEW t \in Targets, acquireBuffer(p, t) PROVE Counted'
  <2>1. target'[p] = t
    BY Zenon, <1>9 DEF acquireBuffer, TypeOK
  <2>2. QED
    BY Zenon, <1>3, <1>9, <2>1
<1>10. QED
  BY Zenon, <1>2, <1>3, <1>4, <1>5, <1>6, <1>7, <1>8, <1>9 DEF Next, Produce

(* No target goes back to before its thread has allocated its packets. *)
LEMMA NotYetBefore ==
  ASSUME TypeOK, Counted, [Next]_vars
  PROVE  \A t \in Targets : NotYet(t)' => NotYet(t)
<1>f. /\ firer \in [Targets -> {"none", "spawned", "popping", "consuming", "freeing", "ending", "done"}]
      /\ remaining_producers \in Nat
  BY Zenon, ActiveCount DEF TypeOK, Counted
<1>1. ASSUME NEW p \in Producers, open(p) PROVE \A t \in Targets : NotYet(t)' => NotYet(t)
  <2>1. p \in Active
    BY Zenon, <1>1 DEF open, Active
  <2>2. remaining_producers > 0
    BY Zenon, <2>1, ActiveCount DEF Counted
  <2>3. QED
    BY Zenon, <1>1, <2>2 DEF open, NotYet
<1>2. ASSUME NEW p \in Producers, close(p) PROVE \A t \in Targets : NotYet(t)' => NotYet(t)
  <2>1. remaining_producers' = remaining_producers - 1 /\ firer' = firer
    BY Zenon, <1>2 DEF close
  <2>2. remaining_producers' > 0 => remaining_producers > 0
    BY <1>f, <2>1
  <2>3. QED
    BY Zenon, <2>1, <2>2 DEF NotYet
<1>3. ASSUME NEW p \in Producers, join(p) PROVE \A t \in Targets : NotYet(t)' => NotYet(t)
  <2>1. remaining_producers = 0 /\ remaining_producers' = remaining_producers
    BY Zenon, <1>3 DEF join, Counted
  <2>2. ~(remaining_producers' > 0)
    BY <2>1
  <2>3. \A t \in Targets : firer'[t] = "none"
    BY Zenon, <1>3 DEF join
  <2>4. QED
    BY Zenon, <2>2, <2>3 DEF NotYet
<1>4. ASSUME NEW t \in Targets, Fire(t) PROVE \A u \in Targets : NotYet(u)' => NotYet(u)
  <2>1. /\ \/ firer' = firer
           \/ \E x \in {"popping", "consuming", "freeing", "ending", "done"} : firer' = [firer EXCEPT ![t] = x]
        /\ remaining_producers' = remaining_producers
    BY Zenon, <1>4 DEF Fire, fire_open, get_ready, consume, freeBuffer, fire_end, fire_reacquire, fire_close
  <2>2. QED
    BY Zenon, <1>f, <2>1 DEF NotYet
<1>5. ASSUME UNCHANGED <<firer, remaining_producers>> PROVE \A t \in Targets : NotYet(t)' => NotYet(t)
  BY Zenon, <1>5 DEF NotYet
<1>6. ASSUME NEW p \in Producers, Produce(p) PROVE \A t \in Targets : NotYet(t)' => NotYet(t)
  <2>1. \/ open(p) \/ close(p) \/ join(p)
        \/ UNCHANGED <<firer, remaining_producers>>
    BY Zenon, <1>6 DEF Produce, acquireBuffer, store, releaseBuffer, close_fifo, close_fifo_return
  <2>2. QED
    BY Zenon, <1>1, <1>2, <1>3, <1>5, <2>1
<1>7. CASE UNCHANGED vars
  BY Zenon, <1>5, <1>7 DEF vars
<1>8. QED
  BY Zenon, <1>4, <1>6, <1>7 DEF Next

LEMMA FreshStep ==
  ASSUME TypeOK, Unique, Hands, Counted, Fresh, [Next]_vars
  PROVE  Fresh'
<1>f. /\ firer \in [Targets -> {"none", "spawned", "popping", "consuming", "freeing", "ending", "done"}]
      /\ remaining_producers \in Nat
  BY Zenon, ActiveCount DEF TypeOK, Counted
<1>1. \A t \in Targets : NotYet(t)' => NotYet(t)
  BY Zenon, NotYetBefore
<1>2. CASE \A l \in Place : Holding'[l] \subseteq Holding[l]
  BY Zenon, <1>1, <1>2 DEF Fresh
<1>3. ASSUME NEW b, NEW a, NEW c, Moves(b, a, c) PROVE Fresh'
  <2> DEFINE H == Holding
             G == Holding'
  <2>1. /\ a \in Place /\ b \in H[a] /\ G[a] = H[a] \ {b} /\ G[c] = H[c] \cup {b}
        /\ \A l \in Place : l # a /\ l # c => G[l] = H[l]
        /\ \A t \in Targets : NotYet(t) => \A l \in Place : \A x \in H[l] : x[1] # t
    BY Zenon, <1>3 DEF Moves, Fresh
  <2> HIDE DEF H, G
  <2>2. \A l \in Place : \A x \in G[l] : \E m \in Place : x \in H[m]
    BY <2>1
  <2>3. QED
    BY Zenon, <1>1, <2>1, <2>2 DEF Fresh, G
<1>4. ASSUME NEW t \in Targets, fire_open(t) PROVE Fresh'
  <2> DEFINE a == <<"pool", pool(t)>>
             H == Holding
             G == Holding'
  <2>1. /\ G[a] = H[a] \cup PacketsOf(t) /\ \A l \in Place : l # a => G[l] = H[l]
        /\ \A u \in Targets : NotYet(u) => \A l \in Place : \A x \in H[l] : x[1] # u
    BY Zenon, <1>4, OpenFills DEF Fresh
  <2> HIDE DEF a, H, G
  <2>2. ~NotYet(t)'
    BY Zenon, <1>4, <1>f DEF fire_open, NotYet
  <2>3. \A l \in Place : \A x \in G[l] : x \in H[l] \/ x[1] = t
    BY <2>1 DEF PacketsOf
  <2>4. QED
    BY Zenon, <1>1, <2>1, <2>2, <2>3 DEF Fresh, G
<1>5. ASSUME NEW p \in Producers, join(p) PROVE Fresh'
  BY Zenon, <1>2, <1>5, JoinEmpties
<1>6. CASE \A l \in Place : Holding'[l] = Holding[l]
  BY Zenon, <1>1, <1>6 DEF Fresh
<1>7. QED
  BY Zenon, <1>3, <1>4, <1>5, <1>6, HoldingStep

(* A thread that has re-acquired slack packets, all of them of its own target,
   has all of them. *)
LEMMA AllBack ==
  ASSUME NEW t \in Targets, NEW B \in SUBSET PacketsOf(t), Cardinality(B) = slack
  PROVE  B = PacketsOf(t)
<1>1. slack \in Nat
  BY Zenon, RouterAssumption
<1>2. IsFiniteSet(1 .. slack) /\ Cardinality(1 .. slack) = slack
  BY <1>1, FS_Interval
<1>3. IsFiniteSet({t}) /\ Cardinality({t}) = 1
  BY Zenon, FS_Singleton
<1>4. IsFiniteSet(PacketsOf(t)) /\ Cardinality(PacketsOf(t)) = Cardinality({t}) * Cardinality(1 .. slack)
  BY Zenon, <1>2, <1>3, FS_Product DEF PacketsOf
<1>5. Cardinality(PacketsOf(t)) = Cardinality(B)
  BY <1>1, <1>2, <1>3, <1>4
<1>6. QED
  BY Zenon, <1>4, <1>5, FS_Subset

(* What a thread has taken back stays with it, and it does so only in the end. *)
LEMMA BackGrows ==
  ASSUME TypeOK, Unique, [Next]_vars
  PROVE  \A t \in Targets : back[t] \subseteq back'[t] /\ (back'[t] = back[t] \/ ~NotYet(t)')
<1>1. back \in [Targets -> SUBSET Packet]
  BY Zenon DEF TypeOK
<1>2. CASE back' = back
  BY Zenon, <1>2
<1>3. CASE back' # back
  <2>1. PICK t \in Targets : fire_reacquire(t)
    BY Zenon, <1>3 DEF Next, Produce, Fire, vars, open, acquireBuffer, store, releaseBuffer, close,
         close_fifo, close_fifo_return, join, fire_open, get_ready, consume, freeBuffer, fire_end, fire_close
  <2>2. PICK b \in Packet : back' = [back EXCEPT ![t] = @ \cup {b}]
    BY Zenon, <1>3, <2>1, ReacquireMoves
  <2>3. firer'[t] = "ending"
    BY Zenon, <2>1 DEF fire_reacquire
  <2>4. ~NotYet(t)'
    BY <2>3 DEF NotYet
  <2>5. QED
    BY Zenon, <1>1, <2>2, <2>4
<1>4. QED
  BY Zenon, <1>2, <1>3

LEMMA LateStep ==
  ASSUME TypeOK, Unique, Counted, Late, [Next]_vars
  PROVE  Late'
<1>1. \A t \in Targets : NotYet(t)' => back'[t] = {}
  BY Zenon, NotYetBefore, BackGrows DEF Late
<1>2. QED
  BY Zenon, <1>1 DEF Late

(* A thread that has freed packets which were not back never makes up for it. *)
LEMMA SoundBefore ==
  ASSUME TypeOK, Unique, Late, [Next]_vars, Sound'
  PROVE  Sound
<1>1. SUFFICES ASSUME shared, Strayed PROVE FALSE
  BY Zenon DEF Sound
<1>2. PICK u \in Targets : u \notin alive /\ \E b \in back[u] : b[1] # u
  BY Zenon, <1>1 DEF Strayed
<1>3. \E b \in back'[u] : b[1] # u
  BY Zenon, <1>2, BackGrows
<1>4. alive' = alive \/ \E t \in Targets : fire_open(t) \/ fire_close(t)
  BY Zenon DEF Next, Produce, Fire, vars, open, acquireBuffer, store, releaseBuffer, close, close_fifo,
       close_fifo_return, join, get_ready, consume, freeBuffer, fire_end, fire_reacquire
<1>5. ASSUME NEW t \in Targets, fire_open(t) PROVE u \notin alive'
  <2>1. back[t] = {}
    BY Zenon, <1>5 DEF fire_open, NotYet, Late
  <2>2. alive' = alive \cup {t}
    BY Zenon, <1>5 DEF fire_open
  <2>3. QED
    BY Zenon, <1>2, <2>1, <2>2
<1>6. ASSUME NEW t \in Targets, fire_close(t) PROVE u \notin alive'
  BY Zenon, <1>2, <1>6 DEF fire_close
<1>7. u \notin alive'
  BY Zenon, <1>2, <1>4, <1>5, <1>6
<1>8. shared'
  BY Zenon, <1>1 DEF Next, vars
<1>9. QED
  BY Zenon, <1>3, <1>7, <1>8 DEF Sound, Strayed

(* A thread that frees its memory has all of its packets, unless it has others. *)
LEMMA CloseReturned ==
  ASSUME TypeOK, Unique, Own, NEW t \in Targets, fire_close(t), [Next]_vars, Sound'
  PROVE  Returned(t)
<1>s. shared' = shared
  BY Zenon DEF Next, vars
<1>1. \A b \in back[t] : b[1] = t
  <2>1. CASE ~shared
    <3>1. SUFFICES ASSUME NEW b \in back[t] PROVE b[1] = t
      BY Zenon
    <3>2. <<"back", t>> \in Place /\ b \in Holding[<<"back", t>>] /\ Home(<<"back", t>>) = t
      BY Zenon, PlaceFacts, HoldingAt, HomeAt
    <3>3. QED
      BY Zenon, <2>1, <3>2 DEF Own
  <2>2. CASE shared
    <3>1. t \notin alive' /\ back' = back
      BY Zenon DEF fire_close
    <3>2. QED
      BY Zenon, <1>s, <2>2, <3>1 DEF Sound, Strayed
  <2>3. QED
    BY Zenon, <2>1, <2>2
<1>2. back[t] \in SUBSET PacketsOf(t)
  <2>1. \A b \in back[t] : b \in Packet /\ b[1] = t
    BY Zenon, <1>1 DEF TypeOK
  <2>2. QED
    BY Zenon, <2>1, PacketFacts
<1>3. back[t] = PacketsOf(t)
  BY Zenon, <1>2, AllBack DEF fire_close
<1>4. SUFFICES ASSUME NEW l \in Place, InPlay(l), NEW b \in Holding[l] PROVE b[1] # t
  BY Zenon DEF Returned
<1>5. <<"back", t>> \in Place /\ l # <<"back", t>> /\ Holding[<<"back", t>>] = back[t]
  <2>1. ~InPlay(<<"back", t>>)
    BY Zenon DEF InPlay
  <2>2. QED
    BY Zenon, <1>4, <2>1, PlaceFacts, HoldingAt
<1>6. Holding[l] \cap back[t] = {}
  BY Zenon, <1>5 DEF Unique, Apart
<1>7. b \notin PacketsOf(t) /\ b \in Packet
  BY Zenon, <1>3, <1>4, <1>6, HoldingPackets
<1>8. QED
  BY Zenon, <1>7, PacketFacts

LEMMA AllocatedStep ==
  ASSUME TypeOK, Unique, Own, Hands, Fresh, Late, Allocated, [Next]_vars
  PROVE  Allocated'
<1>1. ASSUME ~Sound' PROVE Allocated'
  BY Zenon, <1>1 DEF Sound, Allocated
<1>a. ASSUME Sound'
      PROVE  \A l \in Place : InPlay(l) => \A b \in Holding[l] : b[1] \in alive
  BY Zenon, <1>a, SoundBefore DEF Allocated, Sound
<1>2. ASSUME NEW t \in Targets, fire_close(t), Sound' PROVE Allocated'
  <2>4. /\ alive' = alive \ {t} /\ UNCHANGED <<free_pool, ready_fifo, back, packet>>
    BY Zenon, <1>2 DEF fire_close
  <2>5. \A l \in Place : Holding'[l] = Holding[l]
    <3>1. Same("pool") /\ Same("fifo") /\ Same("back") /\ Same("hand")
      BY Zenon, <2>4, SamePlaces
    <3>2. QED
      BY Zenon, <3>1, PlaceFacts DEF Same
  <2>6. ASSUME NEW l \in Place, InPlay(l), NEW b \in Holding[l] PROVE b[1] \in alive'
    <3>1. b[1] \in alive
      BY Zenon, <1>a, <1>2, <2>6
    <3>2. b[1] # t
      BY Zenon, <1>2, <2>6, CloseReturned DEF Returned
    <3>3. QED
      BY Zenon, <2>4, <3>1, <3>2
  <2>7. QED
    BY Zenon, <2>5, <2>6 DEF Allocated
<1>3. ASSUME \A l \in Place : Holding'[l] = Holding[l], alive' = alive, Sound' PROVE Allocated'
  BY Zenon, <1>a, <1>3 DEF Allocated
<1>4. ASSUME NEW b, NEW a, NEW c, Moves(b, a, c), InPlay(a), alive' = alive, Sound'
      PROVE  Allocated'
  <2> DEFINE H == Holding
             G == Holding'
  <2>1. /\ a \in Place /\ b \in H[a] /\ G[a] = H[a] \ {b} /\ G[c] = H[c] \cup {b}
        /\ \A l \in Place : l # a /\ l # c => G[l] = H[l]
        /\ \A l \in Place : InPlay(l) => \A x \in H[l] : x[1] \in alive
    BY Zenon, <1>4, <1>a DEF Moves
  <2> HIDE DEF H, G
  <2>2. \A l \in Place : InPlay(l) => \A x \in G[l] : x[1] \in alive
    BY <1>4, <2>1
  <2>3. QED
    BY Zenon, <1>4, <2>2 DEF Allocated, G
<1>5. ASSUME NEW t \in Targets, fire_open(t), Sound' PROVE Allocated'
  <2> DEFINE a == <<"pool", pool(t)>>
             H == Holding
             G == Holding'
  <2>1. /\ G[a] = H[a] \cup PacketsOf(t) /\ \A l \in Place : l # a => G[l] = H[l]
        /\ \A l \in Place : InPlay(l) => \A x \in H[l] : x[1] \in alive
        /\ alive' = alive \cup {t}
    BY Zenon, <1>5, <1>a, OpenFills DEF fire_open
  <2> HIDE DEF a, H, G
  <2>2. \A l \in Place : InPlay(l) => \A x \in G[l] : x[1] \in alive'
    BY <2>1 DEF PacketsOf
  <2>3. QED
    BY Zenon, <2>2 DEF Allocated, G
<1>6. ASSUME NEW p \in Producers, join(p), Sound' PROVE Allocated'
  <2>1. /\ alive' = alive /\ \A l \in Place : \A b \in Holding'[l] : b \in Holding[l]
    BY Zenon, <1>6, JoinEmpties DEF join
  <2>2. QED
    BY Zenon, <1>a, <1>6, <2>1 DEF Allocated
<1>7. alive' = alive \/ (\E t \in Targets : fire_open(t) \/ fire_close(t))
  BY Zenon DEF Next, Produce, Fire, vars, open, acquireBuffer, store, releaseBuffer, close, close_fifo,
       close_fifo_return, join, get_ready, consume, freeBuffer, fire_end, fire_reacquire
<1>8. QED
  BY Zenon, <1>1, <1>2, <1>3, <1>4, <1>5, <1>6, <1>7, HoldingStep

LEMMA TypeStep ==
  ASSUME TypeOK, Unique, Hands, Counted, Fresh, [Next]_vars
  PROVE  TypeOK'
<1>r. /\ fanout \in Nat \ {0} /\ MaxBlocks \in Nat
      /\ \A p \in Producers : p \in Threads
      /\ \A t \in Targets : t \in Threads
  BY Zenon, RouterAssumption DEF Threads
<1>1. shared' \in BOOLEAN
  BY Zenon DEF TypeOK, Next, vars
<1>2. producer' \in [Producers -> {"new", "routing", "acquiring", "stored", "closing", "closed"}]
  <2>1. producer \in [Producers -> {"new", "routing", "acquiring", "stored", "closing", "closed"}]
    BY Zenon DEF TypeOK
  <2>2. \/ producer' = producer
        \/ \E p \in Producers : \E x \in {"new", "routing", "acquiring", "stored", "closing", "closed"} :
             producer' = [producer EXCEPT ![p] = x]
    BY Zenon DEF Next, Produce, Fire, vars, open, acquireBuffer, store, releaseBuffer, close,
           close_fifo, close_fifo_return, join, fire_open, get_ready, consume, freeBuffer,
           fire_end, fire_reacquire, fire_close
  <2>3. QED
    BY Zenon, <2>1, <2>2
<1>3. target' \in [Producers -> 0 .. fanout]
  <2>1. target \in [Producers -> 0 .. fanout] /\ \A t \in Targets : t \in 0 .. fanout /\ t + 1 \in 0 .. fanout
    BY <1>r DEF TypeOK, Targets
  <2>2. \/ target' = target
        \/ \E p \in Producers : \E t \in Targets : target' = [target EXCEPT ![p] = t]
        \/ \E p \in Producers : target' = [target EXCEPT ![p] = 0]
        \/ \E p \in Producers : target[p] \in terminating /\ target' = [target EXCEPT ![p] = target[p] + 1]
    BY Zenon DEF Next, Produce, Fire, vars, open, acquireBuffer, store, releaseBuffer, close,
           close_fifo, close_fifo_return, join, fire_open, get_ready, consume, freeBuffer,
           fire_end, fire_reacquire, fire_close
  <2>3. terminating \subseteq Targets /\ 0 \in 0 .. fanout
    BY <1>r DEF TypeOK
  <2>4. QED
    BY Zenon, <2>1, <2>2, <2>3
<1>4. packet' \in [Threads -> Packet \cup {None}]
  <2>1. packet \in [Threads -> Packet \cup {None}]
    BY Zenon DEF TypeOK
  <2>2. \/ packet' = packet
        \/ \E p \in Producers : store(p)
        \/ \E t \in Targets : get_ready(t)
        \/ \E w \in Threads : packet' = [packet EXCEPT ![w] = None]
    BY Zenon, <1>r DEF Next, Produce, Fire, vars, open, acquireBuffer, releaseBuffer, close, close_fifo,
           close_fifo_return, join, fire_open, consume, freeBuffer, fire_end, fire_reacquire,
           fire_close
  <2>3. ASSUME NEW p \in Producers, store(p) PROVE packet' \in [Threads -> Packet \cup {None}]
    <3>1. packet'[p] \in Packet /\ \E x : packet' = [packet EXCEPT ![p] = x]
      BY Zenon, <2>3, StoreMoves DEF store, take
    <3>2. PICK x : packet' = [packet EXCEPT ![p] = x]
      BY Zenon, <3>1
    <3>3. x \in Packet
      BY Zenon, <1>r, <2>1, <3>1, <3>2
    <3>4. QED
      BY Zenon, <2>1, <3>2, <3>3
  <2>4. ASSUME NEW t \in Targets, get_ready(t) PROVE packet' \in [Threads -> Packet \cup {None}]
    <3>1. packet'[t] \in Packet /\ \E x : packet' = [packet EXCEPT ![t] = x]
      BY Zenon, <2>4, ReadyMoves DEF get_ready
    <3>2. PICK x : packet' = [packet EXCEPT ![t] = x]
      BY Zenon, <3>1
    <3>3. x \in Packet
      BY Zenon, <1>r, <2>1, <3>1, <3>2
    <3>4. QED
      BY Zenon, <2>1, <3>2, <3>3
  <2>5. QED
    BY Zenon, <2>1, <2>2, <2>3, <2>4
<1>5. routed' \in [Producers -> 0 .. MaxBlocks]
  <2>1. routed \in [Producers -> 0 .. MaxBlocks]
    BY Zenon DEF TypeOK
  <2>2. \/ routed' = routed
        \/ \E p \in Producers : producer[p] = "stored" /\ routed' = [routed EXCEPT ![p] = @ + 1]
    BY Zenon DEF Next, Produce, Fire, vars, open, acquireBuffer, store, releaseBuffer, close,
           close_fifo, close_fifo_return, join, fire_open, get_ready, consume, freeBuffer,
           fire_end, fire_reacquire, fire_close
  <2>3. \A p \in Producers : producer[p] = "stored" => routed[p] + 1 \in 0 .. MaxBlocks
    BY <1>r, <2>1 DEF Hands
  <2>4. QED
    BY Zenon, <2>1, <2>2, <2>3
<1>6. remaining_producers' \in 0 .. Cardinality(Producers)
  <2>1. remaining_producers' = Cardinality(Active')
    BY Zenon, CountedStep DEF Counted
  <2>2. Active' \subseteq Producers
    BY Zenon DEF Active
  <2>3. IsFiniteSet(Producers) /\ IsFiniteSet(Active') /\ Cardinality(Active') <= Cardinality(Producers)
    BY Zenon, <2>2, RouterAssumption, FS_Subset
  <2>4. Cardinality(Active') \in Nat /\ Cardinality(Producers) \in Nat
    BY Zenon, <2>3, FS_CardinalityType
  <2>5. QED
    BY <2>1, <2>3, <2>4
<1>7. firer' \in [Targets -> {"none", "spawned", "popping", "consuming", "freeing", "ending", "done"}]
  <2>1. firer \in [Targets -> {"none", "spawned", "popping", "consuming", "freeing", "ending", "done"}]
    BY Zenon DEF TypeOK
  <2>2. \/ firer' = firer
        \/ \E x \in {"none", "spawned"} : firer' = [t \in Targets |-> x]
        \/ \E t \in Targets : \E x \in {"popping", "consuming", "freeing", "ending", "done"} :
             firer' = [firer EXCEPT ![t] = x]
    BY Zenon DEF Next, Produce, Fire, vars, open, acquireBuffer, store, releaseBuffer, close,
           close_fifo, close_fifo_return, join, fire_open, get_ready, consume, freeBuffer,
           fire_end, fire_reacquire, fire_close
  <2>3. QED
    BY Zenon, <2>1, <2>2
<1>8. back' \in [Targets -> SUBSET Packet]
  <2>1. back \in [Targets -> SUBSET Packet]
    BY Zenon DEF TypeOK
  <2>2. CASE back' = back
    BY Zenon, <2>1, <2>2
  <2>3. CASE back' # back
    <3>1. PICK t \in Targets : fire_reacquire(t)
      BY Zenon, <2>3 DEF Next, Produce, Fire, vars, open, acquireBuffer, store, releaseBuffer, close,
           close_fifo, close_fifo_return, join, fire_open, get_ready, consume, freeBuffer,
           fire_end, fire_close
    <3>2. PICK b \in Packet : back' = [back EXCEPT ![t] = @ \cup {b}]
      BY Zenon, <2>3, <3>1, ReacquireMoves
    <3>3. back[t] \cup {b} \in SUBSET Packet
      BY Zenon, <2>1
    <3>4. QED
      BY Zenon, <2>1, <3>2, <3>3
  <2>4. QED
    BY Zenon, <2>2, <2>3
<1>9. alive' \subseteq Targets /\ terminating' \subseteq Targets
  <2>1. alive \subseteq Targets /\ terminating \subseteq Targets
    BY Zenon DEF TypeOK
  <2>2. alive' = alive \/ \E t \in Targets : alive' = alive \cup {t} \/ alive' = alive \ {t}
    BY Zenon DEF Next, Produce, Fire, vars, open, acquireBuffer, store, releaseBuffer, close,
           close_fifo, close_fifo_return, join, fire_open, get_ready, consume, freeBuffer,
           fire_end, fire_reacquire, fire_close
  <2>3. \/ terminating' = terminating
        \/ \E p \in Producers : /\ target[p] < fanout /\ terminating' = terminating \cup {target[p]}
    BY Zenon DEF Next, Produce, Fire, vars, open, acquireBuffer, store, releaseBuffer, close,
           close_fifo, close_fifo_return, join, fire_open, get_ready, consume, freeBuffer,
           fire_end, fire_reacquire, fire_close
  <2>4. \A p \in Producers : target[p] < fanout => target[p] \in Targets
    BY <1>r DEF TypeOK, Targets
  <2>5. alive' \subseteq Targets
    BY Zenon, <2>1, <2>2
  <2>6. terminating' \subseteq Targets
    BY <2>1, <2>3, <2>4
  <2>7. QED
    BY Zenon, <2>5, <2>6
<1>10. free_pool' \in [Targets -> Seq(Packet)] /\ ready_fifo' \in [Targets -> Seq(Packet)]
  BY Zenon, HoldingStep DEF Lists
<1>11. content' \in [Packet -> Block \cup {None}]
  <2>1. content \in [Packet -> Block \cup {None}]
    BY Zenon DEF TypeOK
  <2>2. \/ content' = content
        \/ \E p \in Producers : /\ producer[p] = "acquiring"
                                /\ content' = [content EXCEPT ![packet'[p]] = <<p, routed[p] + 1>>]
        \/ \E t \in Targets : content' = [b \in Packet |-> IF b[1] = t THEN None ELSE content[b]]
    BY Zenon DEF Next, Produce, Fire, vars, open, acquireBuffer, store, releaseBuffer, close,
           close_fifo, close_fifo_return, join, fire_open, get_ready, consume, freeBuffer,
           fire_end, fire_reacquire, fire_close
  <2>3. \A p \in Producers : producer[p] = "acquiring" => <<p, routed[p] + 1>> \in Block
    <3>1. \A p \in Producers : producer[p] = "acquiring" => routed[p] + 1 \in 1 .. MaxBlocks
      BY <1>r DEF TypeOK, Hands
    <3>2. QED
      BY Zenon, <3>1, BlockFacts
  <2>4. ASSUME NEW t \in Targets, content' = [b \in Packet |-> IF b[1] = t THEN None ELSE content[b]]
        PROVE  content' \in [Packet -> Block \cup {None}]
    BY <2>1, <2>4
  <2>5. QED
    BY Zenon, <2>1, <2>2, <2>3, <2>4
<1>12. consumed' \in [Block -> Nat]
  <2>1. consumed \in [Block -> Nat]
    BY Zenon DEF TypeOK
  <2>2. consumed' = consumed \/ \E x : consumed' = [consumed EXCEPT ![x] = @ + 1]
    BY Zenon DEF Next, Produce, Fire, vars, open, acquireBuffer, store, releaseBuffer, close,
           close_fifo, close_fifo_return, join, fire_open, get_ready, consume, freeBuffer,
           fire_end, fire_reacquire, fire_close
  <2>3. QED
    BY <2>1, <2>2
<1>13. QED
  BY Zenon, <1>1, <1>2, <1>3, <1>4, <1>5, <1>6, <1>7, <1>8, <1>9, <1>10, <1>11, <1>12, TicketStep DEF TypeOK

LEMMA DeliveredOnce ==
  ASSUME TypeOK, Unique, Hands, Sound => Loads
  PROVE  DeliveredExactlyOnce
<1>1. SUFFICES ASSUME Sound, NEW p \in Producers, NEW k \in 1 .. routed[p]
               PROVE consumed[<<p, k>>]
                 + Cardinality({t \in Targets : firer[t] = "consuming" /\ content[packet[t]] = <<p, k>>})
                 + Cardinality({e \in Queued : content[ready_fifo[e[1]][e[2]]] = <<p, k>>}) = 1
  BY Zenon DEF DeliveredExactlyOnce, Sound
<1>l. Loads
  BY Zenon, <1>1
<1> DEFINE x == <<p, k>>
           A == {t \in Targets : firer[t] = "consuming" /\ content[packet[t]] = x}
           B == {e \in Queued : content[ready_fifo[e[1]][e[2]]] = x}
<1>2. x \in Block /\ x[2] <= routed[x[1]]
  <2>1. routed[p] \in 0 .. MaxBlocks /\ MaxBlocks \in Nat
    BY Zenon, RouterAssumption DEF TypeOK
  <2>2. k \in 1 .. MaxBlocks /\ k <= routed[p]
    BY <2>1
  <2>3. QED
    BY Zenon, <2>2, BlockFacts
<1>3. \A t \in Targets : ready_fifo[t] \in Seq(Packet) /\ t \in Threads
  BY Zenon DEF TypeOK, Threads
<1>4. \A t \in Targets : \A i \in 1 .. Len(ready_fifo[t]) :
        ready_fifo[t][i] \in Range(ready_fifo[t]) /\ ready_fifo[t][i] \in Full
  BY Zenon, <1>3, RangeOf, FullAt
<1>5. \A t \in Targets : firer[t] = "consuming" => packet[t] \in Full /\ packet[t] # None
  BY Zenon, FullAt DEF Hands
<1>6. Cardinality({}) = 0
  BY Zenon, FS_EmptySet
<1> HIDE DEF x
<1>b. ASSUME NEW e \in B
      PROVE  \E t \in Targets : \E i \in 1 .. Len(ready_fifo[t]) : e = <<t, i>> /\ content[ready_fifo[t][i]] = x
  <2>t. PICK t \in Targets : \E i \in 1 .. Len(ready_fifo[t]) : e = <<t, i>>
    BY Zenon, QueuedAt
  <2>1. PICK i \in 1 .. Len(ready_fifo[t]) : e = <<t, i>>
    BY Zenon, <2>t
  <2>2. e[1] = t /\ e[2] = i
    BY Zenon, <2>1
  <2>3. content[ready_fifo[t][i]] = x
    BY Zenon, <2>2
  <2>4. QED
    BY Zenon, <2>1, <2>3
<1>7. CASE consumed[x] = 1 /\ \A b \in Full : content[b] # x
  <2>1. A = {}
    BY Zenon, <1>5, <1>7
  <2>2. B = {}
    BY Zenon, <1>4, <1>b, <1>7
  <2> HIDE DEF A, B
  <2>3. consumed[x] + Cardinality(A) + Cardinality(B) = 1
    BY <1>6, <1>7, <2>1, <2>2
  <2>4. QED
    BY Zenon, <2>3 DEF x, A, B
<1>8. ASSUME consumed[x] = 0, NEW b \in Full, content[b] = x
      PROVE  consumed[x] + Cardinality(A) + Cardinality(B) = 1
  <2>1. \A c \in Full : content[c] = x => c = b
    BY Zenon, <1>l, <1>8 DEF Loads
  <2>2. CASE \E t \in Targets : b \in Range(ready_fifo[t])
    <3>1. PICK t \in Targets : b \in Range(ready_fifo[t])
      BY Zenon, <2>2
    <3>s. ready_fifo[t] \in Seq(Packet)
      BY Zenon, <1>3
    <3>2. PICK i \in 1 .. Len(ready_fifo[t]) : ready_fifo[t][i] = b
      BY <3>1, <3>s, RangeOf
    <3>3. A = {}
      <4>1. SUFFICES ASSUME NEW u \in A PROVE FALSE
        BY Zenon
      <4>2. u \in Targets /\ packet[u] = b /\ packet[u] # None
        BY Zenon, <1>5, <2>1
      <4>3. QED
        BY Zenon, <1>3, <3>1, <4>2, HandAlone
    <3>4. B = {<<t, i>>}
      <4>1. <<t, i>> \in B
        <5>1. <<t, i>>[1] = t /\ <<t, i>>[2] = i
          BY Zenon
        <5>2. QED
          BY Zenon, <1>8, <3>2, <5>1, QueuedAt
      <4>2. ASSUME NEW e \in B PROVE e = <<t, i>>
        <5>u. PICK u \in Targets :
                \E j \in 1 .. Len(ready_fifo[u]) : e = <<u, j>> /\ content[ready_fifo[u][j]] = x
          BY Zenon, <1>b
        <5>1. PICK j \in 1 .. Len(ready_fifo[u]) : e = <<u, j>> /\ content[ready_fifo[u][j]] = x
          BY Zenon, <5>u
        <5>2. ready_fifo[u][j] = b /\ b \in Range(ready_fifo[u])
          BY Zenon, <1>4, <2>1, <5>1
        <5>3. u = t
          <6>1. <<"fifo", u>> \in Place /\ <<"fifo", t>> \in Place
            BY Zenon, PlaceFacts
          <6>2. u # t => <<"fifo", u>> # <<"fifo", t>>
            BY Zenon
          <6>3. u # t => Range(ready_fifo[u]) \cap Range(ready_fifo[t]) = {}
            BY Zenon, <6>1, <6>2, HoldingAt DEF Unique, Apart
          <6>4. QED
            BY Zenon, <3>1, <5>2, <6>3
        <5>4. j = i
          <6>1. IsInjective(ready_fifo[t]) /\ j \in 1 .. Len(ready_fifo[t]) /\ ready_fifo[t][j] = ready_fifo[t][i]
            BY Zenon, <3>2, <5>2, <5>3 DEF Unique
          <6>2. QED
            BY <3>s, <6>1, RangeOf
        <5>5. QED
          BY Zenon, <5>1, <5>3, <5>4
      <4>3. QED
        BY Zenon, <4>1, <4>2
    <3>5. Cardinality({<<t, i>>}) = 1
      BY Zenon, FS_Singleton
    <3> HIDE DEF A, B
    <3>6. QED
      BY <1>6, <1>8, <3>3, <3>4, <3>5
  <2>3. CASE \E t \in Targets : firer[t] = "consuming" /\ b = packet[t]
    <3>1. PICK t \in Targets : firer[t] = "consuming" /\ b = packet[t]
      BY Zenon, <2>3
    <3>2. b # None
      BY Zenon, <1>5, <3>1
    <3>3. A = {t}
      <4>1. ASSUME NEW u \in A PROVE u = t
        <5>1. u \in Targets /\ packet[u] = b
          BY Zenon, <1>5, <2>1
        <5>2. QED
          BY Zenon, <1>3, <3>1, <3>2, <5>1, HandAlone
      <4>2. t \in A
        BY Zenon, <1>8, <3>1
      <4>3. QED
        BY Zenon, <4>1, <4>2
    <3>4. B = {}
      <4>1. SUFFICES ASSUME NEW e \in B PROVE FALSE
        BY Zenon
      <4>u. PICK u \in Targets : \E j \in 1 .. Len(ready_fifo[u]) : content[ready_fifo[u][j]] = x
        BY Zenon, <1>b
      <4>2. PICK j \in 1 .. Len(ready_fifo[u]) : content[ready_fifo[u][j]] = x
        BY Zenon, <4>u
      <4>3. b \in Range(ready_fifo[u])
        BY Zenon, <1>4, <2>1, <4>2
      <4>4. QED
        BY Zenon, <1>3, <3>1, <3>2, <4>3, HandAlone
    <3>5. Cardinality({t}) = 1
      BY Zenon, FS_Singleton
    <3> HIDE DEF A, B
    <3>6. QED
      BY <1>6, <1>8, <3>3, <3>4, <3>5
  <2>4. QED
    BY Zenon, <2>2, <2>3, FullAt
<1>9. \/ consumed[x] = 0 /\ \E b \in Full : content[b] = x
      \/ consumed[x] = 1 /\ \A b \in Full : content[b] # x
  BY Zenon, <1>l, <1>2 DEF Loads
<1>10. consumed[x] + Cardinality(A) + Cardinality(B) = 1 => consumed[<<p, k>>]
                 + Cardinality({t \in Targets : firer[t] = "consuming" /\ content[packet[t]] = <<p, k>>})
                 + Cardinality({e \in Queued : content[ready_fifo[e[1]][e[2]]] = <<p, k>>}) = 1
  BY Zenon DEF x
<1>11. QED
  BY Zenon, <1>7, <1>8, <1>9, <1>10

-----------------------------------------------------------------------------
LEMMA ExchangeInit == Init => ExchangeInv
<1>1. SUFFICES ASSUME Init PROVE ExchangeInv
  BY Zenon
<1>2. <<>> \in Seq(Packet) /\ <<>> \in Seq(Threads) /\ Range(<<>>) = {} /\ IsInjective(<<>>)
  BY DEF Range, IsInjective
<1>3. /\ \A t \in Targets : free_pool[t] = <<>> /\ ready_fifo[t] = <<>> /\ back[t] = {} /\ firer[t] = "none"
      /\ \A w \in Threads : packet[w] = None
      /\ \A p \in Producers : producer[p] = "new" /\ routed[p] = 0
      /\ \A x \in Block : consumed[x] = 0
  BY Zenon, <1>1 DEF Init
<1>4. IsFiniteSet(Producers) /\ Cardinality(Producers) \in Nat
  BY Zenon, RouterAssumption, FS_CardinalityType
<1>5. TypeOK
  <2>1. /\ shared \in BOOLEAN /\ alive \subseteq Targets /\ terminating \subseteq Targets
        /\ producer \in [Producers -> {"new", "routing", "acquiring", "stored", "closing", "closed"}]
        /\ packet \in [Threads -> Packet \cup {None}]
        /\ firer \in [Targets -> {"none", "spawned", "popping", "consuming", "freeing", "ending", "done"}]
        /\ back \in [Targets -> SUBSET Packet]
        /\ content \in [Packet -> Block \cup {None}]
    BY Zenon, <1>1 DEF Init
  <2>2. /\ target \in [Producers -> 0 .. fanout] /\ routed \in [Producers -> 0 .. MaxBlocks]
        /\ remaining_producers \in 0 .. Cardinality(Producers) /\ consumed \in [Block -> Nat]
    BY <1>1, <1>4, RouterAssumption DEF Init
  <2>3. /\ free_pool \in [Targets -> Seq(Packet)] /\ ready_fifo \in [Targets -> Seq(Packet)]
        /\ tickets \in [Targets -> Seq(Threads)]
    BY Zenon, <1>1, <1>2 DEF Init
  <2>4. QED
    BY Zenon, <2>1, <2>2, <2>3 DEF TypeOK
<1>6. \A l \in Place : Holding[l] = {}
  <2>1. \A t \in Targets : /\ Holding[<<"pool", t>>] = {} /\ Holding[<<"fifo", t>>] = {}
                           /\ Holding[<<"back", t>>] = {}
    <3>1. SUFFICES ASSUME NEW t \in Targets
                   PROVE  /\ Holding[<<"pool", t>>] = {} /\ Holding[<<"fifo", t>>] = {}
                          /\ Holding[<<"back", t>>] = {}
      BY Zenon
    <3>2. free_pool[t] = <<>> /\ ready_fifo[t] = <<>> /\ back[t] = {}
      BY Zenon, <1>3
    <3>3. Range(free_pool[t]) = {} /\ Range(ready_fifo[t]) = {}
      BY Zenon, <1>2, <3>2
    <3>4. QED
      BY Zenon, <3>2, <3>3, HoldingAt
  <2>2. \A w \in Threads : Holding[<<"hand", w>>] = {}
    BY <1>3, HoldingAt
  <2>3. SUFFICES ASSUME NEW l \in Place PROVE Holding[l] = {}
    BY Zenon
  <2>4. CASE l[1] = "hand" /\ l[2] \in Threads
    BY Zenon, <2>2, <2>4, PlaceFacts
  <2>5. CASE l[1] \in {"pool", "fifo", "back"} /\ l[2] \in Targets
    <3>1. l = <<l[1], l[2]>>
      BY Zenon, PlaceFacts
    <3>2. QED
      BY Zenon, <2>1, <2>5, <3>1
  <2>6. QED
    BY Zenon, <2>4, <2>5, PlaceFacts
<1>7. Unique
  BY Zenon, <1>2, <1>3, <1>6 DEF Unique, Apart
<1>8. Own /\ Fresh /\ Late /\ Allocated
  BY Zenon, <1>3, <1>6 DEF Own, Fresh, Late, Allocated
<1>9. Hands
  BY Zenon, <1>3 DEF Hands, Threads
<1>10. Counted
  <2>1. Active = Producers
    BY Zenon, <1>3 DEF Active
  <2>2. remaining_producers = Cardinality(Producers)
    BY Zenon, <1>1 DEF Init
  <2>3. QED
    BY Zenon, <1>3, <2>1, <2>2 DEF Counted
<1>11. Loads
  <2>1. \A b : b \notin Full
    <3>1. \A t \in Targets : firer[t] # "consuming"
      BY Zenon, <1>3
    <3>2. QED
      BY Zenon, <1>2, <1>3, <3>1, FullAt
  <2>2. \A x \in Block : ~(x[2] <= routed[x[1]])
    BY <1>3, BlockFacts
  <2>3. \A p \in Producers : producer[p] # "stored"
    BY Zenon, <1>3
  <2>4. QED
    BY Zenon, <1>3, <2>1, <2>2, <2>3 DEF Loads
<1>12. QED
  BY Zenon, <1>5, <1>7, <1>8, <1>9, <1>10, <1>11 DEF ExchangeInv

(* The exchange keeps track of every packet and every block: a packet is in one
   place, those whose block is still to be consumed hold different blocks, and
   these are the blocks that producers pushed and no pipeline consumed.  For
   acquireBuffer, releaseBuffer, get_ready, freeBuffer, fire, open and close of
   the router. *)
THEOREM ExchangeInvariant == Spec => []ExchangeInv
<1>1. Init => ExchangeInv
  BY Zenon, ExchangeInit
<1>2. ExchangeInv /\ [Next]_vars => ExchangeInv'
  <2>1. SUFFICES ASSUME ExchangeInv, [Next]_vars PROVE ExchangeInv'
    BY Zenon
  <2>2. TypeOK /\ Unique /\ Own /\ Hands /\ Late
    BY Zenon, <2>1 DEF ExchangeInv
  <2>3. ASSUME Sound' PROVE Loads'
    <3>1. Loads
      BY Zenon, <2>1, <2>2, <2>3, SoundBefore DEF ExchangeInv
    <3>2. \A t \in Targets : fire_close(t) => Returned(t)
      BY Zenon, <2>1, <2>2, <2>3, CloseReturned
    <3>3. QED
      BY Zenon, <2>1, <2>2, <3>1, <3>2, LoadsStep
  <2>4. QED
    BY Zenon, <2>1, <2>3, TypeStep, UniqueStep, OwnStep, HandsStep, CountedStep, FreshStep, LateStep,
       AllocatedStep DEF ExchangeInv
<1>3. QED
  BY <1>1, <1>2, PTL DEF Spec

(* No block is lost or consumed twice, and close() never counts below zero:
   every block that releaseBuffer pushed waits in a queue, is being consumed,
   or was consumed once - until, with a shared pool, a thread frees packets that
   are not back. *)
THEOREM BlocksDelivered == Spec => []RouterInv
<1>1. ExchangeInv => RouterInv
  BY Zenon, DeliveredOnce DEF ExchangeInv, RouterInv
<1>2. QED
  BY <1>1, ExchangeInvariant, PTL

(* fire() frees its packets only when nobody has or is about to read one of
   them, unless a thread has freed its memory with packets of another target in
   exchange, which happens only when the random policy shares one pool. *)
THEOREM MemoryOutlivesPackets == Spec => []PacketsAlive
<1>1. ExchangeInv => PacketsAlive
  BY Zenon, InUseAllocated DEF ExchangeInv
<1>2. QED
  BY <1>1, ExchangeInvariant, PTL

=============================================================================
