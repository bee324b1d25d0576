----------------------------- MODULE IBHandler -----------------------------
(***************************************************************************)
(* One InfiniBand connection of platform/network/infiniband, in the        *)
(* direction local -> remote.  The local side writes into buffers of the   *)
(* remote one, which it has been granted in packs of BuffNum, and tells it *)
(* of PackNotifications writes at a time with one more write that carries  *)
(* their sizes.  The remote side keeps the buffers it granted in           *)
(* send_buffers, and finds the data of a write only by position: the two   *)
(* queues of buffers must stay mirror images of each other although six    *)
(* threads (writers, flusher, two pollers, thread-pool tasks of both       *)
(* sides) work on them.  The local side also reads remote memory; only     *)
(* one read in BatchReads is signalled, and its completion stands for      *)
(* those before it.                                                        *)
(*                                                                         *)
(* An entry of a notification is one number, the size, which also says     *)
(* what kind of write it was (Encoded, Decoded).                           *)
(*                                                                         *)
(* The queue pair is a reliable connection: work requests of one side      *)
(* take effect in the order they were posted, none is lost.  The assert    *)
(* statements are on (the default build); one that fails ends its process, *)
(* and the connection with it.                                             *)
(***************************************************************************)
EXTENDS Integers, Sequences, FiniteSets, SequencesExt

CONSTANTS
  BuffNum,             \* buffers in a grant (buffnum)
  PackNotifications,   \* writes per notification (packNotifications)
  BatchReads,          \* reads per signalled one (64)
  BatchRelease,        \* remote buffers per release message (128)
  Budgets              \* the writes, reads and disconnects a run makes, and
                       \* the sizes of its writes

ASSUME BuffNumAssumption == BuffNum \in Nat /\ BuffNum >= 5
ASSUME BatchAssumption ==
  /\ PackNotifications \in Nat \ {0}
  /\ BatchReads \in Nat \ {0}
  /\ BatchRelease \in Nat \ {0}

Write ==
  UNION { 1 .. b.write + b.write_silent + b.write_to : b \in Budgets }
Sides == {"local", "remote"}

VARIABLES
  budget,          \* what is left of the run's writes, reads, disconnects
  pend_buffers,    \* remote buffers that may be written
  has_requested_buffers,
  requests,        \* request_buffers_unsafe tasks in the local thread pool
  cnts,            \* the writes since the last notification
  flushing,        \* the holder of write_promises_m is to call flush_write
  writes,          \* number of writes posted so far
  write_promises,  \* one for every write and notification, oldest first
  cq,              \* completions of writes the local poller has not seen
  silent,          \* what the promises of silent writes have published
  wire,            \* posted by the local side, not yet in effect
  back,            \* posted by the remote side, not yet polled
  memory,          \* the write each granted buffer holds, 0 for none
  send_buffers,    \* granted and not yet given to a subscription
  grant_tasks,     \* grants to be made in the remote thread pool
  filled,          \* the grants tasks have made and not yet sent
  drain,           \* the notification the remote poller works on
  sub,             \* what the remote subscription was given
  misread,         \* HISTORY: kind and size of the writes taken for another
  failed           \* an assertion of the code failed

VARIABLES
  reads,           \* reads since the last signalled one
  read_promises,   \* number of reads made so far
  unposted,        \* reads whose promise exists and which are not yet sent
  turn,            \* critical sections of read_promises_m so far
  reordered,       \* HISTORY: a read was sent before an older one
  landed,          \* reads whose data has arrived
  read_cq,         \* read completions the local poller has not seen
  IBV_WC_RDMA_READ_cnt,
  read_tasks,      \* completions handed to the local thread pool
  fulfilled,       \* reads whose promise was published
  released,        \* remote buffers waiting for a full release message
  release_tasks,   \* release messages in the local thread pool
  freed            \* remote buffers given back, in order

VARIABLES
  saidGoodBye,     \* per side
  poller,          \* per side: "run", "bye" (ready2exit), "exit"
  leave,           \* per side: disconnect() is not called, waits, has returned
  unannounced      \* HISTORY: writes not notified when goodbye was said

wvars == <<pend_buffers, has_requested_buffers, requests, cnts, flushing,
           writes, write_promises, cq, silent>>
bvars == <<memory, send_buffers, grant_tasks, filled, drain, sub, misread,
           failed>>
rvars == <<reads, read_promises, unposted, turn, reordered, landed, read_cq,
           IBV_WC_RDMA_READ_cnt, read_tasks, fulfilled, released,
           release_tasks, freed>>
evars == <<saidGoodBye, poller, leave, unannounced>>
vars == <<budget, wire, back, wvars, bvars, rvars, evars>>

Idle == [slot |-> 0, left |-> <<>>]

(* The constructor has asked for buffers, without has_requested_buffers. *)
Init ==
  /\ budget \in Budgets
  /\ pend_buffers = <<>> /\ has_requested_buffers = FALSE /\ requests = 0
  /\ cnts = <<>> /\ flushing = FALSE /\ writes = 0
  /\ write_promises = <<>> /\ cq = <<>> /\ silent = {}
  /\ wire = <<[op |-> "request"]>> /\ back = <<>>
  /\ memory = <<>> /\ send_buffers = <<>>
  /\ grant_tasks = 0 /\ filled = {} /\ drain = Idle /\ sub = <<>>
  /\ misread = {} /\ failed = FALSE
  /\ reads = 0 /\ read_promises = 0 /\ unposted = {} /\ turn = 0
  /\ reordered = FALSE /\ landed = {} /\ read_cq = <<>>
  /\ IBV_WC_RDMA_READ_cnt = 0 /\ read_tasks = {} /\ fulfilled = {}
  /\ released = <<>> /\ release_tasks = {} /\ freed = <<>>
  /\ saidGoodBye = [s \in Sides |-> FALSE]
  /\ poller = [s \in Sides |-> "run"]
  /\ leave = [s \in Sides |-> "no"]
  /\ unannounced = {}

Spend(what) == budget[what] > 0 /\ budget' = [budget EXCEPT ![what] = @ - 1]

---------------------------------------------------------------------------
(* Writing: the local side.                                                *)

Threshold == BuffNum \div 5

(* Variant: nobody asks for the next grant. *)
get_buffer_unasked ==
  /\ pend_buffers # <<>>
  /\ pend_buffers' = Tail(pend_buffers)
  /\ UNCHANGED <<has_requested_buffers, requests>>

(* Takes the oldest buffer, and asks for another grant at the low-water mark.
   A caller that finds none waits (holding write_promises_m). *)
get_buffer ==
  LET ask == Len(pend_buffers) = Threshold /\ ~has_requested_buffers
  IN /\ pend_buffers # <<>>
     /\ has_requested_buffers' = (has_requested_buffers \/ ask)
     /\ requests' = IF ask THEN requests + 1 ELSE requests
     /\ pend_buffers' = Tail(pend_buffers)

request_buffers_unsafe ==
  /\ requests > 0
  /\ requests' = requests - 1
  /\ wire' = Append(wire, [op |-> "request"])
  /\ UNCHANGED <<budget, back, pend_buffers, has_requested_buffers, cnts,
                 flushing, writes, write_promises, cq, silent, bvars, rvars,
                 evars>>

(* What stands for a write in cnts.  The sizes are size_t, written with unary
   minus and read as int64_t; none reaches 2^32 (sge_for_buff), so they are
   integers here. *)
Encoded(kind, bytes) ==
  CASE kind = "write" -> bytes
    [] kind = "write_silent" -> -1
    [] kind = "write_to" -> -bytes

(* What the remote poller takes it for. *)
Decoded(size) ==
  CASE size = -1 -> "write_silent"
    [] size >= 0 -> "write"
    [] OTHER -> "write_to"

(* What write, write_silent and write_to share: the entry of cnts, the
   promise, the RDMA write, and the notification when the pack is full
   (flush_write runs next, under the same lock).  kind and bytes are HISTORY:
   the remote side sees the size only. *)
write_to_int(kind, bytes, buf, promised) ==
  LET w == writes + 1
      entry == [w |-> w, size |-> Encoded(kind, bytes), buf |-> buf,
                kind |-> kind, bytes |-> bytes]
  IN /\ writes' = w
     /\ cnts' = Append(cnts, entry)
     /\ write_promises' = Append(write_promises, promised)
     /\ wire' = Append(wire, [op |-> "write", w |-> w, buf |-> buf])
     /\ flushing' = (Len(cnts') % PackNotifications = 0)
     /\ unannounced' = IF saidGoodBye["local"] THEN unannounced \union {w}
                       ELSE unannounced

(* write, and write_silent, whose promise is the remote buffer. *)
write(kind, bytes) ==
  /\ ~flushing /\ Spend(kind)
  /\ get_buffer
  /\ write_to_int(kind, bytes, Head(pend_buffers),
                  IF kind = "write_silent" THEN Head(pend_buffers) ELSE 0)
  /\ UNCHANGED <<back, cq, silent, bvars, rvars, saidGoodBye, poller, leave>>

(* A write to memory the remote side has registered by itself: buffer 0. *)
write_to(bytes) ==
  /\ ~flushing /\ Spend("write_to")
  /\ write_to_int("write_to", bytes, 0, 0)
  /\ UNCHANGED <<back, pend_buffers, has_requested_buffers, requests, cq,
                 silent, bvars, rvars, saidGoodBye, poller, leave>>

(* Variant: the notification's own promise is forgotten. *)
flush_write_unpromised ==
  /\ cnts # <<>>
  /\ get_buffer
  /\ wire' = Append(wire, [op |-> "notify", buf |-> Head(pend_buffers),
                           entries |-> cnts,
                           imm |-> Len(SelectSeq(cnts, LAMBDA e : e.buf # 0))])
  /\ cnts' = <<>> /\ flushing' = FALSE
  /\ UNCHANGED <<budget, back, writes, write_promises, cq, silent, bvars,
                 rvars, evars>>

(* The notification takes a buffer of its own for the sizes, and tells the
   remote side at which position it will find it: after the actual_writes
   buffers of the writes it announces.  Called for a full pack, by the
   flusher every 10 ms, and by whoever calls flush(). *)
flush_write ==
  /\ cnts # <<>>
  /\ get_buffer
  /\ wire' = Append(wire, [op |-> "notify", buf |-> Head(pend_buffers),
                           entries |-> cnts,
                           imm |-> Len(SelectSeq(cnts, LAMBDA e : e.buf # 0))])
  /\ write_promises' = Append(write_promises, 0)
  /\ cnts' = <<>> /\ flushing' = FALSE
  /\ UNCHANGED <<budget, back, writes, cq, silent, bvars, rvars, evars>>

(* The card performs a write: the data is in the remote buffer, and the local
   side gets a completion. *)
land_write ==
  LET m == Head(wire)
  IN /\ wire # <<>> /\ m.op = "write"
     /\ memory' = IF m.buf = 0 THEN memory ELSE [memory EXCEPT ![m.buf] = m.w]
     /\ cq' = Append(cq, m.w)
     /\ wire' = Tail(wire)
     /\ UNCHANGED <<budget, back, pend_buffers, has_requested_buffers, requests,
                    cnts, flushing, writes, write_promises, silent,
                    send_buffers, grant_tasks, filled, drain, sub, misread,
                    failed, rvars, evars>>

(* The local poller takes a completion, and the oldest promise with it. *)
complete_write ==
  /\ poller["local"] # "exit" /\ cq # <<>>
  /\ failed' = (failed \/ write_promises = <<>>)
  /\ IF write_promises = <<>> THEN UNCHANGED <<write_promises, silent>>
     ELSE /\ write_promises' = Tail(write_promises)
          /\ silent' = IF Head(write_promises) = 0 THEN silent
                       ELSE silent \union {[w |-> Head(cq), buf |-> Head(write_promises)]}
  /\ cq' = Tail(cq)
  /\ UNCHANGED <<budget, wire, back, pend_buffers, has_requested_buffers,
                 requests, cnts, flushing, writes, memory, send_buffers,
                 grant_tasks, filled, drain, sub, misread, rvars, evars>>

---------------------------------------------------------------------------
(* Writing: the remote side.                                               *)

RemoteGets(op) ==
  /\ poller["remote"] # "exit" /\ drain = Idle
  /\ wire # <<>> /\ Head(wire).op = op
  /\ wire' = Tail(wire)

recv_request ==
  /\ RemoteGets("request")
  /\ grant_tasks' = grant_tasks + 1
  /\ UNCHANGED <<budget, back, wvars, memory, send_buffers, filled, drain, sub,
                 misread, failed, rvars, evars>>

(* The task behind a request: BuffNum new buffers, under buffmgmnt. *)
grant ==
  LET new == [i \in 1 .. BuffNum |-> Len(memory) + i]
  IN /\ grant_tasks > 0 /\ drain = Idle
     /\ grant_tasks' = grant_tasks - 1
     /\ memory' = memory \o [i \in 1 .. BuffNum |-> 0]
     /\ send_buffers' = send_buffers \o new
     /\ filled' = filled \union {new}
     /\ UNCHANGED <<budget, wire, back, wvars, drain, sub, misread, failed,
                    rvars, evars>>

(* ... which it sends after it has let go of the lock. *)
send_grant ==
  \E g \in filled :
    /\ filled' = filled \ {g}
    /\ back' = Append(back, [op |-> "grant", bufs |-> g])
    /\ UNCHANGED <<budget, wire, wvars, memory, send_buffers, grant_tasks, drain,
                   sub, misread, failed, rvars, evars>>

recv_grant ==
  /\ poller["local"] # "exit"
  /\ back # <<>> /\ Head(back).op = "grant"
  /\ pend_buffers' = pend_buffers \o Head(back).bufs
  /\ has_requested_buffers' = FALSE
  /\ back' = Tail(back)
  /\ UNCHANGED <<budget, wire, requests, cnts, flushing, writes, write_promises,
                 cq, silent, bvars, rvars, evars>>

(* A notification: the sizes are where imm says, counted from the oldest
   buffer.  Another buffer's content would be read as sizes otherwise. *)
recv_notify ==
  LET m == Head(wire)
      here == m.imm + 1 <= Len(send_buffers) /\ send_buffers[m.imm + 1] = m.buf
  IN /\ RemoteGets("notify")
     /\ failed' = (failed \/ ~here)
     /\ drain' = IF here THEN [slot |-> m.buf, left |-> m.entries] ELSE Idle
     /\ cq' = Append(cq, 0)
     /\ UNCHANGED <<budget, back, pend_buffers, has_requested_buffers, requests,
                    cnts, flushing, writes, write_promises, silent, memory,
                    send_buffers, grant_tasks, filled, sub, misread, rvars, evars>>

(* Variant: the buffer of a silent write stays at the front. *)
publish_keeps_silent ==
  LET e == Head(drain.left)
      kind == Decoded(e.size)
  IN /\ drain.left # <<>>
     /\ drain' = [drain EXCEPT !.left = Tail(@)]
     /\ misread' = IF kind = e.kind THEN misread
                   ELSE misread \union {<<e.kind, e.bytes>>}
     /\ IF kind # "write"
        THEN /\ sub' = IF kind = "write_silent" THEN sub ELSE Append(sub, e.w)
             /\ UNCHANGED <<send_buffers, failed>>
        ELSE /\ failed' = (send_buffers = <<>>)
             /\ send_buffers' = Tail(send_buffers)
             /\ sub' = Append(sub, memory[Head(send_buffers)])
     /\ UNCHANGED <<budget, wire, back, wvars, memory, grant_tasks, filled,
                    rvars, evars>>

(* What the subscription gets with the front buffer: the write it holds, or
   nothing (0) when it is the buffer of the sizes, which was released. *)
FrontData ==
  IF Head(send_buffers) = drain.slot THEN 0 ELSE memory[Head(send_buffers)]

(* One round of the loop over the sizes: a write's buffer goes to the
   subscription, a silent one's is dropped, a write_to is only announced. *)
publish ==
  LET e == Head(drain.left)
      kind == Decoded(e.size)
  IN /\ drain.left # <<>>
     /\ drain' = [drain EXCEPT !.left = Tail(@)]
     /\ misread' = IF kind = e.kind THEN misread
                   ELSE misread \union {<<e.kind, e.bytes>>}
     /\ IF kind = "write_to"
        THEN sub' = Append(sub, e.w) /\ UNCHANGED <<send_buffers, failed>>
        ELSE /\ failed' = (send_buffers = <<>>)
             /\ send_buffers' = IF send_buffers = <<>> THEN <<>> ELSE Tail(send_buffers)
             /\ sub' = IF kind = "write_silent" \/ send_buffers = <<>> THEN sub
                       ELSE Append(sub, FrontData)
     /\ UNCHANGED <<budget, wire, back, wvars, memory, grant_tasks, filled,
                    rvars, evars>>

(* The end of the loop: the buffer of the sizes is at the front now. *)
publish_end ==
  /\ drain # Idle /\ drain.left = <<>>
  /\ failed' = (failed \/ send_buffers = <<>> \/ Head(send_buffers) # drain.slot)
  /\ send_buffers' = IF send_buffers = <<>> THEN <<>> ELSE Tail(send_buffers)
  /\ drain' = Idle
  /\ UNCHANGED <<budget, wire, back, wvars, memory, grant_tasks, filled, sub,
                 misread, rvars, evars>>

---------------------------------------------------------------------------
(* Reading.                                                                *)

(* Under read_promises_m: the number of the read decides whether it is
   signalled (cnt # 0), and how many promises its completion stands for. *)
read ==
  LET rid == reads + 1
      signalled == rid % BatchReads = 0
  IN /\ Spend("reads")
     /\ reads' = IF signalled THEN 0 ELSE rid
     /\ read_promises' = read_promises + 1
     /\ turn' = turn + 1
     /\ unposted' = unposted \union
          {[turn |-> turn', r |-> read_promises', signalled |-> signalled, cnt |-> rid]}
     /\ UNCHANGED <<wire, back, wvars, bvars, reordered, landed, read_cq,
                    IBV_WC_RDMA_READ_cnt, read_tasks, fulfilled, released,
                    release_tasks, freed, evars>>

(* An empty signalled read for the reads since the last signalled one.  (A
   second caller that passed the check on reads sends one that stands for
   none: its completion publishes nothing.) *)
flush_read ==
  /\ reads # 0
  /\ reads' = 0
  /\ turn' = turn + 1
  /\ unposted' = unposted \union
       {[turn |-> turn', r |-> 0, signalled |-> TRUE, cnt |-> reads]}
  /\ UNCHANGED <<budget, wire, back, wvars, bvars, read_promises, reordered,
                 landed, read_cq, IBV_WC_RDMA_READ_cnt, read_tasks, fulfilled,
                 released, release_tasks, freed, evars>>

(* The work request is sent outside the lock. *)
send ==
  \E p \in unposted :
    /\ unposted' = unposted \ {p}
    /\ reordered' = (reordered \/ \E q \in unposted : q.turn < p.turn)
    /\ wire' = Append(wire, [op |-> "read", r |-> p.r,
                             signalled |-> p.signalled, cnt |-> p.cnt])
    /\ UNCHANGED <<budget, back, wvars, bvars, reads, read_promises, turn, landed,
                   read_cq, IBV_WC_RDMA_READ_cnt, read_tasks, fulfilled, released,
                   release_tasks, freed, evars>>

land_read ==
  LET m == Head(wire)
  IN /\ wire # <<>> /\ m.op = "read"
     /\ wire' = Tail(wire)
     /\ landed' = landed \union ({m.r} \ {0})
     /\ read_cq' = IF m.signalled THEN Append(read_cq, m.cnt) ELSE read_cq
     /\ UNCHANGED <<budget, back, wvars, bvars, reads, read_promises, unposted,
                    turn, reordered, IBV_WC_RDMA_READ_cnt, read_tasks, fulfilled,
                    released, release_tasks, freed, evars>>

(* Variant: a completion is counted after its task has been made. *)
complete_read_from_end ==
  /\ poller["local"] # "exit" /\ read_cq # <<>>
  /\ IBV_WC_RDMA_READ_cnt' = IBV_WC_RDMA_READ_cnt + Head(read_cq)
  /\ read_tasks' = read_tasks \union
       {[next |-> IBV_WC_RDMA_READ_cnt' + 1,
         last |-> IBV_WC_RDMA_READ_cnt' + Head(read_cq)]}
  /\ read_cq' = Tail(read_cq)
  /\ UNCHANGED <<budget, wire, back, wvars, bvars, reads, read_promises, unposted,
                 turn, reordered, landed, fulfilled, released, release_tasks,
                 freed, evars>>

(* The local poller: the completion stands for the next cnt promises, which a
   thread-pool task publishes. *)
complete_read ==
  /\ poller["local"] # "exit" /\ read_cq # <<>>
  /\ IBV_WC_RDMA_READ_cnt' = IBV_WC_RDMA_READ_cnt + Head(read_cq)
  /\ read_tasks' = read_tasks \union
       {[next |-> IBV_WC_RDMA_READ_cnt + 1, last |-> IBV_WC_RDMA_READ_cnt']}
  /\ read_cq' = Tail(read_cq)
  /\ UNCHANGED <<budget, wire, back, wvars, bvars, reads, read_promises, unposted,
                 turn, reordered, landed, fulfilled, released, release_tasks,
                 freed, evars>>

(* The remote buffer that was read is given back, BatchRelease at a time. *)
release_buffer(r) ==
  LET full == Len(released) + 1 = BatchRelease
      all == Append(released, r)
  IN /\ released' = IF full THEN <<>> ELSE all
     /\ release_tasks' = IF full THEN release_tasks \union {all} ELSE release_tasks

(* One round of the task's loop. *)
publish_read ==
  \E t \in read_tasks :
    /\ fulfilled' = fulfilled \union {t.next}
    /\ release_buffer(t.next)
    /\ read_tasks' = (read_tasks \ {t}) \union
         (IF t.next = t.last THEN {} ELSE {[t EXCEPT !.next = @ + 1]})
    /\ UNCHANGED <<budget, wire, back, wvars, bvars, reads, read_promises, unposted,
                   turn, reordered, landed, read_cq, IBV_WC_RDMA_READ_cnt, freed,
                   evars>>

send_release ==
  \E b \in release_tasks :
    /\ release_tasks' = release_tasks \ {b}
    /\ wire' = Append(wire, [op |-> "release", bufs |-> b])
    /\ UNCHANGED <<budget, back, wvars, bvars, reads, read_promises, unposted, turn,
                   reordered, landed, read_cq, IBV_WC_RDMA_READ_cnt, read_tasks,
                   fulfilled, released, freed, evars>>

recv_release ==
  /\ RemoteGets("release")
  /\ freed' = freed \o Head(wire).bufs
  /\ UNCHANGED <<budget, back, wvars, bvars, reads, read_promises, unposted, turn,
                 reordered, landed, read_cq, IBV_WC_RDMA_READ_cnt, read_tasks,
                 fulfilled, released, release_tasks, evars>>

---------------------------------------------------------------------------
(* Disconnecting.                                                          *)

(* saidGoodBye stops the flusher: what is not notified now need not be. *)
Unnotified == unannounced \union { cnts[i].w : i \in DOMAIN cnts }

(* sendGoodBye, the first half of disconnect(), which is called once
   (disconnectAll). *)
disconnect(s) ==
  /\ Spend("disconnects") /\ leave[s] = "no"
  /\ saidGoodBye' = [saidGoodBye EXCEPT ![s] = TRUE]
  /\ leave' = [leave EXCEPT ![s] = "waits"]
  /\ IF s = "local"
     THEN /\ wire' = Append(wire, [op |-> "bye"])
          /\ unannounced' = Unnotified
          /\ UNCHANGED back
     ELSE /\ back' = Append(back, [op |-> "bye"])
          /\ UNCHANGED <<wire, unannounced>>
  /\ UNCHANGED <<wvars, bvars, rvars, poller>>

(* The poller has published the other side's goodbye to the subscription. *)
HasGoodBye(s) == poller[s] # "run"

(* Its second half, sub.wait(): any entry of the side's own subscription will
   do, a write that nobody has taken as well as the other side's goodbye. *)
disconnected(s) ==
  /\ leave[s] = "waits"
  /\ HasGoodBye(s) \/ (s = "remote" /\ sub # <<>>)
  /\ leave' = [leave EXCEPT ![s] = "returned"]
  /\ UNCHANGED <<budget, wire, back, wvars, bvars, rvars, saidGoodBye, poller,
                 unannounced>>

(* A poller that gets the goodbye answers it unless its own side has said it. *)
recv_bye_remote ==
  /\ RemoteGets("bye")
  /\ poller' = [poller EXCEPT !["remote"] = "bye"]
  /\ saidGoodBye' = [saidGoodBye EXCEPT !["remote"] = TRUE]
  /\ back' = IF saidGoodBye["remote"] THEN back ELSE Append(back, [op |-> "bye"])
  /\ UNCHANGED <<budget, wvars, bvars, rvars, leave, unannounced>>

recv_bye_local ==
  /\ poller["local"] # "exit"
  /\ back # <<>> /\ Head(back).op = "bye"
  /\ back' = Tail(back)
  /\ poller' = [poller EXCEPT !["local"] = "bye"]
  /\ saidGoodBye' = [saidGoodBye EXCEPT !["local"] = TRUE]
  /\ IF saidGoodBye["local"] THEN UNCHANGED <<wire, unannounced>>
     ELSE wire' = Append(wire, [op |-> "bye"]) /\ unannounced' = Unnotified
  /\ UNCHANGED <<budget, wvars, bvars, rvars, leave>>

(* After a goodbye the poller leaves as soon as it finds no completion; what
   is still on its way is then never seen. *)
poller_exit(s) ==
  /\ poller[s] = "bye"
  /\ (s = "remote") => (drain = Idle)
  /\ poller' = [poller EXCEPT ![s] = "exit"]
  /\ UNCHANGED <<budget, wire, back, wvars, bvars, rvars, saidGoodBye, leave,
                 unannounced>>

---------------------------------------------------------------------------
LocalPoller == complete_write \/ complete_read \/ recv_grant \/ recv_bye_local

RemotePoller ==
  \/ recv_request \/ recv_notify \/ publish \/ publish_end
  \/ recv_release \/ recv_bye_remote

Tasks ==
  \/ request_buffers_unsafe \/ grant \/ send_grant
  \/ publish_read \/ send_release

Next ==
  /\ ~failed
  /\ \/ \E bytes \in budget.sizes :
          \/ \E kind \in {"write", "write_silent"} : write(kind, bytes)
          \/ write_to(bytes)
     \/ flush_write
     \/ read \/ flush_read \/ send
     \/ land_write \/ land_read
     \/ Tasks \/ LocalPoller \/ RemotePoller
     \/ \E s \in Sides : disconnect(s) \/ disconnected(s) \/ poller_exit(s)

Spec == Init /\ [][Next]_vars

(* The pollers spin, the card performs what was posted, thread-pool tasks run,
   a thread that has made its promise sends the read, a writer whose pack is
   full flushes it, the flusher comes by every 10 ms until goodbye is said, and
   sub.wait() finds the goodbye.  Nobody need write, read or disconnect, and a
   write the application takes ends no wait.  (The work of a run is finite, so
   it is enough that one of these goes on as long as any of them can.) *)
Fairness ==
  WF_vars(/\ ~failed
          /\ \/ LocalPoller \/ RemotePoller \/ Tasks
             \/ land_write \/ land_read \/ send
             \/ flush_write /\ (flushing \/ ~saidGoodBye["local"])
             \/ flush_read /\ ~saidGoodBye["local"]
             \/ \E s \in Sides : disconnected(s) /\ HasGoodBye(s))

FairSpec == Spec /\ Fairness

---------------------------------------------------------------------------
Buffer == 1 .. Len(memory)

(* Types, and the bounds of the batches: at most one request for buffers is under
   way, and no batch of counts, reads or releases grows past its size. *)
TypeOK ==
  /\ pend_buffers \in Seq(Buffer) /\ send_buffers \in Seq(Buffer)
  /\ has_requested_buffers \in BOOLEAN /\ flushing \in BOOLEAN
  /\ requests \in 0 .. 1 /\ grant_tasks \in 0 .. 1
  /\ Len(cnts) <= PackNotifications
  /\ \A i \in DOMAIN memory : memory[i] \in 0 .. writes
  /\ write_promises \in Seq({0} \union Buffer)
  /\ reads \in 0 .. BatchReads - 1
  /\ Len(released) < BatchRelease
  /\ IBV_WC_RDMA_READ_cnt \in 0 .. read_promises
  /\ poller \in [Sides -> {"run", "bye", "exit"}]
  /\ leave \in [Sides -> {"no", "waits", "returned"}]

(* The buffers a sequence of announced writes has taken, in order. *)
Taken(entries) ==
  LET own == SelectSeq(entries, LAMBDA e : e.buf # 0)
  IN [i \in DOMAIN own |-> own[i].buf]

Notices == SelectSeq(wire, LAMBDA m : m.op = "notify")

Grants == SelectSeq(back, LAMBDA m : m.op = "grant")

(* The remote side finds a write's data by its position in send_buffers only
   (infiniband-handler.cpp:365-395).  That queue is at every moment what the
   local side has used and will use, in the same order: the notification being
   worked on, those on their way, the writes not yet notified, the free
   buffers, and the grant on its way.  No lock spans the two sides. *)
BuffersMirror ==
  LET working == IF drain = Idle THEN <<>> ELSE Taken(drain.left) \o <<drain.slot>>
      noticed == FoldLeft(LAMBDA acc, m : acc \o Taken(m.entries) \o <<m.buf>>,
                          <<>>, Notices)
      granted == FoldLeft(LAMBDA acc, m : acc \o m.bufs, <<>>, Grants)
      sending == IF filled = {} THEN <<>> ELSE CHOOSE g \in filled : TRUE
  IN /\ ~failed
     /\ send_buffers = working \o noticed \o Taken(cnts) \o pend_buffers
                         \o granted \o sending

(* The promise of a silent write, popped by position as well, yields the remote
   buffer that holds its data: promises and completions stay in step although
   notifications, which nobody waits for, take promises too. *)
SilentPointersRight == \A p \in silent : memory[p.buf] = p.w

(* The remote side takes every write for what it was, but for one: the size of
   a write_to of no byte is that of a write, and of one byte that of a silent
   write (infiniband-handler.cpp:549 against 371 and 378).  That write takes a
   buffer which is not its own, and the assertion behind the loop notices. *)
KindsRight ==
  /\ misread \subseteq {"write_to"} \X {0, 1}
  /\ (misread # {} /\ drain = Idle) => failed

(* A promise is published, and the remote buffer given back, only when the data
   of the read has arrived - unless a thread sent its read after a younger one
   (the race the FIXME in read() speaks of). *)
ReadsArrived ==
  reordered \/ (fulfilled \union ToSet(freed)) \subseteq landed

(* A remote buffer is given back once. *)
FreedOnce == IsInjective(freed)

(* The writes on their way to the remote subscription, oldest first. *)
Announced(entries) ==
  LET loud == SelectSeq(entries, LAMBDA e : e.kind # "write_silent")
  IN [i \in DOMAIN loud |-> loud[i].w]

InTransit ==
  Announced(drain.left)
    \o FoldLeft(LAMBDA acc, m : acc \o Announced(m.entries), <<>>, Notices)
    \o Announced(cnts)

Channel == INSTANCE FifoChannel WITH
  Item <- Write, transit <- InTransit, got <- sub, state <- "open", eof <- FALSE

(* The connection is a FIFO channel: the subscription gets the data of every
   write once, in the order of the writes, each with its own data - up to the
   first write_to whose size is taken for another kind of write (KindsRight). *)
IsFifoChannel ==
  Channel!Init /\ [][Channel!Next \/ misread' # {}]_(Channel!vars)

Undelivered == ToSet(InTransit) \ unannounced

(* Whatever was notified before goodbye was said, and everything if it never
   is, reaches the subscription: no writer waits for buffers forever, no pack
   stays unnotified, and goodbye does not overtake a notification. *)
EveryWriteArrives ==
  (Undelivered # {}) ~> (Undelivered = {} \/ misread # {})

(* Every read is answered, unless goodbye stops the flusher first. *)
EveryReadAnswered ==
  (fulfilled # 1 .. read_promises)
    ~> (fulfilled = 1 .. read_promises \/ saidGoodBye["local"] \/ misread # {})

(* disconnect() returns: goodbye is answered, also when both sides say it. *)
DisconnectReturns ==
  \A s \in Sides :
    (leave[s] = "waits") ~> (leave[s] = "returned" \/ misread # {})

(* The invariant of the connection: types, and whatever is found by its
   position only (promises by the poller, buffers by the receiver) is right, the
   latter up to the first write_to of less than two bytes. *)
PositionsRight ==
  /\ TypeOK /\ SilentPointersRight /\ KindsRight
  /\ misread = {} => BuffersMirror

(* Reads are completed, and their buffers given back, when the data is there,
   and once. *)
ReadsSound == ReadsArrived /\ FreedOnce

(* The connection makes progress: writes arrive, reads are answered, and
   disconnect() returns. *)
ConnectionProgresses ==
  EveryWriteArrives /\ EveryReadAnswered /\ DisconnectReturns
=============================================================================
