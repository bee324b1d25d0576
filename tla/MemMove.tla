------------------------------ MODULE MemMove ------------------------------
(***************************************************************************)
(* MemMoveDevice, the operator that moves blocks to the device its         *)
(* consumers run on, between two threads.  The pipeline's thread takes an  *)
(* idle work unit for every block, starts the transfer of its fields and   *)
(* puts the unit in the queue tran; the catcher takes units from there,    *)
(* waits for the transfer and hands the block on.  A field comes            *)
(*   - from memory: left where it is, copied at once between sockets, or   *)
(*     copied to or from a GPU on the operator's stream, ended by an event;*)
(*   - from NVMe to a GPU: read at once, perhaps decompressed on the       *)
(*     unit's own stream;                                                  *)
(*   - from NVMe to a CPU: a request of the io_uring (IoUring), whose      *)
(*     callback counts the unit's complete down.                           *)
(* The ring has no thread: completions are seen only when the pipeline's   *)
(* thread polls, in read, in propagate and in close.                       *)
(*                                                                         *)
(* The queues idle and tran are AsyncQueueSPSC, used here as what          *)
(* AsyncQueue shows them to be: FIFO channels.                             *)
(***************************************************************************)
EXTENDS IoUring

CONSTANTS
  Slack,      \* work units
  FieldCount, \* wantedFields.size()
  MaxBlocks   \* bound: blocks moved

ASSUME MemMoveAssumption ==
  /\ Slack \in Nat \ {0}
  /\ FieldCount \in Nat \ {0}
  /\ MaxBlocks \in Nat

Units == 1 .. Slack
Fields == 1 .. FieldCount
NoUnit == 0

VARIABLES
  kind,      \* "ram": no NVMe relation; "gpu", "cpu": NVMe, and the target
  prod,      \* where the pipeline's thread is
  after,     \* where it goes when poll returns
  wu,        \* the work unit in its hands
  field,     \* wu->index_in_wu, from 1
  paged,     \* the block's pointers are page ids
  blocks,    \* blocks it has begun to move
  idle,      \* MemMoveConf::idle
  tran,      \* MemMoveConf::tran
  data,      \* the block in each work unit
  complete,  \* workunit::complete
  arrived,   \* fields of the unit's block that are in place
  strm,      \* MemMoveConf::strm: copies and events, oldest first
  decomp,    \* workunit::cufile_strm: fields still to be decompressed
  catch,     \* where the catcher is
  unit,      \* the work unit in its hands
  consumed,  \* the blocks it has handed on
  unsynced,  \* HISTORY: fields copied on strm although the relation is on NVMe
  cut        \* HISTORY: fields read with fewer bytes, or badly decompressed

prodVars == <<prod, after, wu, field, paged, blocks>>
catchVars == <<catch, unit, consumed>>
vars == <<ringVars, failed, kind, prodVars, idle, tran, data, complete, arrived,
          strm, decomp, catchVars, unsynced, cut>>

ring == kind = "cpu"

Init ==
  /\ RingInit /\ failed = "no"
  /\ kind \in {"ram", "gpu", "cpu"}
  /\ prod = "run" /\ after = "run" /\ wu = NoUnit /\ field = 1 /\ paged = FALSE /\ blocks = 0
  /\ idle = [u \in Units |-> u]
  /\ tran = <<>>
  /\ data = [u \in Units |-> 0]
  /\ complete = [u \in Units |-> 0]
  /\ arrived = [u \in Units |-> {}]
  /\ strm = <<>>
  /\ decomp = [u \in Units |-> {}]
  /\ catch = "get" /\ unit = NoUnit /\ consumed = <<>>
  /\ unsynced = [u \in Units |-> {}] /\ cut = [u \in Units |-> {}]

-----------------------------------------------------------------------------
(* The pipeline's thread: a block arrives. *)
consume_block ==
  /\ prod = "run" /\ blocks < MaxBlocks
  /\ prod' = "acquire"
  /\ blocks' = blocks + 1
  /\ paged' \in (IF kind = "ram" THEN {FALSE} ELSE BOOLEAN)
  /\ UNCHANGED <<ringVars, failed, kind, after, wu, field, idle, tran, data, complete,
                 arrived, strm, decomp, catchVars, unsynced, cut>>

(* acquire, and the head of make_mem_move_device. *)
acquire ==
  /\ prod = "acquire" /\ idle # <<>>
  /\ wu' = Head(idle)
  /\ idle' = Tail(idle)
  /\ complete' = [complete EXCEPT ![Head(idle)] = 0]
  /\ field' = 1
  /\ arrived' = [arrived EXCEPT ![Head(idle)] = {}]
  /\ data' = [data EXCEPT ![Head(idle)] = blocks]
  /\ prod' = "push"
  /\ UNCHANGED <<ringVars, failed, kind, after, paged, blocks, tran, strm, decomp,
                 catchVars, unsynced, cut>>

(* force_push_from_nvme to a CPU: the request is counted, then made. *)
push_ring ==
  /\ prod = "push" /\ field <= FieldCount /\ paged /\ ring
  /\ complete' = [complete EXCEPT ![wu] = @ + 1]
  /\ prod' = "read"
  /\ UNCHANGED <<ringVars, failed, kind, after, wu, field, paged, blocks, idle, tran, data,
                 arrived, strm, decomp, catchVars, unsynced, cut>>

(* ... to a GPU: cuFileRead returns with the data, which may be compressed (and
   is then decompressed with the unit's other fields, submit_fields).  The CHECK
   lets a read with fewer bytes pass. *)
push_gpu(res) ==
  /\ prod = "push" /\ field <= FieldCount /\ paged /\ kind = "gpu"
  /\ failed' = IF res = "error" THEN "io" ELSE failed
  /\ \/ /\ arrived' = [arrived EXCEPT ![wu] = IF res = "all" THEN @ \cup {field} ELSE @]
        /\ UNCHANGED decomp
     \/ /\ decomp' = [decomp EXCEPT ![wu] = @ \cup {field}]
        /\ UNCHANGED arrived
  /\ cut' = [cut EXCEPT ![wu] = IF res = "short" THEN @ \cup {field} ELSE @]
  /\ field' = field + 1
  /\ UNCHANGED <<ringVars, kind, prod, after, wu, paged, blocks, idle, tran, data,
                 complete, strm, catchVars, unsynced>>

(* push of memory: it stays where it is, ... *)
push_memory ==
  /\ prod = "push" /\ field <= FieldCount /\ ~paged
  /\ arrived' = [arrived EXCEPT ![wu] = @ \cup {field}]
  /\ field' = field + 1
  /\ UNCHANGED <<ringVars, failed, kind, prod, after, wu, paged, blocks, idle, tran, data,
                 complete, strm, decomp, catchVars, unsynced, cut>>

(* ... force_push copies it from one socket to another, after the stream, ... *)
push_memcpy == strm = <<>> /\ kind # "gpu" /\ push_memory

(* ... or starts a copy to or from a GPU on the stream. *)
push_async ==
  /\ prod = "push" /\ field <= FieldCount /\ ~paged
  /\ strm' = Append(strm, <<wu, field, blocks>>)
  /\ unsynced' = [unsynced EXCEPT ![wu] = IF kind = "ram" THEN @ ELSE @ \cup {field}]
  /\ field' = field + 1
  /\ UNCHANGED <<ringVars, failed, kind, prod, after, wu, paged, blocks, idle, tran, data,
                 complete, arrived, decomp, catchVars, cut>>

(* IoUringThreadUnsafe::read with a free IoInfo ... *)
read_field ==
  /\ prod = "read"
  /\ read(<<wu, field>>)
  /\ field' = field + 1
  /\ prod' = "push"
  /\ UNCHANGED <<failed, kind, after, wu, paged, blocks, idle, tran, data, complete,
                 arrived, strm, decomp, catchVars, unsynced, cut>>

(* ... and without: submit and poll (poll_until_requests_can_be_made). *)
read_full ==
  /\ prod = "read" /\ free = <<>>
  /\ submit
  /\ prod' = "poll" /\ after' = "read"
  /\ UNCHANGED <<kind, wu, field, paged, blocks, idle, tran, data, complete, arrived, strm,
                 decomp, catchVars, unsynced, cut>>

(* The batch decompression is not accepted by the GPU (CHECK_GE). *)
decompress_refused ==
  /\ prod = "push" /\ field > FieldCount /\ decomp[wu] # {}
  /\ failed' = "io"
  /\ UNCHANGED <<ringVars, kind, prodVars, idle, tran, data, complete, arrived, strm,
                 decomp, catchVars, unsynced, cut>>

(* The end of make_mem_move_device. *)
submit_fields ==
  /\ prod = "push" /\ field > FieldCount
  /\ IF ring THEN submit ELSE UNCHANGED <<ringVars, failed>>
  /\ prod' = "propagate"
  /\ UNCHANGED <<kind, after, wu, field, paged, blocks, idle, tran, data, complete, arrived,
                 strm, decomp, catchVars, unsynced, cut>>

(* Variant: the newest unit is caught first. *)
propagate_front ==
  /\ prod = "propagate"
  /\ strm' = Append(strm, <<wu, 0, blocks>>)
  /\ tran' = <<wu>> \o tran
  /\ wu' = NoUnit
  /\ prod' = (IF ring THEN "poll" ELSE "run") /\ after' = (IF ring THEN "spin" ELSE after)
  /\ UNCHANGED <<ringVars, failed, kind, field, paged, blocks, idle, data, complete, arrived,
                 decomp, catchVars, unsynced, cut>>

(* propagate: the event <<u, 0, b>> behind the copies, the unit to the catcher,
   and with a ring a first poll. *)
propagate ==
  /\ prod = "propagate"
  /\ strm' = Append(strm, <<wu, 0, blocks>>)
  /\ tran' = Append(tran, wu)
  /\ wu' = NoUnit
  /\ prod' = (IF ring THEN "poll" ELSE "run") /\ after' = (IF ring THEN "spin" ELSE after)
  /\ UNCHANGED <<ringVars, failed, kind, field, paged, blocks, idle, data, complete, arrived,
                 decomp, catchVars, unsynced, cut>>

(* ... and more until the catcher has released a unit. *)
spin ==
  /\ prod = "spin"
  /\ prod' = (IF idle = <<>> THEN "poll" ELSE "run")
  /\ after' = (IF idle = <<>> THEN "spin" ELSE after)
  /\ UNCHANGED <<ringVars, failed, kind, wu, field, paged, blocks, idle, tran, data,
                 complete, arrived, strm, decomp, catchVars, unsynced, cut>>

-----------------------------------------------------------------------------
(* IoUringThreadUnsafe::poll finds a completion with all bytes, with fewer, or
   an error.  The callback decompresses what is compressed, counts the unit down
   and, at zero, notifies the catcher, without the unit's lock.  A failed request
   ends the process, a failed decompression as well, and a request that was cut
   short counts as complete. *)
poll_reap(res) ==
  /\ prod = "poll"
  /\ reap
  /\ LET u == call_back[Head(cq)][1]
         f == call_back[Head(cq)][2]
     IN  /\ complete' = [complete EXCEPT ![u] = @ - 1]
         /\ arrived' = [arrived EXCEPT ![u] = IF res = "all" THEN @ \cup {f} ELSE @]
         /\ cut' = [cut EXCEPT ![u] = IF res = "short" THEN @ \cup {f} ELSE @]
         /\ catch' = IF catch = "waiting" /\ unit = u /\ complete[u] = 1 THEN "check" ELSE catch
         /\ failed' \in (IF res = "error" THEN {} ELSE {failed}) \cup {"io"}
  /\ UNCHANGED <<kind, prod, after, wu, field, paged, blocks, idle, tran, data, strm, decomp, unit,
                 consumed, unsynced>>

(* Waiting for or fetching completions fails (a CHECK). *)
poll_failed ==
  /\ prod = "poll"
  /\ failed' = "io"
  /\ UNCHANGED <<ringVars, kind, prodVars, idle, tran, data, complete, arrived, strm,
                 decomp, catchVars, unsynced, cut>>

(* Nothing was completed for 10 ms, or nothing more is. *)
poll_return ==
  /\ prod = "poll" /\ cq = <<>>
  /\ prod' = after /\ after' = "run"
  /\ UNCHANGED <<ringVars, failed, kind, wu, field, paged, blocks, idle, tran, data,
                 complete, arrived, strm, decomp, catchVars, unsynced, cut>>

-----------------------------------------------------------------------------
(* close: with a ring, submit and poll until every request has completed, ... *)
close ==
  /\ prod = "run"
  /\ IF ring THEN submit /\ prod' = "flush"
             ELSE UNCHANGED <<ringVars, failed>> /\ prod' = "close"
  /\ UNCHANGED <<kind, after, wu, field, paged, blocks, idle, tran, data, complete, arrived,
                 strm, decomp, catchVars, unsynced, cut>>

flush ==
  /\ prod = "flush"
  /\ prod' = (IF Outstanding THEN "poll" ELSE "close")
  /\ after' = (IF Outstanding THEN "flush" ELSE after)
  /\ UNCHANGED <<ringVars, failed, kind, wu, field, paged, blocks, idle, tran, data,
                 complete, arrived, strm, decomp, catchVars, unsynced, cut>>

(* ... close tran, which returns when the catcher has taken all of it, ... *)
tran_close ==
  /\ prod = "close"
  /\ prod' = "closing"
  /\ UNCHANGED <<ringVars, failed, kind, after, wu, field, paged, blocks, idle, tran, data,
                 complete, arrived, strm, decomp, catchVars, unsynced, cut>>

tran_closed ==
  /\ prod = "closing" /\ tran = <<>>
  /\ prod' = "join"
  /\ UNCHANGED <<ringVars, failed, kind, after, wu, field, paged, blocks, idle, tran, data,
                 complete, arrived, strm, decomp, catchVars, unsynced, cut>>

(* ... wait for the catcher and for the stream, ... *)
join ==
  /\ prod = "join" /\ catch = "done" /\ strm = <<>>
  /\ prod' = "drain"
  /\ UNCHANGED <<ringVars, failed, kind, after, wu, field, paged, blocks, idle, tran, data,
                 complete, arrived, strm, decomp, catchVars, unsynced, cut>>

(* ... take Slack units back with pop_unsafe, which is undefined for an empty
   queue, and wait for their streams, ... *)
drain ==
  /\ prod = "drain" /\ \A u \in Units : decomp[u] = {}
  /\ failed' = IF Len(idle) < Slack THEN "check" ELSE failed
  /\ idle' = <<>>
  /\ prod' = "drained"
  /\ UNCHANGED <<ringVars, kind, after, wu, field, paged, blocks, tran, data, complete, arrived,
                 strm, decomp, catchVars, unsynced, cut>>

(* ... and destroy the ring, which submits and polls once more. *)
destroy_submit ==
  /\ prod = "drained"
  /\ IF ring THEN submit ELSE UNCHANGED <<ringVars, failed>>
  /\ prod' = "destroy"
  /\ UNCHANGED <<kind, after, wu, field, paged, blocks, idle, tran, data, complete, arrived,
                 strm, decomp, catchVars, unsynced, cut>>

destroy ==
  /\ prod = "destroy"
  /\ prod' = (IF ring /\ Outstanding THEN "poll" ELSE "gone")
  /\ after' = (IF ring /\ Outstanding THEN "destroy" ELSE after)
  /\ UNCHANGED <<ringVars, failed, kind, wu, field, paged, blocks, idle, tran, data,
                 complete, arrived, strm, decomp, catchVars, unsynced, cut>>

-----------------------------------------------------------------------------
(* The catcher (catcher, getPropagated): take a unit, ... *)
get ==
  /\ catch = "get" /\ tran # <<>>
  /\ unit' = Head(tran)
  /\ tran' = Tail(tran)
  /\ catch' = IF kind = "ram" THEN "event" ELSE "stream"
  /\ UNCHANGED <<ringVars, failed, kind, prodVars, idle, data, complete, arrived, strm,
                 decomp, consumed, unsynced, cut>>

(* ... or end when tran is closed and empty. *)
get_end ==
  /\ catch = "get" /\ tran = <<>> /\ prod \in {"closing", "join"}
  /\ catch' = "done"
  /\ UNCHANGED <<ringVars, failed, kind, prodVars, idle, tran, data, complete, arrived, strm,
                 decomp, unit, consumed, unsynced, cut>>

(* cudaEventSynchronize(event): everything on the stream up to it is done. *)
event_synchronize ==
  /\ catch = "event" /\ \A i \in 1 .. Len(strm) : strm[i] # <<unit, 0, data[unit]>>
  /\ catch' = "consume"
  /\ UNCHANGED <<ringVars, failed, kind, prodVars, idle, tran, data, complete, arrived, strm,
                 decomp, unit, consumed, unsynced, cut>>

(* cudaStreamSynchronize(cufile_strm) *)
stream_synchronize ==
  /\ catch = "stream" /\ decomp[unit] = {}
  /\ catch' = "check"
  /\ UNCHANGED <<ringVars, failed, kind, prodVars, idle, tran, data, complete, arrived, strm,
                 decomp, unit, consumed, unsynced, cut>>

(* Variant: one request may still be under way. *)
check_complete_early ==
  /\ catch = "check"
  /\ catch' = IF complete[unit] <= 1 THEN "consume" ELSE "blocking"
  /\ UNCHANGED <<ringVars, failed, kind, prodVars, idle, tran, data, complete, arrived, strm,
                 decomp, unit, consumed, unsynced, cut>>

(* complete is read, before the wait and by its predicate; ... *)
check_complete ==
  /\ catch = "check"
  /\ catch' = IF complete[unit] = 0 THEN "consume" ELSE "blocking"
  /\ UNCHANGED <<ringVars, failed, kind, prodVars, idle, tran, data, complete, arrived, strm,
                 decomp, unit, consumed, unsynced, cut>>

(* ... a callback that runs before the catcher sleeps notifies nobody, ... *)
wait_block ==
  /\ catch = "blocking"
  /\ catch' = "waiting"
  /\ UNCHANGED <<ringVars, failed, kind, prodVars, idle, tran, data, complete, arrived, strm,
                 decomp, unit, consumed, unsynced, cut>>

(* Variant: wait, which does not make up for a lost notification. *)
wait_for_ever ==
  /\ catch = "waiting" /\ complete[unit] > 0
  /\ catch' = "check"
  /\ UNCHANGED <<ringVars, failed, kind, prodVars, idle, tran, data, complete, arrived, strm,
                 decomp, unit, consumed, unsynced, cut>>

(* ... so the wait ends after 10 ms by itself. *)
wait_for_timeout ==
  /\ catch = "waiting"
  /\ catch' = "check"
  /\ UNCHANGED <<ringVars, failed, kind, prodVars, idle, tran, data, complete, arrived, strm,
                 decomp, unit, consumed, unsynced, cut>>

(* pip->consume: the block is read and handed on. *)
consume ==
  /\ catch = "consume"
  /\ consumed' = Append(consumed, data[unit])
  /\ catch' = "release"
  /\ UNCHANGED <<ringVars, failed, kind, prodVars, idle, tran, data, complete, arrived, strm,
                 decomp, unit, unsynced, cut>>

release ==
  /\ catch = "release"
  /\ idle' = Append(idle, unit)
  /\ unit' = NoUnit
  /\ catch' = "get"
  /\ unsynced' = [unsynced EXCEPT ![unit] = {}]
  /\ cut' = [cut EXCEPT ![unit] = {}]
  /\ UNCHANGED <<ringVars, failed, kind, prodVars, tran, data, complete, arrived, strm,
                 decomp, consumed>>

-----------------------------------------------------------------------------
(* The devices: the stream works in order (a copy that outlives the use of its
   unit fills a buffer nobody waits for), ... *)
stream_step ==
  /\ strm # <<>>
  /\ strm' = Tail(strm)
  /\ LET u == Head(strm)[1]
         f == Head(strm)[2]
     IN  arrived' = IF f # 0 /\ data[u] = Head(strm)[3]
                      THEN [arrived EXCEPT ![u] = @ \cup {f}] ELSE arrived
  /\ UNCHANGED <<ringVars, failed, kind, prodVars, idle, tran, data, complete, decomp,
                 catchVars, unsynced, cut>>

(* ... a unit's fields are decompressed as one batch on its own stream; the
   status of a chunk is read by nobody when there is a stream, so a field may be
   left undone, ... *)
decompress(u) ==
  /\ decomp[u] # {} /\ (u = wu => prod = "propagate")
  /\ \E done \in SUBSET (decomp[u] \ cut[u]) :
       /\ arrived' = [arrived EXCEPT ![u] = @ \cup done]
       /\ cut' = [cut EXCEPT ![u] = @ \cup (decomp[u] \ done)]
  /\ decomp' = [decomp EXCEPT ![u] = {}]
  /\ UNCHANGED <<ringVars, failed, kind, prodVars, idle, tran, data, complete, strm,
                 catchVars, unsynced>>

(* ... and the kernel completes requests in any order. *)
kernel(i) ==
  /\ complete_request(i)
  /\ UNCHANGED <<failed, kind, prodVars, idle, tran, data, complete, arrived, strm, decomp,
                 catchVars, unsynced, cut>>

-----------------------------------------------------------------------------
ProducerStep ==
  \/ consume_block \/ acquire \/ push_ring \/ push_memory \/ push_memcpy \/ push_async
  \/ \E res \in Results : push_gpu(res) \/ poll_reap(res)
  \/ decompress_refused
  \/ read_field \/ read_full \/ submit_fields \/ propagate \/ spin
  \/ poll_failed \/ poll_return
  \/ close \/ flush \/ tran_close \/ tran_closed \/ join \/ drain
  \/ destroy_submit \/ destroy

CatcherStep ==
  \/ get \/ get_end \/ event_synchronize \/ stream_synchronize
  \/ check_complete \/ wait_block \/ wait_for_timeout \/ consume \/ release

DeviceStep == stream_step \/ \E u \in Units : decompress(u)

Running(A) == failed = "no" /\ A

Next ==
  \/ Running(ProducerStep)
  \/ Running(CatcherStep)
  \/ Running(DeviceStep)
  \/ \E i \in IoInfos : Running(kernel(i))

Spec == Init /\ [][Next]_vars

(* Both threads run, the pipeline is closed after its blocks (Router::fire),
   and devices and kernel do what they were asked to. *)
FairSpec ==
  /\ Spec
  /\ WF_vars(Running(ProducerStep))
  /\ WF_vars(Running(CatcherStep))
  /\ WF_vars(Running(DeviceStep))
  /\ WF_vars(\E i \in IoInfos : Running(kernel(i)))

-----------------------------------------------------------------------------
(* Properties *)

ProducerPc ==
  {"run", "acquire", "push", "read", "poll", "propagate", "spin", "flush", "close",
   "closing", "join", "drain", "drained", "destroy", "gone"}
CatcherPc ==
  {"get", "event", "stream", "check", "blocking", "waiting", "consume", "release", "done"}

(* The types of the operator's and the ring's state; complete is never negative. *)
TypeOK ==
  /\ free \in Seq(IoInfos) /\ sq \in Seq(IoInfos) /\ inflight \subseteq IoInfos
  /\ call_back \in [IoInfos -> {NoCallBack} \cup (Units \X Fields)]
  /\ pending \in 0 .. MaxInflight
  /\ cq \in Seq(IoInfos)
  /\ failed \in {"no", "io", "check"}
  /\ kind \in {"ram", "gpu", "cpu"}
  /\ prod \in ProducerPc /\ after \in ProducerPc /\ catch \in CatcherPc
  /\ wu \in Units \cup {NoUnit} /\ unit \in Units \cup {NoUnit}
  /\ field \in 1 .. FieldCount + 1 /\ paged \in BOOLEAN /\ blocks \in 0 .. MaxBlocks
  /\ idle \in Seq(Units) /\ tran \in Seq(Units)
  /\ data \in [Units -> 0 .. MaxBlocks]
  /\ complete \in [Units -> 0 .. FieldCount]
  /\ arrived \in [Units -> SUBSET Fields] /\ decomp \in [Units -> SUBSET Fields]
  /\ strm \in Seq(Units \X (Fields \cup {0}) \X (1 .. MaxBlocks))
  /\ consumed \in Seq(1 .. MaxBlocks)
  /\ unsynced \in [Units -> SUBSET Fields] /\ cut \in [Units -> SUBSET Fields]

(* What the catcher hands on is there: whatever the order of copies,
   decompressions, completions and polls, every field of a block is in place
   when getPropagated returns its unit.  The fields it misses are exactly those
   nobody asked about: over an NVMe relation it does not wait for the stream of
   the copies to and from GPUs, and neither a read with fewer bytes (from the
   ring or by cuFileRead) nor the status of a decompression on the unit's stream
   is looked at.  They do not hold back or stand in for any other field. *)
ArrivedWhenConsumed ==
  catch = "consume" => arrived[unit] \cup unsynced[unit] \cup cut[unit] = Fields

(* The requests a unit waits for. *)
Requests(u) == {i \in IoInfos : call_back[i] # NoCallBack /\ call_back[i][1] = u}
ToBeMade(u) == IF wu = u /\ (prod = "read" \/ (prod = "poll" /\ after = "read"))
                 THEN 1 ELSE 0

(* An IoInfo is free, prepared, in flight or completed, and a unit's complete
   is the number of its requests whose callback has not run, although units are
   used again and again and the callbacks of one unit may run while the
   requests of another are made. *)
RequestsCounted ==
  /\ Len(free) + Len(sq) + Cardinality(inflight) + Len(cq) = MaxInflight
  /\ IoInfos = ToSet(free) \cup ToSet(sq) \cup inflight \cup ToSet(cq)
  /\ \A u \in Units : complete[u] = Cardinality(Requests(u)) + ToBeMade(u)

Held == (IF wu = NoUnit THEN <<>> ELSE <<wu>>) \o (IF unit = NoUnit THEN <<>> ELSE <<unit>>)

(* A work unit is idle, in transit, or in the hands of one thread, until
   close() takes all of them back. *)
UnitsInOnePlace ==
  prod \notin {"drained", "destroy", "gone"} =>
    LET all == idle \o tran \o Held
    IN  Len(all) = Slack /\ ToSet(all) = Units

(* With a ring, acquire() never waits: a thread that waits for an idle unit
   cannot poll, and the catcher would wait for its requests for ever. *)
AcquireNeverWaits == (ring /\ prod = "acquire") => idle # <<>>

(* The invariant of the operator: types, and work units, IoInfos and complete in
   step through make_mem_move_device, poll, propagate and release. *)
MoveInv == TypeOK /\ RequestsCounted /\ UnitsInOnePlace /\ AcquireNeverWaits

Waiting == {"event", "stream", "check", "blocking", "waiting", "consume"}

Channel == INSTANCE FifoChannel WITH
  Item <- 1 .. MaxBlocks,
  transit <- (IF catch \in Waiting THEN <<data[unit]>> ELSE <<>>)
               \o [k \in 1 .. Len(tran) |-> data[tran[k]]],
  got <- consumed,
  state <- CASE prod \in {"closing", "join"} -> "closing"
             [] prod \in {"drain", "drained", "destroy", "gone"}
                  \/ (prod = "poll" /\ after = "destroy") -> "closed"
             [] OTHER -> "open",
  eof <- catch = "done"

(* A memory move is a FIFO channel: every block is handed on once, in order,
   and close() returns only when nothing is left. *)
IsFifoChannel == Channel!Spec

(* The operator ends, with every block handed on (IsFifoChannel) and everything
   freed, though nobody but the thread that moves blocks looks at completions,
   notifications may be lost, and requests wait for an IoInfo.  Only a request,
   a submission or a decompression that fails ends it otherwise: submit() never
   counts wrong, and the unguarded pops of close() find every unit. *)
MoveEnds == <>(prod = "gone" \/ failed = "io")
=============================================================================
