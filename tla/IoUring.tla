------------------------------ MODULE IoUring ------------------------------
(***************************************************************************)
(* IoUringThreadUnsafe of core/storage: asynchronous reads through one     *)
(* io_uring, prepared, submitted and polled by a single thread.  The       *)
(* number of requests in flight is limited by the IoInfo records they      *)
(* carry: a request without one polls until a completion frees one.        *)
(*                                                                         *)
(* The kernel's side (inflight, and the order and result of completions)   *)
(* is external.  The operators are steps of the module that uses the ring  *)
(* (MemMove); the loops around poll are its control.                       *)
(***************************************************************************)
EXTENDS Integers, Sequences, FiniteSets, SequencesExt

CONSTANT MaxInflight     \* m_max_inflight_requests

ASSUME MaxInflightAssumption == MaxInflight \in Nat \ {0}

VARIABLES
  free,       \* m_IoInfo_free_set, a queue
  call_back,  \* IoInfo::call_back_success of each IoInfo
  sq,         \* prepared and not yet submitted
  pending,    \* m_count_pending_submissions
  inflight,   \* submitted, the kernel works on them
  cq,         \* completed, oldest first
  failed      \* "no", or what ended the process: "io" the kernel or a device
              \* reported an error, "check" the program counted wrong

ringVars == <<free, call_back, sq, pending, inflight, cq>>

IoInfos == 1 .. MaxInflight
Results == {"all", "short", "error"}
NoCallBack == <<>>

RingInit ==
  /\ free = [i \in IoInfos |-> i]
  /\ call_back = [i \in IoInfos |-> NoCallBack]
  /\ sq = <<>>
  /\ pending = 0
  /\ inflight = {}
  /\ cq = <<>>

(* read, when an IoInfo is free. *)
read(cb) ==
  /\ free # <<>>
  /\ free' = Tail(free)
  /\ call_back' = [call_back EXCEPT ![Head(free)] = cb]
  /\ sq' = Append(sq, Head(free))
  /\ pending' = pending + 1
  /\ UNCHANGED <<inflight, cq>>

(* The CHECK compares what the kernel took with what was counted: the kernel
   takes all of it, or fewer, or reports an error. *)
submit ==
  \/ /\ failed' = IF Len(sq) # pending THEN "check" ELSE failed
     /\ inflight' = inflight \cup ToSet(sq)
     /\ sq' = <<>>
     /\ pending' = 0
     /\ UNCHANGED <<free, call_back, cq>>
  \/ failed' = "io" /\ UNCHANGED ringVars

(* The kernel completes a request.  Its result (Results) is chosen when poll
   looks at it, which nobody does before. *)
complete_request(i) ==
  /\ i \in inflight
  /\ inflight' = inflight \ {i}
  /\ cq' = Append(cq, i)
  /\ UNCHANGED <<free, call_back, sq, pending>>

(* Variant: the IoInfo is not given back. *)
reap_unfreed ==
  /\ cq # <<>>
  /\ free' = free
  /\ call_back' = [call_back EXCEPT ![Head(cq)] = NoCallBack]
  /\ cq' = Tail(cq)
  /\ UNCHANGED <<sq, pending, inflight>>

(* One completion in poll: the callback (the user's part of the step) runs and
   the IoInfo is free again.  The completions of the second loop leave the ring
   only at its end, which nobody but this thread could notice. *)
reap ==
  /\ cq # <<>>
  /\ free' = Append(free, Head(cq))
  /\ call_back' = [call_back EXCEPT ![Head(cq)] = NoCallBack]
  /\ cq' = Tail(cq)
  /\ UNCHANGED <<sq, pending, inflight>>

(* The loop condition of flush and of the destructor. *)
Outstanding == Len(free) < MaxInflight
=============================================================================
