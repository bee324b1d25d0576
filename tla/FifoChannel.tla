---------------------------- MODULE FifoChannel ----------------------------
(***************************************************************************)
(* What the asynchronous queues of platform/util promise to the operators  *)
(* that use them: items arrive once, in the order they were pushed; the    *)
(* consumer is told of the end only when nothing is left; and close()      *)
(* returns only when nothing is left.                                      *)
(***************************************************************************)
EXTENDS Sequences

CONSTANT Item

VARIABLES
  transit,    \* pushed and not yet popped, oldest first
  got,        \* what pop() has returned so far
  state,      \* "open", "closing" (inside close()), "closed" (it returned)
  eof         \* pop() has returned false

vars == <<transit, got, state, eof>>

Init ==
  /\ transit = <<>>
  /\ got = <<>>
  /\ state = "open"
  /\ eof = FALSE

Push(x) ==
  /\ state = "open"
  /\ transit' = Append(transit, x)
  /\ UNCHANGED <<got, state, eof>>

Pop ==
  /\ transit # <<>>
  /\ got' = Append(got, Head(transit))
  /\ transit' = Tail(transit)
  /\ UNCHANGED <<state, eof>>

PopEnd ==
  /\ state # "open" /\ transit = <<>>
  /\ eof' = TRUE
  /\ UNCHANGED <<transit, got, state>>

(* A call that finds the queue empty may return at once. *)
Close ==
  /\ state = "open"
  /\ state' = "closing" \/ (transit = <<>> /\ state' = "closed")
  /\ UNCHANGED <<transit, got, eof>>

CloseReturn ==
  /\ state = "closing" /\ transit = <<>>
  /\ state' = "closed"
  /\ UNCHANGED <<transit, got, eof>>

Next == (\E x \in Item : Push(x)) \/ Pop \/ PopEnd \/ Close \/ CloseReturn

Spec == Init /\ [][Next]_vars
=============================================================================
