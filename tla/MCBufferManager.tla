-------------------------- MODULE MCBufferManager --------------------------
EXTENDS BufferManager

(* Four GPU buffers taken by two clients overfill a cache of three while two more
   are on the GPU; kernels and host buffers have budgets of their own. *)
MCBudgets ==
  {[get |-> 4, kernel |-> 0, host |-> 0, share |-> 0, remote |-> 0, spurious |-> 0],
   [get |-> 2, kernel |-> 1, host |-> 0, share |-> 0, remote |-> 0, spurious |-> 1],
   [get |-> 0, kernel |-> 0, host |-> 2, share |-> 1, remote |-> 2, spurious |-> 0]}
=============================================================================
