---------------------------- MODULE MCAsyncQueue ----------------------------
(* AsyncQueue for TLC: producers are model values. *)
EXTENDS AsyncQueue
=============================================================================
