---------------------------- MODULE MCOneShotGC ----------------------------
(* Instances of OneShotGC for TLC. *)
EXTENDS OneShotGC

=============================================================================
