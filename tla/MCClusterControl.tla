-------------------------- MODULE MCClusterControl --------------------------
EXTENDS ClusterControl

(* Two broadcasts; one with a fault; one while nodes leave; nodes that leave with a fault. *)
MCBudgets == {[casts |-> 2, faults |-> 0, leaves |-> 0], [casts |-> 1, faults |-> 1, leaves |-> 0],
              [casts |-> 1, faults |-> 0, leaves |-> 2], [casts |-> 0, faults |-> 1, leaves |-> 2]}
=============================================================================
