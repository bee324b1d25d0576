---------------------------- MODULE MCIBHandler ----------------------------
(* The instance of IBHandler that TLC checks: kinds of work that meet. *)
EXTENDS IBHandler

Work(w, s, t, r, d, sizes) ==
  [write |-> w, write_silent |-> s, write_to |-> t, reads |-> r,
   disconnects |-> d, sizes |-> sizes]

MCBudgets ==
  { Work(3, 1, 0, 0, 0, {2}),        \* a second grant
    Work(1, 1, 1, 0, 0, {0, 1, 2}),  \* all kinds in one pack, of all sizes
    Work(2, 0, 0, 0, 1, {2}),        \* goodbye
    Work(1, 0, 0, 0, 2, {2}),
    Work(0, 0, 0, 3, 0, {}),         \* reads
    Work(1, 0, 0, 1, 0, {2}),
    Work(0, 0, 0, 1, 1, {}) }
=============================================================================
