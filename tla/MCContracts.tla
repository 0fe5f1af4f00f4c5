---------------------------- MODULE MCContracts ----------------------------
(* A small instance of the governed POST: two threads, two operators, two   *)
(* targets of which one demands four eyes.                                  *)
EXTENDS AdminDispatch, TLC

CONSTANTS h1, h2, ann, bob, restore, grant, r1, r2

Symmetry ==
    Permutations({h1, h2}) \cup Permutations({ann, bob}) \cup Permutations({r1, r2})
=============================================================================
