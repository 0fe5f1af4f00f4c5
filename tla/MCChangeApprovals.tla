------------------------- MODULE MCChangeApprovals -------------------------
EXTENDS ChangeApprovals, TLC

CONSTANTS h1, h2, ann, bob

(* The same path submitted with two bodies. *)
MCMutations ==
    {[path |-> "restore", body |-> b, capability |-> "danger",
      risk |-> "critical"] : b \in {"b1", "b2"}}

Symmetry == Permutations({h1, h2}) \cup Permutations({ann, bob})
=============================================================================
