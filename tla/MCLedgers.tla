----------------------------- MODULE MCLedgers -----------------------------
(* A small instance of the stores that keep books. *)
EXTENDS Ledgers, TLC

CONSTANTS h1, h2, d1, d2    \* threads and purchases

(* Two events, and a third that reuses the id of the first. *)
MCEvents == {[id |-> "e1", body |-> "a"], [id |-> "e2", body |-> "a"],
             [id |-> "e1", body |-> "b"]}

MCStocks == {2, None}

MCOrder == <<"p1">>
MCLevelXp == <<1, 2>>

(* Tiers that repeat, and tiers that end with the last. *)
MCPolicies ==
    {[maxGap |-> 2, grace |-> 2, hour |-> 1, maxHours |-> 2, dayTiers |-> {1, 2},
      repeatLast |-> TRUE, weekGoals |-> {1, 3}],
     [maxGap |-> 1, grace |-> 2, hour |-> 2, maxHours |-> 2, dayTiers |-> {1, 2},
      repeatLast |-> FALSE, weekGoals |-> {2}]}

(* Threads and the shop's purchase ids are told apart only by equality. *)
Symmetry == Permutations({h1, h2}) \cup Permutations({d1, d2})
=============================================================================
