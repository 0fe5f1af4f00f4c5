-------------------------------- MODULE Sums --------------------------------
(* Sums over finite sets, by counting: a term of n contributes n units.  A  *)
(* count is the cardinality of a set, which the theorems on finite sets are *)
(* about; a recursive sum of the same value is not within their reach.      *)
EXTENDS Naturals, FiniteSets

(* The units of the terms f[i], for i in S. *)
Units(f, S) == UNION {{i} \X (1..f[i]) : i \in S}

(* The sum of f[i], for i in S. *)
Total(f, S) == Cardinality(Units(f, S))
=============================================================================
