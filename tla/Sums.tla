-------------------------------- MODULE Sums --------------------------------
(***************************************************************************)
(* Sums of amounts.  An amount is a set of token units, so the total of f  *)
(* over S is the number of pairs of an element of S and one of its units.  *)
(* cap is any bound on the amounts.                                        *)
(***************************************************************************)
EXTENDS Integers, FiniteSets

Units(f, S, cap) == {u \in S \X (1..cap) : u[2] <= f[u[1]]}
Total(f, S, cap) == Cardinality(Units(f, S, cap))
=============================================================================
