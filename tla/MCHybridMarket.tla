--------------------------- MODULE MCHybridMarket ---------------------------
(* Instances of HybridMarket for TLC.                                      *)
EXTENDS HybridPages, TLC

\* Traders only act on their own position: they are interchangeable.
TraderSymmetry == Permutations(Traders)
=============================================================================
