--------------------------- MODULE MCMemberStore ---------------------------
(* Instances of MemberStore for TLC.                                       *)
EXTENDS MemberStore, TLC

CONSTANTS s1, s2, s3, r1, r2, r3

Symmetry == Permutations({s1, s2, s3} \cap Shares) \cup Permutations({r1, r2, r3} \cap Requests)
=============================================================================
