---------------------------- MODULE MCCommittee ----------------------------
(* Instances of Committee for TLC.                                         *)
EXTENDS Committee, TLC

CONSTANTS m1, m2, o1, o2, o3

\* The two members are queried alike; o1 and o2 are on the same side.
Symmetry == Permutations({m1, m2}) \cup Permutations({o1, o2})

\* Three orders are followed without a fault up to the batch deadline, two of
\* them with any two faults, and with any one of them past the deadline.
Faults == Cardinality(crashed) + strays + leaves
Bounded ==
  \/ Faults = 0 /\ now < BatchDeadline
  \/ /\ \E o \in Orders : record[o] = "none"
     /\ Faults <= IF now < BatchDeadline THEN 2 ELSE 1
=============================================================================
