--------------------------- MODULE MCPrivatePool ---------------------------
(* Instances of PrivatePool for TLC.                                       *)
EXTENDS PrivatePool, TLC

\* Eight commitments.  h reuses the nullifier of a, g wagers more than the
\* stake, and the rest spread over both sides so that winners divide the net
\* pool with a remainder.
MCOrders == 1..8
MCSide == <<YES, YES, NO, NO, YES, NO, YES, NO>>
MCAmount == <<1, 2, 3, 1, 4, 2, 9, 2>>
MCNullifier == <<1, 2, 3, 4, 5, 6, 7, 1>>

\* Five commitments with distinct nullifiers, as clients draw them.
LiveOrders == 1..5
LiveSide == <<YES, YES, NO, NO, YES>>
LiveAmount == <<1, 2, 3, 1, 2>>
LiveNullifier == <<1, 2, 3, 4, 5>>
=============================================================================
