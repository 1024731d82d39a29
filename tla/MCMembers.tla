----------------------------- MODULE MCMembers -----------------------------
(* The committee's path of shares and the store of one member service side   *)
(* by side: Committee takes a restart to find any part of what was held, so   *)
(* the two share no variable, and a behaviour is one of them while the other  *)
(* does not move.                                                           *)
EXTENDS MCCommittee

CONSTANTS StoreShares, StoreRequests, StoreCrashes

VARIABLES part, storeUp, storeHeld, tmp, disk, req, accepted, purged, overlapped, crashes

storeVars == <<storeUp, storeHeld, tmp, disk, req, accepted, purged, overlapped, crashes>>
membersVars == <<part, vars, storeVars>>

Store == INSTANCE MemberStore
           WITH Shares <- StoreShares, Requests <- StoreRequests, MaxCrashes <- StoreCrashes,
                up <- storeUp, held <- storeHeld

MembersInit == part \in {"path", "store"} /\ Init /\ Store!Init

MembersNext ==
  \/ part = "path" /\ Next /\ UNCHANGED <<storeVars, part>>
  \/ part = "store" /\ Store!Next /\ UNCHANGED <<vars, part>>

MembersSpec == MembersInit /\ [][MembersNext]_membersVars

\* MemberStore: a service whose persists have not overlapped finds every accepted
\* and no purged share in its state file.
DurableAlone == Store!DurableAlone
=============================================================================
