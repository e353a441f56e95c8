------------------------------ MODULE MCGroups ------------------------------
(***************************************************************************)
(* A group for two members, its owner and two users who compete for the    *)
(* other place.  Their balances are in dollars, at two quetzales, and pay  *)
(* for two converted entry fees or for one that was not converted.         *)
(***************************************************************************)
EXTENDS Groups, TLC

CONSTANTS owner, u1, u2, g

MCUsers == {owner, u1, u2}
MCOpening == owner :> 0 @@ u1 :> 2 @@ u2 :> 2
MCSymmetry == Permutations(Calls) \cup Permutations({u1, u2})
=============================================================================
