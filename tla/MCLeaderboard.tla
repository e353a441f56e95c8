--------------------------- MODULE MCLeaderboard ----------------------------
(***************************************************************************)
(* Three members with a user row.  The histories agree on the points and   *)
(* differ in one further criterion each; the sizes give no prize, two,     *)
(* three and four places.                                                  *)
(***************************************************************************)
EXTENDS Leaderboard

MCMembers == {1, 2, 3}
MCActivePaid == {4, 5, 6, 10}
MCHistories ==
    {<<>>, <<0>>, <<5>>, <<0, 5>>, <<2, 3>>, <<5, 1>>, <<3, 3>>}
MCDistances == {0, 2, Farthest}
=============================================================================
