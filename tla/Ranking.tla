------------------------------ MODULE Ranking -------------------------------
(***************************************************************************)
(* The leaderboard of a group: the pure part of                            *)
(* internal/service/ranking_service.go and the prize tiers of              *)
(* internal/domain/prize.go.  A standing is what the ranking knows of a    *)
(* member; standings map the ids of members to their standing.             *)
(***************************************************************************)
EXTENDS Integers, Sequences, FiniteSets

LOCAL INSTANCE SequencesExt

CONSTANT MinMembersPerGroup   \* 5 in internal/domain/constants.go

ASSUME RankingAssumption == MinMembersPerGroup \in Nat \ {0}

\* No forecast, or no confirmed result: math.MaxInt.
Farthest == 99

Standing(points, correct, total, exact, distance) ==
    [points |-> points, correct |-> correct, total |-> total,
     exact |-> exact, distance |-> distance]

\* The four tie-breaking rules, after the points.
Better(a, b) ==
    \/ a.points > b.points
    \/ /\ a.points = b.points
       /\ \/ a.correct > b.correct
          \/ /\ a.correct = b.correct
             /\ \/ a.total < b.total
                \/ /\ a.total = b.total
                   /\ \/ a.exact > b.exact
                      \/ a.exact = b.exact /\ a.distance < b.distance

\* Mutant: a tie is decided by the points only.
SamePoints(a, b) == a.points = b.points

SameRank(a, b) == a = b

\* sortAndRank: the user id decides what the rules leave open.
Ahead(standings, u, v) ==
    \/ Better(standings[u], standings[v])
    \/ standings[u] = standings[v] /\ u < v

SortEntries(standings) ==
    CHOOSE order \in SetToSeqs(DOMAIN standings) :
        \A i, k \in DOMAIN order :
            i < k => Ahead(standings, order[i], order[k])

\* assignRanks, over the sorted entries: 1, 2, 2, 4 ...
AssignRanks(standings, order) ==
    LET rank[k \in DOMAIN order] ==
            IF k = 1 THEN 1
            ELSE IF SameRank(standings[order[k]], standings[order[k - 1]])
                 THEN rank[k - 1] ELSE k
    IN  rank

WinnerCount(n) ==
    IF n < MinMembersPerGroup THEN 0
    ELSE IF n = MinMembersPerGroup THEN 2
    ELSE IF n <= 9 THEN 3
    ELSE IF n <= 14 THEN 4
    ELSE 5

\* Mutant: the tie at the last place is cut.
AssignPrizesExactly(rank, n) ==
    {k \in DOMAIN rank : k <= WinnerCount(n)}

\* assignPrizes: the entries that win, for a group of n active paid members.
AssignPrizes(rank, n) ==
    LET w == WinnerCount(n)
    IN  IF w = 0 THEN {}
        ELSE IF w > Len(rank) THEN DOMAIN rank
        ELSE {k \in DOMAIN rank : rank[k] <= rank[w]}

Winners(standings, n) ==
    LET order == SortEntries(standings)
        rank == AssignRanks(standings, order)
    IN  {order[k] : k \in AssignPrizes(rank, n)}
=============================================================================
