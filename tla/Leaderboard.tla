---------------------------- MODULE Leaderboard -----------------------------
(***************************************************************************)
(* buildLeaderboard of internal/service/ranking_service.go, entry by entry *)
(* in the random order of a Go map, over what                              *)
(* prediction_repository.go aggregates of each member's scored predictions.*)
(* Every state is a leaderboard that may be ranked: a member who is absent *)
(* from it was soft-deleted.                                               *)
(***************************************************************************)
EXTENDS Ranking

LOCAL INSTANCE Functions
LOCAL INSTANCE FiniteSetsExt

CONSTANTS Members,        \* active paid members with a user row
          ActivePaid,     \* values of CountActivePaid
          Histories,      \* the points of the scored predictions of a member
          Distances       \* of a tiebreaker forecast; Farthest without one

ASSUME LeaderboardAssumption ==
    /\ Members \subseteq Nat /\ IsFiniteSet(Members)
    /\ ActivePaid \subseteq Nat
    /\ Histories \subseteq Seq(Nat)
    /\ Distances \subseteq 0 .. Farthest

VARIABLES activePaid, entries
leaderboardVars == <<activePaid, entries>>

PointsExactScore == 5

\* TotalPointsByQuiniela and PredictionStatsByQuiniela.
PredictionStats(h, distance) ==
    Standing(SumFunction(h),
             Cardinality({k \in DOMAIN h : h[k] > 0}),
             Len(h),
             Cardinality({k \in DOMAIN h : h[k] = PointsExactScore}),
             distance)

LeaderboardInit ==
    /\ activePaid \in ActivePaid
    /\ entries = [u \in {} |-> 0]

BuildEntry(u, h, distance) ==
    /\ u \notin DOMAIN entries
    /\ entries' = [v \in DOMAIN entries \cup {u} |->
            IF v = u THEN PredictionStats(h, distance) ELSE entries[v]]
    /\ UNCHANGED activePaid

LeaderboardNext ==
    \E u \in Members, h \in Histories, d \in Distances : BuildEntry(u, h, d)

LeaderboardSpec == LeaderboardInit /\ [][LeaderboardNext]_leaderboardVars

-----------------------------------------------------------------------------

\* What the rules compare, the most important first; less is better.
Key(s) == <<-s.points, -s.correct, s.total, -s.exact, s.distance>>
Beats(a, b) ==
    \E k \in 1 .. 5 : /\ Key(a)[k] < Key(b)[k]
                      /\ \A i \in 1 .. k - 1 : Key(a)[i] = Key(b)[i]

Order == SortEntries(entries)
RankOf == AssignRanks(entries, Order)
Winning == Winners(entries, activePaid)

\* Competition ranking (1224): the rank that the pass over the sorted slice
\* gives is one more than the number of members who beat the entry under the
\* four tie-breaking rules, so it depends neither on the order in which the
\* map was walked nor on the user ids.
RankCountsBetter ==
    /\ Range(Order) = DOMAIN entries /\ Len(Order) = Cardinality(DOMAIN entries)
    /\ \A k \in DOMAIN Order :
        RankOf[k] = 1 + Cardinality({v \in DOMAIN entries :
                                        Beats(entries[v], entries[Order[k]])})

\* The prizes reach exactly as far as the places: no loser is level with a
\* winner, every place is taken while there are entries for it, and a winner
\* beyond the places is there only because of a tie at the last one.
PrizesCutAtTie ==
    LET places == WinnerCount(activePaid)
    IN  /\ \A w \in Winning, v \in DOMAIN entries \ Winning :
            Beats(entries[w], entries[v])
        /\ Cardinality(Winning) >= Min({places, Cardinality(DOMAIN entries)})
        /\ \A w \in Winning :
            Cardinality({v \in Winning : Beats(entries[v], entries[w])}) < places
=============================================================================
