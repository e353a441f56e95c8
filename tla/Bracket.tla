------------------------------ MODULE Bracket -------------------------------
(***************************************************************************)
(* The group tables and the slots of the knockout bracket.                 *)
(*                                                                         *)
(*   internal/service/tournament_service.go                                *)
(*   internal/repository/tournament_repository.go                          *)
(*                                                                         *)
(* A slot is a place of the bracket: the first or second of a group, one   *)
(* of the best thirds, or the winner or loser of a knockout match.  The    *)
(* system fills it from its source, an administrator with any team.        *)
(* Teams are numbers, in the order of their names.                         *)
(***************************************************************************)
EXTENDS Integers, FiniteSets, Sequences

LOCAL INSTANCE FiniteSetsExt
LOCAL INSTANCE Functions

CONSTANTS Matches,      \* group and knockout matches
          GroupOf,      \* the group of a match, or NoGroup
          Slots,        \* tournament_slots, in the order of their ids
          Source,       \* auto_source of a slot, or what its description says
          HomeSlot, AwaySlot,   \* of a match, or NoSlot
          WinPoints,    \* tournament.win_points
          Advancing     \* how many thirds advance

NoGroup == "no group"
NoSlot == 0
NoTeam == 0
NoScore == <<-1, -1>>

Groups == {GroupOf[m] : m \in Matches} \ {NoGroup}

\* Only knockout matches are fed by slots (migrations 000168, 000169, 000210).
ASSUME BracketAssumption ==
    /\ IsFiniteSet(Matches) /\ DOMAIN GroupOf = Matches
    /\ IsFiniteSet(Slots) /\ DOMAIN Source = Slots
    /\ Slots \subseteq Nat \ {NoSlot}
    /\ HomeSlot \in [Matches -> Slots \cup {NoSlot}]
    /\ AwaySlot \in [Matches -> Slots \cup {NoSlot}]
    /\ \A m \in Matches :
        GroupOf[m] # NoGroup => HomeSlot[m] = NoSlot /\ AwaySlot[m] = NoSlot
    /\ WinPoints \in Nat /\ Advancing \in Nat

VARIABLES match,   \* matches: teams, status, score and the winner on penalties
          slot     \* tournament_slots: team and who confirmed it

-----------------------------------------------------------------------------
\* buildStandings.

GroupMatches(g) == {m \in Matches : GroupOf[m] = g}
TeamsOf(g) == UNION {{match[m].home, match[m].away} : m \in GroupMatches(g)}

Counted(g, team) ==
    {m \in GroupMatches(g) :
        /\ match[m].status = "finished" /\ match[m].score # NoScore
        /\ team \in {match[m].home, match[m].away}}

\* The goals for and against the team in one of its matches.
Goals(m, team) ==
    IF match[m].home = team THEN match[m].score
    ELSE <<match[m].score[2], match[m].score[1]>>

PointsIn(m, team) ==
    LET goals == Goals(m, team)
    IN CASE goals[1] > goals[2] -> WinPoints
         [] goals[1] = goals[2] -> 1
         [] OTHER -> 0

\* applyMatchResult, over the matches of the team.
GroupStanding(g, team) ==
    LET ms == Counted(g, team)
    IN [team |-> team, group |-> g,
        points |-> SumFunctionOnSet([m \in Matches |-> PointsIn(m, team)], ms),
        diff |-> SumFunctionOnSet([m \in Matches |-> Goals(m, team)[1]
                                                     - Goals(m, team)[2]], ms),
        goals |-> SumFunctionOnSet([m \in Matches |-> Goals(m, team)[1]], ms)]

\* lessStanding: points, goal difference, goals, and the name.
LessStanding(a, b) ==
    \/ a.points > b.points
    \/ /\ a.points = b.points
       /\ \/ a.diff > b.diff
          \/ /\ a.diff = b.diff
             /\ \/ a.goals > b.goals
                \/ a.goals = b.goals /\ a.team < b.team

\* sort.Slice: the members of S, each one Less than those after it.
InOrder(S, Less(_, _)) ==
    CHOOSE order \in [1 .. Cardinality(S) -> S] :
        \A i, k \in DOMAIN order : i < k => Less(order[i], order[k])

Standings(g) ==
    InOrder({GroupStanding(g, team) : team \in TeamsOf(g)}, LessStanding)

\* Mutant: the matches that are being played are overlooked.
NoneScheduled(g) == \A m \in GroupMatches(g) : match[m].status # "scheduled"

GroupComplete(g) ==
    \A m \in GroupMatches(g) : match[m].status \in {"finished", "cancelled"}

-----------------------------------------------------------------------------
\* The system's calls.  What they decide to confirm is a sequence of a source
\* and a team; every source is then looked up and confirmed on its own.

Choice(kind, of, team) == [source |-> [kind |-> kind, of |-> of], team |-> team]

\* AutoConfirmGroupSlots, until it has read the matches; the table has an
\* entry for every team.
GroupChoices(g) ==
    LET table == Standings(g)
    IN IF GroupComplete(g) /\ Cardinality(TeamsOf(g)) >= 2
       THEN << Choice("first", g, table[1].team),
               Choice("second", g, table[2].team) >>
       ELSE << >>

\* knockoutWinnerLoser and slotWinnerLoser: the side that won.
WinningSide(result) ==
    CASE result.score[1] > result.score[2] -> "home"
      [] result.score[1] < result.score[2] -> "away"
      [] OTHER -> result.penalties

\* AutoConfirmMatchResultSlots, for the payload of an event or for a row.
ResultChoices(m, result) ==
    CASE WinningSide(result) = "home" ->
            << Choice("winner", m, result.home), Choice("loser", m, result.away) >>
      [] WinningSide(result) = "away" ->
            << Choice("winner", m, result.away), Choice("loser", m, result.home) >>
      [] OTHER -> << >>

\* Mutant: a start reads on without a backfill.
NothingToBackfill == {}

\* What BackfillSlots goes through at a start: the groups, then the knockout
\* matches.
BackfillSlots == Groups \cup {m \in Matches : GroupOf[m] = NoGroup}

\* The matches that decide a source.
SourceMatches(source) ==
    IF source.kind \in {"first", "second"} THEN GroupMatches(source.of)
    ELSE {source.of}

FindSlotByAutoSource(source) == {s \in Slots : Source[s] = source}

\* The update of a slot also names the team in the matches that it feeds.
Confirm(s, team, by) ==
    /\ slot' = [slot EXCEPT ![s] = [team |-> team, by |-> by]]
    /\ match' = [m \in Matches |->
            [match[m] EXCEPT !.home = IF HomeSlot[m] = s THEN team ELSE @,
                             !.away = IF AwaySlot[m] = s THEN team ELSE @]]

\* autoConfirmBySource looks the slot up, and leaves one that has a team.
Wanted(choice) ==
    \E s \in FindSlotByAutoSource(choice.source) : slot[s].team = NoTeam

\* Mutant: the update does not ask again.
ConfirmUnasked(choice) ==
    \E s \in FindSlotByAutoSource(choice.source) :
        Confirm(s, choice.team, "system")

\* AutoConfirmSlot updates WHERE team IS NULL.
AutoConfirmSlot(choice) ==
    \E s \in FindSlotByAutoSource(choice.source) :
        IF slot[s].team = NoTeam THEN Confirm(s, choice.team, "system")
        ELSE UNCHANGED <<match, slot>>

-----------------------------------------------------------------------------
\* AutoConfirmBestThirdSlots.

\* extractTopEightThirds.
BestThirds ==
    LET thirds == {Standings(g)[3] : g \in {h \in Groups :
                                            Len(Standings(h)) >= 3}}
        sorted == InOrder(thirds, LessStanding)
    IN SubSeq(sorted, 1, Min({Advancing, Len(sorted)}))

ThirdSlots == InOrder({s \in Slots : Source[s].kind = "third"}, <)

\* buildBestThirdAdjacency: by position, the thirds that may take the slot.
Adjacency(slots, teams) ==
    [i \in DOMAIN slots |->
        {j \in DOMAIN teams : teams[j].group \in Source[slots[i]].of}]

\* bipartiteMatcher.augment for slot i when the thirds of open have not been
\* visited: whether the slot found one, the thirds that are still open, and
\* the slot of each third, 0 for none.  A search that fails moves nobody.
Augment(adj, slotOf) ==
    LET search[open \in SUBSET DOMAIN slotOf] ==
        [i \in DOMAIN adj |->
            LET fresh == adj[i] \cap open
                j == Min(fresh)
                moved == search[open \ {j}][slotOf[j]]
            IN CASE fresh = {} ->
                        [found |-> FALSE, open |-> open, slotOf |-> slotOf]
                 [] fresh # {} /\ slotOf[j] = 0 ->
                        [found |-> TRUE, open |-> open \ {j},
                         slotOf |-> [slotOf EXCEPT ![j] = i]]
                 [] fresh # {} /\ slotOf[j] # 0 /\ moved.found ->
                        [moved EXCEPT !.slotOf[j] = i]
                 [] OTHER -> search[moved.open][i]]
    IN search

\* Mutant: a third that has a slot keeps it.
AugmentGreedily(adj, i, slotOf) ==
    LET free == {j \in adj[i] : slotOf[j] = 0}
    IN IF free = {} THEN [found |-> FALSE, open |-> {}, slotOf |-> slotOf]
       ELSE [found |-> TRUE, open |-> {},
             slotOf |-> [slotOf EXCEPT ![Min(free)] = i]]

AugmentSlot(adj, i, slotOf) == Augment(adj, slotOf)[DOMAIN slotOf][i]

\* matchBestThirdsToSlots, after the first i slots; without thirds it has
\* nothing to do.
MatchThirds(slots, teams) ==
    LET adj == Adjacency(slots, teams)
        after[i \in 0 .. Len(slots)] ==
            IF i = 0 THEN [ok |-> TRUE, slotOf |-> [j \in DOMAIN teams |-> 0]]
            ELSE LET next == AugmentSlot(adj, i, after[i - 1].slotOf)
                 IN [ok |-> after[i - 1].ok /\ next.found,
                     slotOf |-> next.slotOf]
    IN IF teams = << >> THEN after[0] ELSE after[Len(slots)]

\* Its result, the team of each slot that has one.
Assignment(slots, teams) ==
    LET slotOf == MatchThirds(slots, teams).slotOf
        third(s) == CHOOSE j \in DOMAIN teams :
                        slotOf[j] # 0 /\ slots[slotOf[j]] = s
    IN [s \in {slots[slotOf[j]] : j \in {k \in DOMAIN teams : slotOf[k] # 0}} |->
            teams[third(s)].team]

\* Whether the slots can be filled at all: the reference for the matcher.
ThirdsFit(slots, teams) ==
    \E f \in [DOMAIN slots -> DOMAIN teams] :
        /\ \A i \in DOMAIN slots : teams[f[i]].group \in Source[slots[i]].of
        /\ \A i, k \in DOMAIN slots : f[i] = f[k] => i = k

=============================================================================
