--------------------------- MODULE KnockoutProofs ---------------------------
(***************************************************************************)
(* Proofs about the bracket: for any set of groups, matches, slots and     *)
(* goroutines of the worker.                                               *)
(*                                                                         *)
(* Sorting with lessStanding gives every entry of a table once, so the     *)
(* first has none above it and the second one.  What is right about a      *)
(* group that is over stays right while none of its rows is overwritten,   *)
(* since no slot feeds a group match and no write under way has other      *)
(* teams: this carries a choice from the reading of the table over the     *)
(* look-up to the update.                                                  *)
(*                                                                         *)
(* The matcher: its recursive search has a solution, any solution answers  *)
(* with fewer open thirds, and by least counterexample a search that finds *)
(* a third keeps all slots filled, one that fails has seen only thirds     *)
(* that fill slots whose thirds it has all seen.  Those are fewer than the *)
(* slots that need them.                                                   *)
(***************************************************************************)
EXTENDS Knockout, AccountsProofs

LOCAL INSTANCE FiniteSetTheorems
LOCAL INSTANCE SequenceTheorems
LOCAL INSTANCE FiniteSetsExt
LOCAL INSTANCE Functions

-----------------------------------------------------------------------------
(* Sorting.  An order is a set of pairs here.                              *)

StrictOrder(R, S) ==
    /\ \A x \in S : <<x, x>> \notin R
    /\ \A x, y \in S : x # y => <<x, y>> \in R \/ <<y, x>> \in R
    /\ \A x, y, z \in S : <<x, y>> \in R /\ <<y, z>> \in R => <<x, z>> \in R

\* order lists S, what comes first in R first.
Lists(R, S, order) ==
    /\ order \in [1 .. Cardinality(S) -> S]
    /\ \A i, k \in 1 .. Cardinality(S) : i < k => <<order[i], order[k]>> \in R

\* Every set has a member that comes after all others.
LEMMA LastMember ==
    ASSUME NEW S, IsFiniteSet(S), S # {}, NEW R, StrictOrder(R, S)
    PROVE  \E z \in S : \A x \in S \ {z} : <<x, z>> \in R
<1> DEFINE After(z) == {x \in S : <<z, x>> \in R}
           T == {After(z) : z \in S}
<1>1. PICK t \in T : \A a \in T : a \subseteq t => a = t
    <2>1. T \subseteq SUBSET S /\ T # {}
        OBVIOUS
    <2> HIDE DEF T
    <2> QED BY <2>1, LeastSubset
<1>2. PICK z \in S : t = After(z)
    BY <1>1
<1>3. ASSUME NEW w \in After(z) PROVE FALSE
    <2>1. w \in S /\ <<z, w>> \in R /\ <<w, w>> \notin R
        BY <1>3 DEF StrictOrder
    <2>2. After(w) \in T /\ After(w) \subseteq After(z)
        BY <2>1 DEF StrictOrder
    <2>3. After(w) = After(z)
        BY <1>1, <1>2, <2>2
    <2> QED BY <1>3, <2>1, <2>3
<1>4. ASSUME NEW x \in S \ {z} PROVE <<x, z>> \in R
    BY <1>3 DEF StrictOrder
<1> QED BY <1>4

LEMMA ListExists ==
    ASSUME NEW S, IsFiniteSet(S), NEW R, StrictOrder(R, S)
    PROVE  \E order : Lists(R, S, order)
<1> DEFINE T == {A \in SUBSET S : ~ \E order : Lists(R, A, order)}
<1> SUFFICES ASSUME T # {} PROVE FALSE
    OBVIOUS
<1>1. PICK A \in T : \A a \in T : a \subseteq A => a = A
    <2>1. T \subseteq SUBSET S
        OBVIOUS
    <2> HIDE DEF T
    <2> QED BY <2>1, LeastSubset
<1>2. A \subseteq S /\ IsFiniteSet(A) /\ ~ \E order : Lists(R, A, order)
    BY <1>1, FS_Subset
<1>3. A # {}
    <2>1. Cardinality({}) = 0
        BY FS_EmptySet
    <2>2. Lists(R, {}, [i \in 1 .. 0 |-> i])
        BY <2>1 DEF Lists
    <2> QED BY <1>2, <2>2
<1>4. PICK z \in A : \A x \in A \ {z} : <<x, z>> \in R
    <2>1. StrictOrder(R, A)
        BY <1>2 DEF StrictOrder
    <2> QED BY <1>2, <1>3, <2>1, LastMember
<1> DEFINE B == A \ {z}
<1>5. B \in SUBSET S /\ B \notin T /\ z \notin B /\ B \subseteq A
    BY <1>1, <1>2
<1>6. PICK o : Lists(R, B, o)
    BY <1>5
<1>7. PICK n \in Nat : /\ n = Cardinality(A) /\ n # 0
                       /\ Cardinality(B) = n - 1
    BY <1>2, <1>3, FS_CardinalityType, FS_RemoveElement, FS_EmptySet
<1>8. /\ o \in [1 .. n - 1 -> B]
      /\ \A i, k \in 1 .. n - 1 : i < k => <<o[i], o[k]>> \in R
    BY <1>6, <1>7 DEF Lists
<1> HIDE DEF B
<1> DEFINE order == [i \in 1 .. n |-> IF i = n THEN z ELSE o[i]]
<1>9. \A i \in 1 .. n : i # n => i \in 1 .. n - 1 /\ o[i] \in B
    BY <1>8
<1>10. order \in [1 .. n -> A]
    BY <1>5, <1>9
<1>11. ASSUME NEW i \in 1 .. n, NEW k \in 1 .. n, i < k
       PROVE  <<order[i], order[k]>> \in R
    <2>1. i # n /\ i \in 1 .. n - 1 /\ o[i] \in B /\ order[i] = o[i]
        BY <1>9, <1>11
    <2>2. CASE k = n
        BY <1>4, <1>5, <2>1, <2>2 DEF B
    <2>3. CASE k # n
        BY <1>8, <1>9, <1>11, <2>1, <2>3
    <2> QED BY <2>2, <2>3
<1>12. Lists(R, A, order)
    <2> HIDE DEF order
    <2> QED BY <1>7, <1>10, <1>11 DEF Lists
<1> QED BY <1>2, <1>12

\* A list has every member once.
LEMMA ListIsWhole ==
    ASSUME NEW S, IsFiniteSet(S), NEW R, StrictOrder(R, S),
           NEW order, Lists(R, S, order)
    PROVE  /\ Cardinality(S) \in Nat /\ DOMAIN order = 1 .. Cardinality(S)
           /\ \A i, k \in DOMAIN order : order[i] = order[k] => i = k
           /\ \A x \in S : \E i \in DOMAIN order : order[i] = x
<1> DEFINE n == Cardinality(S)
<1>1. n \in Nat
    BY FS_CardinalityType
<1>2. order \in [1 .. n -> S]
    BY DEF Lists
<1>3. \A i, k \in 1 .. n : order[i] = order[k] => i = k
    <2>1. \A i, k \in 1 .. n : i # k => i < k \/ k < i
        BY <1>1
    <2> QED BY <1>2, <2>1 DEF Lists, StrictOrder
<1>4. order \in Surjection(1 .. n, S)
    <2>1. order \in Injection(1 .. n, S)
        BY <1>2, <1>3 DEF Injection, IsInjective
    <2>2. IsFiniteSet(1 .. n) /\ Cardinality(1 .. n) = n
        BY <1>1, FS_Interval
    <2> HIDE DEF n
    <2> QED BY <1>1, <2>1, <2>2, FS_Injection DEF n
<1> QED BY <1>1, <1>2, <1>3, <1>4 DEF Surjection

LEMMA ImageFinite ==
    ASSUME NEW S, IsFiniteSet(S), NEW f
    PROVE  IsFiniteSet({f[x] : x \in S})
<1> DEFINE T == {f[x] : x \in S}
           h == [x \in S |-> f[x]]
<1>1. h \in Surjection(S, T)
    BY DEF Surjection
<1> HIDE DEF h, T
<1>2. IsFiniteSet(T)
    BY <1>1, FS_Surjection
<1> QED BY <1>2 DEF T

-----------------------------------------------------------------------------
(* The tables.                                                             *)

TableRows == [team : Nat, group : Groups, points : Int, diff : Int, goals : Int]

\* lessStanding is a strict order that leaves nothing open between two teams.
LEMMA LessOrder ==
    ASSUME NEW a \in TableRows, NEW b \in TableRows, NEW c \in TableRows
    PROVE  /\ ~LessStanding(a, a)
           /\ ~(LessStanding(a, b) /\ LessStanding(b, a))
           /\ a.team # b.team => LessStanding(a, b) \/ LessStanding(b, a)
           /\ LessStanding(a, b) /\ LessStanding(b, c) => LessStanding(a, c)
BY DEF LessStanding, TableRows

\* Entries of different teams.
Table(S) ==
    /\ IsFiniteSet(S) /\ S \subseteq TableRows
    /\ \A a, b \in S : a.team = b.team => a = b

SortTable(S) == InOrder(S, LessStanding)

\* Sorting them gives every entry once, the better first.
LEMMA TableSorted ==
    ASSUME NEW S, Table(S)
    PROVE  /\ Cardinality(S) \in Nat
           /\ SortTable(S) \in [1 .. Cardinality(S) -> S]
           /\ \A i, k \in 1 .. Cardinality(S) :
                i < k => LessStanding(SortTable(S)[i], SortTable(S)[k])
           /\ \A x \in S : \E i \in 1 .. Cardinality(S) : SortTable(S)[i] = x
<1> DEFINE R == {p \in S \X S : LessStanding(p[1], p[2])}
           Good(f) == \A i, k \in DOMAIN f : i < k => LessStanding(f[i], f[k])
<1>1. \A x, y \in S : <<x, y>> \in R <=> LessStanding(x, y)
    OBVIOUS
<1>2. StrictOrder(R, S)
    <2>1. \A x \in S : x \in TableRows
        BY DEF Table
    <2>2. \A x \in S : ~LessStanding(x, x)
        BY <2>1, LessOrder
    <2>3. \A x, y \in S : x # y => LessStanding(x, y) \/ LessStanding(y, x)
        BY <2>1, LessOrder DEF Table
    <2>4. \A x, y, z \in S :
            LessStanding(x, y) /\ LessStanding(y, z) => LessStanding(x, z)
        BY <2>1, LessOrder
    <2> HIDE DEF R
    <2> QED BY <1>1, <2>2, <2>3, <2>4 DEF StrictOrder
<1>3. PICK n : n = Cardinality(S)
    OBVIOUS
<1>4. PICK o : Lists(R, S, o)
    <2> HIDE DEF R
    <2> QED BY <1>2, ListExists DEF Table
<1>5. o \in [1 .. n -> S] /\ Good(o)
    <2>1. o \in [1 .. n -> S] /\ DOMAIN o = 1 .. n
        BY <1>3, <1>4 DEF Lists
    <2>2. \A i, k \in 1 .. n : i < k => <<o[i], o[k]>> \in R
        BY <1>3, <1>4 DEF Lists
    <2> HIDE DEF R
    <2> QED BY <1>1, <2>1, <2>2
<1>6. PICK f : f = SortTable(S)
    OBVIOUS
<1>7. f \in [1 .. n -> S] /\ Good(f)
    <2>1. f = CHOOSE order \in [1 .. n -> S] : Good(order)
        BY <1>3, <1>6 DEF InOrder, SortTable
    <2> HIDE DEF Good
    <2> QED BY <1>5, <2>1
<1>8. Lists(R, S, f)
    <2>1. DOMAIN f = 1 .. n
        BY <1>7
    <2>2. \A i, k \in 1 .. n : i < k => <<f[i], f[k]>> \in R
        BY <1>1, <1>7, <2>1
    <2> HIDE DEF R
    <2> QED BY <1>3, <1>7, <2>2 DEF Lists
<1>9. /\ n \in Nat /\ DOMAIN f = 1 .. n
      /\ \A i, k \in DOMAIN f : f[i] = f[k] => i = k
      /\ \A x \in S : \E i \in DOMAIN f : f[i] = x
    <2> HIDE DEF R
    <2> QED BY <1>2, <1>3, <1>8, ListIsWhole DEF Table
<1> QED BY <1>3, <1>6, <1>7, <1>9

\* The rows of a group, as far as the table reads them.
GroupTyped(g) ==
    \A m \in GroupMatches(g) : match[m] \in MatchRows

LEMMA StandingType ==
    ASSUME BracketAssumption, NEW g \in Groups, GroupTyped(g), NEW team \in Nat
    PROVE  GroupStanding(g, team) \in TableRows
<1> DEFINE ms == Counted(g, team)
           points == [m \in Matches |-> PointsIn(m, team)]
           diff == [m \in Matches |-> Goals(m, team)[1] - Goals(m, team)[2]]
           goals == [m \in Matches |-> Goals(m, team)[1]]
<1>1. ms \subseteq Matches /\ IsFiniteSet(ms)
    BY FS_Subset DEF Counted, GroupMatches, BracketAssumption
<1>2. ASSUME NEW m \in ms
      PROVE  points[m] \in Int /\ diff[m] \in Int /\ goals[m] \in Int
    <2>1. match[m].score \in Nat \X Nat
        BY <1>2 DEF Counted, GroupTyped, MatchRows, Scores
    <2>2. PICK x \in Nat, y \in Nat : match[m].score = <<x, y>>
        BY <2>1
    <2>3. Goals(m, team)[1] \in Nat /\ Goals(m, team)[2] \in Nat
        BY <2>2 DEF Goals
    <2>4. PointsIn(m, team) \in Nat
        BY <2>3 DEF PointsIn, BracketAssumption
    <2> QED BY <1>1, <2>3, <2>4
<1> HIDE DEF ms, points, diff, goals
<1>3. /\ SumFunctionOnSet(points, ms) \in Int
      /\ SumFunctionOnSet(diff, ms) \in Int
      /\ SumFunctionOnSet(goals, ms) \in Int
    BY <1>1, <1>2, SumTakeOut
<1> QED BY <1>3 DEF GroupStanding, TableRows, ms, points, diff, goals

Entries(g) == {GroupStanding(g, team) : team \in TeamsOf(g)}

LEMMA EntriesTable ==
    ASSUME BracketAssumption, NEW g \in Groups, GroupTyped(g)
    PROVE  /\ TeamsOf(g) \subseteq Teams
           /\ IsFiniteSet(TeamsOf(g))
           /\ Table(Entries(g)) /\ Standings(g) = SortTable(Entries(g))
           /\ \A team \in TeamsOf(g) : GroupStanding(g, team).team = team
           /\ Cardinality(Entries(g)) = Cardinality(TeamsOf(g))
<1>1. TeamsOf(g) \subseteq Teams
    BY DEF TeamsOf, GroupTyped, MatchRows
<1>2. IsFiniteSet(TeamsOf(g))
    <2>1. PICK M : M = GroupMatches(g)
        OBVIOUS
    <2>2. PICK f : f = [m \in M |-> match[m].home]
        OBVIOUS
    <2>3. PICK h : h = [m \in M |-> match[m].away]
        OBVIOUS
    <2>4. IsFiniteSet(M)
        BY <2>1, FS_Subset DEF GroupMatches, BracketAssumption
    <2>5. /\ IsFiniteSet({f[m] : m \in M}) /\ IsFiniteSet({h[m] : m \in M})
        BY <2>2, <2>3, <2>4, ImageFinite
    <2>6. PICK A, B : A = {f[m] : m \in M} /\ B = {h[m] : m \in M}
        OBVIOUS
    <2>7. TeamsOf(g) = A \cup B
        BY <2>1, <2>2, <2>3, <2>6 DEF TeamsOf
    <2>8. IsFiniteSet(A) /\ IsFiniteSet(B)
        BY <2>5, <2>6
    <2>9. IsFiniteSet(A \cup B)
        BY <2>8, FS_Union, Zenon
    <2> QED BY <2>7, <2>9
<1>3. \A team \in TeamsOf(g) : GroupStanding(g, team).team = team
    BY DEF GroupStanding
<1>4. \A team \in TeamsOf(g) : GroupStanding(g, team) \in TableRows
    BY <1>1, StandingType DEF Teams
<1>5. IsFiniteSet(Entries(g)) /\ Cardinality(Entries(g)) = Cardinality(TeamsOf(g))
    <2> DEFINE f == [team \in TeamsOf(g) |-> GroupStanding(g, team)]
    <2>1. f \in Bijection(TeamsOf(g), Entries(g))
        BY <1>3 DEF Entries, Bijection, Injection, Surjection, IsInjective
    <2>2. ExistsBijection(TeamsOf(g), Entries(g))
        BY <2>1 DEF ExistsBijection
    <2> QED BY <1>2, <2>2, FS_Bijection
<1>6. Table(Entries(g))
    BY <1>3, <1>4, <1>5 DEF Table, Entries
<1>7. Standings(g) = SortTable(Entries(g))
    BY DEF Standings, Entries, SortTable
<1> QED BY <1>1, <1>2, <1>3, <1>5, <1>6, <1>7

\* The first of the table has nobody above it, and the second has one.
LEMMA FirstAndSecond ==
    ASSUME BracketAssumption, NEW g \in Groups, GroupTyped(g),
           Cardinality(TeamsOf(g)) >= 2
    PROVE  /\ Standings(g)[1].team \in TeamsOf(g)
           /\ Standings(g)[2].team \in TeamsOf(g)
           /\ Cardinality(Above(g, Standings(g)[1].team)) = 0
           /\ Cardinality(Above(g, Standings(g)[2].team)) = 1
<1>1. PICK S : S = Entries(g)
    OBVIOUS
<1>2. PICK table : table = Standings(g)
    OBVIOUS
<1>3. PICK n : n = Cardinality(S)
    OBVIOUS
<1>4. Table(S) /\ table = SortTable(S) /\ n = Cardinality(TeamsOf(g))
    BY <1>1, <1>2, <1>3, EntriesTable
<1>5. /\ n \in Nat
      /\ table \in [1 .. n -> S]
      /\ \A i, k \in 1 .. n : i < k => LessStanding(table[i], table[k])
      /\ \A x \in S : \E i \in 1 .. n : table[i] = x
    BY <1>3, <1>4, TableSorted
<1>6. 1 \in 1 .. n /\ 2 \in 1 .. n
    BY <1>4, <1>5
<1>7. ASSUME NEW k \in 1 .. n
      PROVE  /\ table[k].team \in TeamsOf(g)
             /\ GroupStanding(g, table[k].team) = table[k]
             /\ table[k] \in TableRows
    <2>1. PICK team \in TeamsOf(g) : table[k] = GroupStanding(g, team)
        BY <1>1, <1>5 DEF Entries
    <2>2. table[k].team = team
        BY <2>1, EntriesTable
    <2> QED BY <1>4, <1>5, <2>1, <2>2 DEF Table
<1>8. ASSUME NEW k \in 1 .. n
      PROVE  \A other \in TeamsOf(g) :
                other \in Above(g, table[k].team)
                <=> \E i \in 1 .. n : i < k /\ other = table[i].team
    <2> TAKE other \in TeamsOf(g)
    <2>1. PICK i \in 1 .. n : table[i] = GroupStanding(g, other)
        BY <1>1, <1>5 DEF Entries
    <2>2. table[i].team = other
        BY <2>1, EntriesTable
    <2>3. other \in Above(g, table[k].team) <=> LessStanding(table[i], table[k])
        BY <1>7, <2>1 DEF Above
    <2>4. /\ ~LessStanding(table[k], table[k])
          /\ ~(LessStanding(table[i], table[k]) /\ LessStanding(table[k], table[i]))
        BY <1>7, LessOrder
    <2>5. LessStanding(table[i], table[k]) <=> i < k
        <3>1. i < k \/ i = k \/ k < i
            BY <1>5
        <3> QED BY <1>5, <2>4, <3>1
    <2>6. ASSUME NEW j \in 1 .. n, other = table[j].team PROVE j = i
        <3>1. table[j] = table[i]
            BY <1>7, <2>1, <2>6
        <3>2. j < i \/ i < j => FALSE
            BY <1>5, <1>7, <3>1, LessOrder
        <3> QED BY <1>5, <3>2
    <2> QED BY <2>2, <2>3, <2>5, <2>6
<1>9. Above(g, table[1].team) = {}
    BY <1>5, <1>6, <1>8 DEF Above
<1>10. Above(g, table[2].team) = {table[1].team}
    <2>1. \A i \in 1 .. n : i < 2 <=> i = 1
        BY <1>5
    <2> QED BY <1>6, <1>7, <1>8, <2>1 DEF Above
<1>11. /\ Cardinality({}) = 0
       /\ Cardinality({table[1].team}) = 1
    BY FS_EmptySet, FS_Singleton
<1> QED BY <1>2, <1>6, <1>7, <1>9, <1>10, <1>11

-----------------------------------------------------------------------------
(* The matcher.  T are the positions of the thirds, D those of the slots.  *)

Matcher(adj, slotOf, T, D) ==
    /\ T \subseteq Nat /\ IsFiniteSet(T) /\ 0 \notin D
    /\ adj \in [D -> SUBSET T] /\ slotOf \in [T -> D \cup {0}]

Answers(T, D) == [found : BOOLEAN, open : SUBSET T, slotOf : [T -> D \cup {0}]]

\* What augment tries first.
Fresh(adj, open, i) == adj[i] \cap open
First(adj, open, i) == Min(Fresh(adj, open, i))
Moved(adj, slotOf, h, open, i) ==
    h[open \ {First(adj, open, i)}][slotOf[First(adj, open, i)]]

\* One call of augment, when h gives the answers of the calls it makes.
Visit(adj, slotOf, h, open, i) ==
    LET fresh == adj[i] \cap open
        j == Min(fresh)
        moved == h[open \ {j}][slotOf[j]]
    IN CASE fresh = {} -> [found |-> FALSE, open |-> open, slotOf |-> slotOf]
         [] fresh # {} /\ slotOf[j] = 0 ->
                [found |-> TRUE, open |-> open \ {j},
                 slotOf |-> [slotOf EXCEPT ![j] = i]]
         [] fresh # {} /\ slotOf[j] # 0 /\ moved.found ->
                [moved EXCEPT !.slotOf[j] = i]
         [] OTHER -> h[moved.open][i]

Solves(adj, slotOf, h, U, D) ==
    h = [open \in SUBSET U |-> [i \in D |-> Visit(adj, slotOf, h, open, i)]]

\* An answer about the thirds of open.
Answer(a, open, T, D) == a \in Answers(T, D) /\ a.open \subseteq open

LEMMA Smallest ==
    ASSUME NEW S, S \subseteq Nat, S # {}
    PROVE  Min(S) \in S /\ \A y \in S : Min(S) <= y
<1>1. \E x \in S : \A y \in S : x <= y
    <2>1. PICK a \in S : TRUE
        OBVIOUS
    <2> DEFINE T == {(0 .. x) : x \in {y \in S : y <= a}}
    <2>2. T \subseteq SUBSET (0 .. a) /\ T # {}
        BY <2>1
    <2>3. PICK I : I = 0 .. a
        OBVIOUS
    <2>4. PICK t \in T : \A u \in T : u \subseteq t => u = t
        <3>1. IsFiniteSet(I)
            BY <2>1, <2>3, FS_Interval
        <3>2. T \subseteq SUBSET I /\ T # {}
            BY <2>2, <2>3
        <3> HIDE DEF T
        <3> QED BY <3>1, <3>2, LeastSubset
    <2>5. PICK x \in S : x <= a /\ t = 0 .. x
        BY <2>4
    <2>6. ASSUME NEW y \in S, y < x PROVE FALSE
        <3>1. y <= a /\ (0 .. y) \in T /\ (0 .. y) \subseteq (0 .. x)
            BY <2>5, <2>6
        <3>2. (0 .. y) = (0 .. x)
            BY <2>4, <2>5, <3>1
        <3>3. x \in 0 .. x /\ ~(x \in 0 .. y)
            BY <2>6
        <3> QED BY <3>2, <3>3
    <2>7. \A y \in S : x <= y
        BY <2>6
    <2> QED BY <2>7
<1> QED BY <1>1 DEF Min

\* What it comes to: v is its answer, j the third it tries and m the answer
\* of the call for the slot of j.
Outcome(adj, slotOf, D, h, open, i, j, m, v) ==
    \/ /\ Fresh(adj, open, i) = {}
       /\ v = [found |-> FALSE, open |-> open, slotOf |-> slotOf]
    \/ /\ j \in Fresh(adj, open, i) /\ slotOf[j] = 0
       /\ v = [found |-> TRUE, open |-> open \ {j},
               slotOf |-> [slotOf EXCEPT ![j] = i]]
    \/ /\ j \in Fresh(adj, open, i) /\ slotOf[j] \in D /\ m.found
       /\ v = [m EXCEPT !.slotOf[j] = i]
    \/ /\ j \in Fresh(adj, open, i) /\ slotOf[j] \in D /\ ~m.found
       /\ v = h[m.open][i]

LEMMA VisitCases ==
    ASSUME NEW adj, NEW slotOf, NEW T, NEW D, Matcher(adj, slotOf, T, D),
           NEW h, NEW open \in SUBSET T, NEW i \in D,
           NEW j, j = First(adj, open, i),
           NEW m, m = Moved(adj, slotOf, h, open, i),
           NEW v, v = Visit(adj, slotOf, h, open, i)
    PROVE  Outcome(adj, slotOf, D, h, open, i, j, m, v)
<1>1. Fresh(adj, open, i) \subseteq Nat
    BY DEF Matcher, Fresh
<1>2. CASE Fresh(adj, open, i) = {}
    BY <1>2 DEF Fresh, Visit, Outcome
<1>3. CASE Fresh(adj, open, i) # {}
    <2>1. j \in Fresh(adj, open, i)
        BY <1>1, <1>3, Smallest DEF First
    <2>2. slotOf[j] \in D \cup {0}
        BY <2>1 DEF Fresh, Matcher
    <2>3. v = CASE slotOf[j] = 0 ->
                    [found |-> TRUE, open |-> open \ {j},
                     slotOf |-> [slotOf EXCEPT ![j] = i]]
                [] slotOf[j] # 0 /\ m.found -> [m EXCEPT !.slotOf[j] = i]
                [] OTHER -> h[m.open][i]
        BY <1>3 DEF Visit, Moved, First, Fresh
    <2>4. 0 \notin D
        BY DEF Matcher
    <2> QED BY <2>1, <2>2, <2>3, <2>4 DEF Outcome
<1> QED BY <1>2, <1>3

\* A call answers for open when the calls for fewer thirds do.
LEMMA VisitAnswers ==
    ASSUME NEW adj, NEW slotOf, NEW T, NEW D, Matcher(adj, slotOf, T, D),
           NEW h, NEW open \in SUBSET T, NEW i \in D,
           \A U \in SUBSET open : U # open =>
                \A k \in D : Answer(h[U][k], U, T, D)
    PROVE  Answer(Visit(adj, slotOf, h, open, i), open, T, D)
<1>1. PICK j : j = First(adj, open, i)
    OBVIOUS
<1>2. PICK v : v = Visit(adj, slotOf, h, open, i)
    OBVIOUS
<1>3. PICK m : m = Moved(adj, slotOf, h, open, i)
    OBVIOUS
<1>4. slotOf \in [T -> D \cup {0}]
    BY DEF Matcher
<1>5. CASE v = [found |-> FALSE, open |-> open, slotOf |-> slotOf]
    BY <1>2, <1>4, <1>5 DEF Answer, Answers
<1>6. ASSUME j \in Fresh(adj, open, i)
      PROVE  /\ j \in T /\ j \in open
             /\ slotOf[j] \in D => Answer(m, open \ {j}, T, D)
    BY <1>1, <1>3, <1>6 DEF Fresh, Moved
<1>7. CASE /\ j \in Fresh(adj, open, i)
           /\ v = [found |-> TRUE, open |-> open \ {j},
                   slotOf |-> [slotOf EXCEPT ![j] = i]]
    <2>1. [slotOf EXCEPT ![j] = i] \in [T -> D \cup {0}]
        BY <1>4
    <2> QED BY <1>2, <1>6, <1>7, <2>1 DEF Answer, Answers
<1>8. CASE /\ j \in Fresh(adj, open, i) /\ slotOf[j] \in D
           /\ v = [m EXCEPT !.slotOf[j] = i]
    <2>1. m \in Answers(T, D) /\ m.open \subseteq open \ {j}
        BY <1>6, <1>8 DEF Answer
    <2>2. m.slotOf \in [T -> D \cup {0}]
        BY <2>1 DEF Answers
    <2>3. PICK q \in [T -> D \cup {0}] : q = [m.slotOf EXCEPT ![j] = i]
        BY <2>2
    <2>4. v = [m EXCEPT !.slotOf = q]
        BY <1>8, <2>3
    <2>5. v \in Answers(T, D) /\ v.open = m.open
        BY <2>1, <2>4 DEF Answers
    <2> QED BY <1>2, <2>1, <2>5 DEF Answer
<1>9. CASE /\ j \in Fresh(adj, open, i) /\ slotOf[j] \in D
           /\ v = h[m.open][i]
    <2>1. m.open \subseteq open \ {j} /\ j \in open
        BY <1>6, <1>9 DEF Answer
    <2>2. PICK U \in SUBSET open : U = m.open /\ U # open
        BY <2>1
    <2>3. Answer(h[U][i], U, T, D)
        BY <2>2
    <2> QED BY <1>2, <1>9, <2>2, <2>3 DEF Answer
<1>10. Outcome(adj, slotOf, D, h, open, i, j, m, v)
    BY <1>1, <1>2, <1>3, VisitCases
<1> QED BY <1>5, <1>7, <1>8, <1>9, <1>10 DEF Outcome

\* So every solution answers.
LEMMA SolutionAnswers ==
    ASSUME NEW adj, NEW slotOf, NEW T, NEW D, Matcher(adj, slotOf, T, D),
           NEW S \in SUBSET T, NEW h, Solves(adj, slotOf, h, S, D)
    PROVE  \A U \in SUBSET S : \A i \in D :
            /\ h[U][i] = Visit(adj, slotOf, h, U, i)
            /\ Answer(h[U][i], U, T, D)
<1> DEFINE Wrong == {U \in SUBSET S : ~ \A i \in D : Answer(h[U][i], U, T, D)}
<1>1. ASSUME NEW U \in SUBSET S, NEW i \in D
      PROVE  h[U][i] = Visit(adj, slotOf, h, U, i)
    <2>1. h[U] = [k \in D |-> Visit(adj, slotOf, h, U, k)]
        BY Zenon DEF Solves
    <2> QED BY <2>1
<1>2. ASSUME Wrong # {} PROVE FALSE
    <2>1. Wrong \subseteq SUBSET S /\ IsFiniteSet(S)
        BY FS_Subset DEF Matcher
    <2>2. PICK U \in Wrong : \A a \in Wrong : a \subseteq U => a = U
        <3> HIDE DEF Wrong
        <3> QED BY <1>2, <2>1, LeastSubset
    <2>3. U \in SUBSET T /\ U \in SUBSET S
        BY <2>2
    <2>4. \A V \in SUBSET U : V # U => \A k \in D : Answer(h[V][k], V, T, D)
        BY <2>2, <2>3
    <2>5. \A i \in D : Answer(Visit(adj, slotOf, h, U, i), U, T, D)
        <3> HIDE DEF Wrong
        <3> QED BY <2>3, <2>4, VisitAnswers
    <2>6. \A i \in D : Answer(h[U][i], U, T, D)
        BY <1>1, <2>3, <2>5
    <2> QED BY <2>2, <2>6
<1> QED BY <1>1, <1>2


\* The answers depend on the answers for fewer thirds only.
LEMMA VisitSame ==
    ASSUME NEW adj, NEW slotOf, NEW T, NEW D, Matcher(adj, slotOf, T, D),
           NEW h, NEW g, NEW open \in SUBSET T, NEW i \in D,
           \A U \in SUBSET open : U # open =>
                \A k \in D : Answer(h[U][k], U, T, D) /\ h[U][k] = g[U][k]
    PROVE  Visit(adj, slotOf, h, open, i) = Visit(adj, slotOf, g, open, i)
<1>1. PICK j : j = First(adj, open, i)
    OBVIOUS
<1>2. PICK v : v = Visit(adj, slotOf, h, open, i)
    OBVIOUS
<1>3. PICK m : m = Moved(adj, slotOf, h, open, i)
    OBVIOUS
<1>4. PICK w : w = Visit(adj, slotOf, g, open, i)
    OBVIOUS
<1>5. PICK n : n = Moved(adj, slotOf, g, open, i)
    OBVIOUS
<1>6. /\ Outcome(adj, slotOf, D, h, open, i, j, m, v)
      /\ Outcome(adj, slotOf, D, g, open, i, j, n, w)
    BY <1>1, <1>2, <1>3, <1>4, <1>5, VisitCases
<1>7. CASE Fresh(adj, open, i) = {}
    <2>1. j \notin Fresh(adj, open, i)
        BY <1>7
    <2>2. v = w
        BY <1>6, <2>1 DEF Outcome
    <2> QED BY <1>2, <1>4, <2>2
<1>8. CASE Fresh(adj, open, i) # {}
    <2>1. j \in Fresh(adj, open, i)
        BY <1>6, <1>8 DEF Outcome
    <2>2. CASE slotOf[j] \notin D
        <3>1. v = w
            BY <1>6, <1>8, <2>2 DEF Outcome
        <3> QED BY <1>2, <1>4, <3>1
    <2>3. CASE slotOf[j] \in D
        <3>1. j \in open /\ slotOf[j] # 0
            BY <2>1, <2>3 DEF Fresh, Matcher
        <3>2. /\ Answer(h[open \ {j}][slotOf[j]], open \ {j}, T, D)
              /\ h[open \ {j}][slotOf[j]] = g[open \ {j}][slotOf[j]]
            <4>1. open \ {j} \in SUBSET open /\ open \ {j} # open
                BY <3>1
            <4> QED BY <2>3, <4>1
        <3>3. m = n /\ m.open \subseteq open \ {j}
            BY <1>1, <1>3, <1>5, <3>2 DEF Moved, Answer
        <3>4. h[m.open][i] = g[m.open][i]
            <4>1. m.open \in SUBSET open /\ m.open # open
                BY <3>1, <3>3
            <4> QED BY <4>1
        <3>5. v = w
            BY <1>6, <1>8, <3>1, <3>3, <3>4 DEF Outcome
        <3> QED BY <1>2, <1>4, <3>5
    <2> QED BY <2>2, <2>3
<1> QED BY <1>7, <1>8

LEMMA SolutionsAgree ==
    ASSUME NEW adj, NEW slotOf, NEW T, NEW D, Matcher(adj, slotOf, T, D),
           NEW R \in SUBSET T, NEW S \in SUBSET T, NEW h, NEW g,
           Solves(adj, slotOf, h, R, D), Solves(adj, slotOf, g, S, D)
    PROVE  \A U \in SUBSET (R \cap S) : \A i \in D : h[U][i] = g[U][i]
<1> DEFINE Wrong == {U \in SUBSET (R \cap S) : ~ \A i \in D : h[U][i] = g[U][i]}
<1>0. \A U \in SUBSET R : \A i \in D :
        /\ h[U][i] = Visit(adj, slotOf, h, U, i)
        /\ Answer(h[U][i], U, T, D)
    BY SolutionAnswers
<1>1. \A U \in SUBSET S : \A i \in D :
        /\ g[U][i] = Visit(adj, slotOf, g, U, i)
        /\ Answer(g[U][i], U, T, D)
    BY SolutionAnswers
<1>2. ASSUME Wrong # {} PROVE FALSE
    <2>0. PICK C : C = R \cap S
        OBVIOUS
    <2>1. Wrong \subseteq SUBSET C /\ IsFiniteSet(C)
        BY <2>0, FS_Subset DEF Matcher
    <2>2. PICK U \in Wrong : \A a \in Wrong : a \subseteq U => a = U
        <3> HIDE DEF Wrong
        <3> QED BY <1>2, <2>1, LeastSubset
    <2>3. U \in SUBSET T /\ U \in SUBSET R /\ U \in SUBSET S
        BY <2>2
    <2>4. \A V \in SUBSET U : V # U =>
            \A k \in D : Answer(h[V][k], V, T, D) /\ h[V][k] = g[V][k]
        BY <1>0, <2>2, <2>3
    <2>5. \A i \in D : Visit(adj, slotOf, h, U, i) = Visit(adj, slotOf, g, U, i)
        <3> HIDE DEF Wrong
        <3> QED BY <2>3, <2>4, VisitSame
    <2>6. \A i \in D : h[U][i] = g[U][i]
        BY <1>0, <1>1, <2>3, <2>5
    <2> QED BY <2>2, <2>6
<1> QED BY <1>2

LEMMA SolutionExists ==
    ASSUME NEW adj, NEW slotOf, NEW T, NEW D, Matcher(adj, slotOf, T, D)
    PROVE  \E h : Solves(adj, slotOf, h, T, D)
<1> DEFINE Wrong == {U \in SUBSET T : ~ \E h : Solves(adj, slotOf, h, U, D)}
           of(U) == CHOOSE h : Solves(adj, slotOf, h, U, D)
<1> SUFFICES ASSUME Wrong # {} PROVE FALSE
    OBVIOUS
<1>1. PICK A \in Wrong : \A a \in Wrong : a \subseteq A => a = A
    <2>1. Wrong \subseteq SUBSET T /\ IsFiniteSet(T)
        BY DEF Matcher
    <2> HIDE DEF Wrong
    <2> QED BY <2>1, LeastSubset
<1>2. A \in SUBSET T /\ ~ \E h : Solves(adj, slotOf, h, A, D)
    BY <1>1
<1>3. ASSUME NEW U \in SUBSET A, U # A PROVE Solves(adj, slotOf, of(U), U, D)
    <2>1. U \in SUBSET T /\ U \notin Wrong
        BY <1>1, <1>2, <1>3
    <2>2. \E h : Solves(adj, slotOf, h, U, D)
        BY <2>1
    <2> QED BY <2>2
<1> HIDE DEF Wrong, of
<1> DEFINE below == [U \in SUBSET A |-> [i \in D |-> of(U)[U][i]]]
           g == [U \in SUBSET A |-> [i \in D |-> Visit(adj, slotOf, below, U, i)]]
<1>4. ASSUME NEW U \in SUBSET A, U # A, NEW i \in D
      PROVE  /\ below[U][i] = of(U)[U][i] /\ Answer(below[U][i], U, T, D)
             /\ of(U)[U][i] = Visit(adj, slotOf, of(U), U, i)
    <2>1. PICK h : h = of(U)
        OBVIOUS
    <2>2. Solves(adj, slotOf, h, U, D) /\ U \in SUBSET T /\ U \in SUBSET U
        BY <1>2, <1>3, <1>4, <2>1
    <2>3. Answer(h[U][i], U, T, D) /\ h[U][i] = Visit(adj, slotOf, h, U, i)
        BY <2>2, SolutionAnswers
    <2> QED BY <2>1, <2>3
<1>5. ASSUME NEW U \in SUBSET A, U # A, NEW V \in SUBSET U, NEW k \in D
      PROVE  of(U)[V][k] = of(V)[V][k] /\ V # A /\ V \in SUBSET A
    <2>1. V \in SUBSET A /\ V # A
        BY <1>5
    <2>2. PICK h : h = of(U)
        OBVIOUS
    <2>3. PICK f : f = of(V)
        OBVIOUS
    <2>4. Solves(adj, slotOf, h, U, D) /\ Solves(adj, slotOf, f, V, D)
        BY <1>3, <1>5, <2>1, <2>2, <2>3
    <2>5. U \in SUBSET T /\ V \in SUBSET T /\ V \in SUBSET (U \cap V)
        BY <1>2, <2>1
    <2>6. h[V][k] = f[V][k]
        <3> HIDE DEF below, g
        <3> QED BY <2>4, <2>5, SolutionsAgree
    <2> QED BY <2>1, <2>2, <2>3, <2>6
<1>6. ASSUME NEW U \in SUBSET A, U # A, NEW i \in D
      PROVE  Visit(adj, slotOf, below, U, i) = of(U)[U][i]
    <2>1. PICK h : h = of(U)
        OBVIOUS
    <2>2. \A V \in SUBSET U : V # U =>
            \A k \in D : Answer(below[V][k], V, T, D) /\ below[V][k] = h[V][k]
        <3> SUFFICES ASSUME NEW V \in SUBSET U, NEW k \in D
                     PROVE  /\ Answer(below[V][k], V, T, D)
                            /\ below[V][k] = of(U)[V][k]
            BY <2>1
        <3> HIDE DEF below
        <3>1. of(U)[V][k] = of(V)[V][k] /\ V # A /\ V \in SUBSET A
            BY <1>5, <1>6
        <3> QED BY <1>4, <3>1
    <2>3. U \in SUBSET T
        BY <1>2
    <2>4. Visit(adj, slotOf, below, U, i) = Visit(adj, slotOf, h, U, i)
        <3>1. PICK b : b = below
            OBVIOUS
        <3> HIDE DEF below, g
        <3> QED BY <2>2, <2>3, <3>1, VisitSame
    <2> QED BY <1>4, <1>6, <2>1, <2>4
<1>7. ASSUME NEW U \in SUBSET A, U # A, NEW i \in D
      PROVE  below[U][i] = g[U][i]
    BY <1>4, <1>6, <1>7
<1>8. ASSUME NEW U \in SUBSET A, NEW i \in D
      PROVE  Visit(adj, slotOf, below, U, i) = Visit(adj, slotOf, g, U, i)
    <2>1. \A V \in SUBSET U : V # U =>
            \A k \in D : Answer(below[V][k], V, T, D) /\ below[V][k] = g[V][k]
        <3> HIDE DEF below, g
        <3> QED BY <1>4, <1>7
    <2>2. U \in SUBSET T
        BY <1>2
    <2>3. PICK b, c : b = below /\ c = g
        OBVIOUS
    <2> HIDE DEF below, g
    <2> QED BY <2>1, <2>2, <2>3, VisitSame
<1>9. g = [U \in SUBSET A |-> [i \in D |-> Visit(adj, slotOf, g, U, i)]]
    <2>1. PICK b : b = below
        OBVIOUS
    <2>2. PICK c : c = g
        OBVIOUS
    <2>3. c = [U \in SUBSET A |-> [i \in D |-> Visit(adj, slotOf, b, U, i)]]
        BY <2>1, <2>2
    <2>4. \A U \in SUBSET A : \A i \in D :
            Visit(adj, slotOf, b, U, i) = Visit(adj, slotOf, c, U, i)
        BY <1>8, <2>1, <2>2
    <2> HIDE DEF below, g
    <2>5. \A U \in SUBSET A : [i \in D |-> Visit(adj, slotOf, b, U, i)]
                              = [i \in D |-> Visit(adj, slotOf, c, U, i)]
        BY <2>4, Zenon
    <2>6. c = [U \in SUBSET A |-> [i \in D |-> Visit(adj, slotOf, c, U, i)]]
        BY <2>3, <2>5, Zenon
    <2> QED BY <2>2, <2>6
<1>10. Solves(adj, slotOf, g, A, D)
    <2> HIDE DEF below, g
    <2> QED BY <1>9 DEF Solves
<1> QED BY <1>2, <1>10

LEMMA AugmentSolves ==
    ASSUME NEW adj, NEW slotOf, NEW T, NEW D, Matcher(adj, slotOf, T, D)
    PROVE  Solves(adj, slotOf, Augment(adj, slotOf), T, D)
<1>1. DOMAIN adj = D /\ DOMAIN slotOf = T
    BY DEF Matcher
<1>2. Augment(adj, slotOf) = CHOOSE h : Solves(adj, slotOf, h, T, D)
    BY <1>1 DEF Augment, Solves, Visit
<1> QED BY <1>2, SolutionExists


\* Nobody has two slots or a slot that does not admit it, and no slot has two.
Matched(adj, slotOf, T) ==
    /\ \A x \in T : slotOf[x] # 0 => x \in adj[slotOf[x]]
    /\ \A x, y \in T : slotOf[x] = slotOf[y] /\ slotOf[x] # 0 => x = y

\* A search that fails has gone through all that the slot admits, and through
\* all that the slots of those admit: every one of them has a slot.
Stuck(adj, slotOf, open, i, left) ==
    /\ adj[i] \cap left = {}
    /\ \A x \in open \ left : slotOf[x] # 0 /\ adj[slotOf[x]] \cap left = {}

\* One that succeeds gives i a third of open, and takes nobody's slot away.
Placed(adj, slotOf, T, D, open, i, new) ==
    /\ \A x \in T \ open : new[x] = slotOf[x]
    /\ \A x \in T : new[x] # 0 => x \in adj[new[x]]
    /\ \A x, y \in open : new[x] = new[y] /\ new[x] # 0 => x = y
    /\ \A k \in D : (\E x \in open : new[x] = k)
                    <=> k = i \/ \E x \in open : slotOf[x] = k

Searched(adj, slotOf, T, D, open, i, a) ==
    IF a.found THEN Placed(adj, slotOf, T, D, open, i, a.slotOf)
    ELSE a.slotOf = slotOf /\ Stuck(adj, slotOf, open, i, a.open)

\* The third that was tried had no slot.
LEMMA FreeThird ==
    ASSUME NEW adj, NEW slotOf, NEW T, NEW D, Matcher(adj, slotOf, T, D),
           Matched(adj, slotOf, T), NEW open \in SUBSET T, NEW i \in D,
           \A x \in open : slotOf[x] # i,
           NEW j \in open, j \in adj[i], slotOf[j] = 0
    PROVE  Placed(adj, slotOf, T, D, open, i, [slotOf EXCEPT ![j] = i])
<1>1. PICK new : new = [slotOf EXCEPT ![j] = i]
    OBVIOUS
<1>2. slotOf \in [T -> D \cup {0}] /\ 0 \notin D /\ j \in T
    BY DEF Matcher
<1>3. new[j] = i /\ \A x \in T : x # j => new[x] = slotOf[x]
    BY <1>1, <1>2
<1>4. \A x \in T \ open : new[x] = slotOf[x]
    BY <1>3
<1>5. \A x \in T : new[x] # 0 => x \in adj[new[x]]
    BY <1>3 DEF Matched
<1>6. \A x, y \in open : new[x] = new[y] /\ new[x] # 0 => x = y
    BY <1>3 DEF Matched
<1>7. \A k \in D : (\E x \in open : new[x] = k)
                   <=> k = i \/ \E x \in open : slotOf[x] = k
    <2> TAKE k \in D
    <2>1. k # 0
        BY <1>2
    <2>2. ASSUME NEW x \in open, new[x] = k
          PROVE  k = i \/ \E y \in open : slotOf[y] = k
        BY <1>3, <2>2
    <2>3. ASSUME NEW x \in open, slotOf[x] = k PROVE new[x] = k
        BY <1>3, <2>1, <2>3
    <2> QED BY <1>3, <2>2, <2>3
<1> QED BY <1>1, <1>4, <1>5, <1>6, <1>7 DEF Placed

\* It had one, for which another third was found.
LEMMA MovedThird ==
    ASSUME NEW adj, NEW slotOf, NEW T, NEW D, Matcher(adj, slotOf, T, D),
           Matched(adj, slotOf, T), NEW open \in SUBSET T, NEW i \in D,
           \A x \in open : slotOf[x] # i,
           NEW j \in open, j \in adj[i], slotOf[j] \in D,
           NEW p \in [T -> D \cup {0}],
           Placed(adj, slotOf, T, D, open \ {j}, slotOf[j], p)
    PROVE  Placed(adj, slotOf, T, D, open, i, [p EXCEPT ![j] = i])
<1>1. PICK new : new = [p EXCEPT ![j] = i]
    OBVIOUS
<1>2. 0 \notin D /\ j \in T
    BY DEF Matcher
<1>3. new[j] = i /\ \A x \in T : x # j => new[x] = p[x]
    BY <1>1, <1>2
<1>4. PICK W : W = open \ {j}
    OBVIOUS
<1>5. PICK b : b = slotOf[j]
    OBVIOUS
<1>6. /\ \A x \in T \ W : p[x] = slotOf[x]
      /\ \A x \in T : p[x] # 0 => x \in adj[p[x]]
      /\ \A x, y \in W : p[x] = p[y] /\ p[x] # 0 => x = y
      /\ \A k \in D : (\E x \in W : p[x] = k)
                      <=> k = b \/ \E x \in W : slotOf[x] = k
    BY <1>4, <1>5 DEF Placed
<1>7. b # i /\ W \subseteq open /\ j \notin W /\ \A x \in open : x = j \/ x \in W
    BY <1>4, <1>5
<1>8. \A x \in W : p[x] # i
    BY <1>6, <1>7
<1>9. \A x \in T \ open : new[x] = slotOf[x]
    BY <1>3, <1>6, <1>7
<1>10. \A x \in T : new[x] # 0 => x \in adj[new[x]]
    BY <1>3, <1>6
<1>11. \A x, y \in open : new[x] = new[y] /\ new[x] # 0 => x = y
    BY <1>3, <1>6, <1>7, <1>8
<1>12. \A k \in D : (\E x \in open : new[x] = k)
                    <=> k = i \/ \E x \in open : slotOf[x] = k
    <2> TAKE k \in D
    <2>1. ASSUME NEW x \in open, new[x] = k
          PROVE  k = i \/ \E y \in open : slotOf[y] = k
        <3>1. x # j => x \in W /\ p[x] = k
            BY <1>3, <1>7, <2>1
        <3> QED BY <1>3, <1>5, <1>6, <1>7, <2>1, <3>1
    <2>2. ASSUME NEW x \in open, slotOf[x] = k PROVE \E y \in open : new[y] = k
        <3>1. \E y \in W : p[y] = k
            BY <1>5, <1>6, <1>7, <2>2
        <3> QED BY <1>3, <1>7, <3>1
    <2> QED BY <1>3, <2>1, <2>2
<1> QED BY <1>1, <1>9, <1>10, <1>11, <1>12 DEF Placed

\* It had one and keeps it: the search goes on among the thirds of rest.
LEMMA KeptThird ==
    ASSUME NEW adj, NEW slotOf, NEW T, NEW D, Matcher(adj, slotOf, T, D),
           Matched(adj, slotOf, T), NEW open \in SUBSET T, NEW i \in D,
           \A x \in open : slotOf[x] # i,
           NEW j \in open, j \in adj[i], slotOf[j] \in D,
           NEW rest \in SUBSET (open \ {j}),
           Stuck(adj, slotOf, open \ {j}, slotOf[j], rest),
           NEW a, Searched(adj, slotOf, T, D, rest, i, a), Answer(a, rest, T, D)
    PROVE  Searched(adj, slotOf, T, D, open, i, a)
<1>0. 0 \notin D /\ slotOf[j] # 0 /\ a.open \subseteq rest
    BY DEF Matcher, Answer
<1>1. CASE ~a.found
    <2>1. a.slotOf = slotOf /\ Stuck(adj, slotOf, rest, i, a.open)
        BY <1>1 DEF Searched
    <2>2. ASSUME NEW x \in open \ a.open
          PROVE  slotOf[x] # 0 /\ adj[slotOf[x]] \cap a.open = {}
        <3>1. CASE x = j
            BY <1>0, <3>1 DEF Stuck
        <3>2. CASE x \in rest
            BY <2>1, <2>2, <3>2 DEF Stuck
        <3>3. CASE x # j /\ x \notin rest
            BY <1>0, <3>3 DEF Stuck
        <3> QED BY <3>1, <3>2, <3>3
    <2>3. Stuck(adj, slotOf, open, i, a.open)
        BY <2>1, <2>2 DEF Stuck
    <2> QED BY <1>1, <2>1, <2>3 DEF Searched
<1>2. CASE a.found
    <2>1. PICK new : new = a.slotOf
        OBVIOUS
    <2>2. /\ \A x \in T \ rest : new[x] = slotOf[x]
          /\ \A x \in T : new[x] # 0 => x \in adj[new[x]]
          /\ \A x, y \in rest : new[x] = new[y] /\ new[x] # 0 => x = y
          /\ \A k \in D : (\E x \in rest : new[x] = k)
                          <=> k = i \/ \E x \in rest : slotOf[x] = k
        BY <1>2, <2>1 DEF Searched, Placed
    <2>3. rest \subseteq open /\ open \subseteq T
        OBVIOUS
    <2>4. \A x \in T \ open : new[x] = slotOf[x]
        BY <2>2, <2>3
    <2>5. ASSUME NEW x \in rest, NEW y \in open \ rest, new[x] = new[y],
                 new[x] # 0
          PROVE  FALSE
        <3>1. new[y] = slotOf[y] /\ slotOf[y] \in D
            BY <2>2, <2>3, <2>5 DEF Matcher
        <3>2. slotOf[y] # i
            BY <2>5
        <3>3. PICK z \in rest : slotOf[z] = slotOf[y]
            BY <2>2, <2>5, <3>1, <3>2
        <3>4. z = y
            BY <2>3, <2>5, <3>1, <3>3 DEF Matched
        <3> QED BY <2>5, <3>3, <3>4
    <2>6. ASSUME NEW x \in open \ rest, NEW y \in open \ rest, new[x] = new[y],
                 new[x] # 0
          PROVE  x = y
        BY <2>2, <2>3, <2>6 DEF Matched
    <2>7. \A x, y \in open : new[x] = new[y] /\ new[x] # 0 => x = y
        BY <2>2, <2>5, <2>6
    <2>8. \A k \in D : (\E x \in open : new[x] = k)
                       <=> k = i \/ \E x \in open : slotOf[x] = k
        <3> TAKE k \in D
        <3>1. ASSUME NEW x \in open, new[x] = k
              PROVE  k = i \/ \E y \in open : slotOf[y] = k
            BY <2>2, <2>3, <3>1
        <3>2. ASSUME NEW x \in open, slotOf[x] = k
              PROVE  \E y \in open : new[y] = k
            BY <2>2, <2>3, <3>2
        <3>3. \E y \in open : new[y] = i
            BY <2>2, <2>3
        <3> QED BY <3>1, <3>2, <3>3
    <2>9. Placed(adj, slotOf, T, D, open, i, new)
        BY <2>2, <2>4, <2>7, <2>8 DEF Placed
    <2> QED BY <1>2, <2>1, <2>9 DEF Searched
<1> QED BY <1>1, <1>2

\* What a search for a slot that nobody has comes to.
LEMMA SearchResult ==
    ASSUME NEW adj, NEW slotOf, NEW T, NEW D, Matcher(adj, slotOf, T, D),
           Matched(adj, slotOf, T), NEW h, Solves(adj, slotOf, h, T, D)
    PROVE  \A U \in SUBSET T : \A i \in D :
            (\A x \in U : slotOf[x] # i)
            => Searched(adj, slotOf, T, D, U, i, h[U][i])
<1> DEFINE Fine(U) == \A i \in D : (\A x \in U : slotOf[x] # i)
                        => Searched(adj, slotOf, T, D, U, i, h[U][i])
           Wrong == {U \in SUBSET T : ~Fine(U)}
<1> SUFFICES ASSUME Wrong # {} PROVE FALSE
    OBVIOUS
<1>1. PICK U \in Wrong : \A a \in Wrong : a \subseteq U => a = U
    <2>1. Wrong \subseteq SUBSET T /\ IsFiniteSet(T)
        BY DEF Matcher
    <2> HIDE DEF Wrong
    <2> QED BY <2>1, LeastSubset
<1>2. U \in SUBSET T /\ \A V \in SUBSET U : V # U => Fine(V)
    <2> HIDE DEF Fine
    <2> QED BY <1>1
<1>3. PICK i \in D : /\ \A x \in U : slotOf[x] # i
                     /\ ~Searched(adj, slotOf, T, D, U, i, h[U][i])
    BY <1>1
<1> HIDE DEF Wrong
<1>4. T \in SUBSET T
    OBVIOUS
<1>5. \A V \in SUBSET T : \A k \in D :
        h[V][k] = Visit(adj, slotOf, h, V, k) /\ Answer(h[V][k], V, T, D)
    BY <1>4, SolutionAnswers
<1>6. PICK v : v = h[U][i]
    OBVIOUS
<1>7. PICK j : j = First(adj, U, i)
    OBVIOUS
<1>8. PICK m : m = Moved(adj, slotOf, h, U, i)
    OBVIOUS
<1>9. Outcome(adj, slotOf, D, h, U, i, j, m, v)
    <2>1. v = Visit(adj, slotOf, h, U, i)
        BY <1>2, <1>5, <1>6
    <2> QED BY <1>2, <1>7, <1>8, <2>1, VisitCases
<1>10. ASSUME j \in Fresh(adj, U, i), slotOf[j] \in D
       PROVE  /\ Answer(m, U \ {j}, T, D)
              /\ Searched(adj, slotOf, T, D, U \ {j}, slotOf[j], m)
    <2>1. j \in U /\ j \in T /\ slotOf[j] # 0
        BY <1>2, <1>10 DEF Fresh, Matcher
    <2>2. PICK V \in SUBSET T : V = U \ {j}
        BY <1>2
    <2>3. PICK b \in D : b = slotOf[j]
        BY <1>10
    <2>4. m = h[V][b]
        BY <1>7, <1>8, <2>2, <2>3 DEF Moved
    <2>5. V \in SUBSET U /\ V # U
        BY <2>1, <2>2
    <2>6. \A x \in V : slotOf[x] # b
        BY <2>1, <2>2, <2>3 DEF Matched
    <2>7. Searched(adj, slotOf, T, D, V, b, h[V][b])
        BY <1>2, <2>5, <2>6
    <2> QED BY <1>5, <2>2, <2>3, <2>4, <2>7
<1>11. CASE /\ Fresh(adj, U, i) = {}
            /\ v = [found |-> FALSE, open |-> U, slotOf |-> slotOf]
    <2>1. Stuck(adj, slotOf, U, i, U)
        BY <1>11 DEF Fresh, Stuck
    <2>2. ~v.found /\ v.slotOf = slotOf /\ v.open = U
        BY <1>11
    <2> QED BY <1>3, <1>6, <2>1, <2>2 DEF Searched
<1>12. CASE /\ j \in Fresh(adj, U, i) /\ slotOf[j] = 0
            /\ v = [found |-> TRUE, open |-> U \ {j},
                    slotOf |-> [slotOf EXCEPT ![j] = i]]
    <2>1. Placed(adj, slotOf, T, D, U, i, [slotOf EXCEPT ![j] = i])
        BY <1>2, <1>3, <1>12, FreeThird DEF Fresh
    <2>2. v.found /\ v.slotOf = [slotOf EXCEPT ![j] = i]
        BY <1>12
    <2> QED BY <1>3, <1>6, <2>1, <2>2 DEF Searched
<1>13. CASE /\ j \in Fresh(adj, U, i) /\ slotOf[j] \in D /\ m.found
            /\ v = [m EXCEPT !.slotOf[j] = i]
    <2>1. m \in Answers(T, D)
        BY <1>10, <1>13 DEF Answer
    <2>2. PICK p \in [T -> D \cup {0}] : p = m.slotOf
        BY <2>1 DEF Answers
    <2>3. Placed(adj, slotOf, T, D, U \ {j}, slotOf[j], p)
        BY <1>10, <1>13, <2>2 DEF Searched
    <2>4. Placed(adj, slotOf, T, D, U, i, [p EXCEPT ![j] = i])
        BY <1>2, <1>3, <1>13, <2>2, <2>3, MovedThird DEF Fresh
    <2>5. v.found /\ v.slotOf = [p EXCEPT ![j] = i]
        BY <1>13, <2>1, <2>2 DEF Answers
    <2> QED BY <1>3, <1>6, <2>4, <2>5 DEF Searched
<1>14. CASE /\ j \in Fresh(adj, U, i) /\ slotOf[j] \in D /\ ~m.found
            /\ v = h[m.open][i]
    <2>1. PICK rest \in SUBSET (U \ {j}) : rest = m.open
        BY <1>10, <1>14 DEF Answer
    <2>2. Stuck(adj, slotOf, U \ {j}, slotOf[j], rest)
        BY <1>10, <1>14, <2>1 DEF Searched
    <2>3. j \in U /\ j \in adj[i] /\ rest \in SUBSET U /\ rest # U
          /\ rest \in SUBSET T
        BY <1>2, <1>14 DEF Fresh
    <2>4. Searched(adj, slotOf, T, D, rest, i, h[rest][i])
        BY <1>2, <1>3, <2>3
    <2>5. Searched(adj, slotOf, T, D, rest, i, v) /\ Answer(v, rest, T, D)
        BY <1>5, <1>14, <2>1, <2>3, <2>4
    <2>6. Searched(adj, slotOf, T, D, U, i, v)
        BY <1>2, <1>3, <1>14, <2>2, <2>3, <2>5, KeptThird
    <2> QED BY <1>3, <1>6, <2>6
<1> QED BY <1>9, <1>11, <1>12, <1>13, <1>14 DEF Outcome


\* The slots can be filled.
Fits(adj, T, D) ==
    \E f \in [D -> T] : /\ \A i \in D : f[i] \in adj[i]
                        /\ \A i, k \in D : f[i] = f[k] => i = k

\* Not so when a search fails: the thirds that it went through fill the slots
\* they have, and the slot it was for admits no others.
LEMMA StuckNoFit ==
    ASSUME NEW adj, NEW slotOf, NEW T, NEW D, Matcher(adj, slotOf, T, D),
           Matched(adj, slotOf, T), NEW i \in D, \A x \in T : slotOf[x] # i,
           NEW left \in SUBSET T, Stuck(adj, slotOf, T, i, left)
    PROVE  ~Fits(adj, T, D)
<1> SUFFICES ASSUME NEW f \in [D -> T], \A k \in D : f[k] \in adj[k],
                    \A a, b \in D : f[a] = f[b] => a = b
             PROVE  FALSE
    BY DEF Fits
<1>1. PICK V : V = T \ left
    OBVIOUS
<1>2. IsFiniteSet(V) /\ V \subseteq T
    BY <1>1, FS_Subset DEF Matcher
<1>3. adj \in [D -> SUBSET T] /\ slotOf \in [T -> D \cup {0}]
    BY DEF Matcher
<1>4. f[i] \in V
    BY <1>1, <1>3 DEF Stuck
<1>5. \A x \in V : slotOf[x] \in D /\ f[slotOf[x]] \in V
    <2> TAKE x \in V
    <2>1. slotOf[x] \in D /\ adj[slotOf[x]] \cap left = {}
        BY <1>1, <1>2, <1>3 DEF Stuck
    <2>2. f[slotOf[x]] \in adj[slotOf[x]] /\ f[slotOf[x]] \in T
        BY <2>1
    <2> QED BY <1>1, <2>1, <2>2
<1> DEFINE g == [x \in V |-> f[slotOf[x]]]
<1>6. g \in [V -> V]
    BY <1>5
<1>7. \A x, y \in V : g[x] = g[y] => x = y
    <2> SUFFICES ASSUME NEW x \in V, NEW y \in V, g[x] = g[y]
                 PROVE  x = y
        OBVIOUS
    <2>1. slotOf[x] \in D /\ slotOf[y] \in D /\ f[slotOf[x]] = f[slotOf[y]]
        BY <1>5
    <2>2. slotOf[x] = slotOf[y] /\ slotOf[x] # 0
        BY <2>1 DEF Matcher
    <2> QED BY <1>2, <2>2 DEF Matched
<1>8. g \in Surjection(V, V)
    <2> HIDE DEF g
    <2>1. g \in Injection(V, V)
        BY <1>6, <1>7 DEF Injection, IsInjective
    <2> QED BY <1>2, <2>1, FS_Injection
<1>9. PICK x \in V : g[x] = f[i]
    <2> HIDE DEF g
    <2> QED BY <1>4, <1>8 DEF Surjection
<1>10. slotOf[x] = i
    BY <1>5, <1>9
<1> QED BY <1>2, <1>10

\* After the first k of n slots.
Progress(adj, T, n, k, a) ==
    /\ a.ok \in BOOLEAN /\ a.slotOf \in [T -> 0 .. n]
    /\ Matched(adj, a.slotOf, T)
    /\ \A x \in T : a.slotOf[x] <= k
    /\ a.ok => \A i \in 1 .. k : \E x \in T : a.slotOf[x] = i
    /\ ~a.ok => ~Fits(adj, T, 1 .. n)

NextSlot(adj, i, a) ==
    [ok |-> a.ok /\ AugmentSlot(adj, i, a.slotOf).found,
     slotOf |-> AugmentSlot(adj, i, a.slotOf).slotOf]

NoSlots(T) == [ok |-> TRUE, slotOf |-> [j \in T |-> 0]]

LEMMA NoSlotsProgress ==
    ASSUME NEW adj, NEW T, NEW n \in Nat
    PROVE  Progress(adj, T, n, 0, NoSlots(T))
BY DEF Progress, NoSlots, Matched

LEMMA SlotProgress ==
    ASSUME NEW T, T \subseteq Nat, IsFiniteSet(T), NEW n \in Nat,
           NEW adj \in [1 .. n -> SUBSET T], NEW k \in 0 .. n, k # 0,
           NEW a, Progress(adj, T, n, k - 1, a)
    PROVE  Progress(adj, T, n, k, NextSlot(adj, k, a))
<1>1. PICK D : D = 1 .. n
    OBVIOUS
<1>2. PICK s : s = a.slotOf
    OBVIOUS
<1>3. D \cup {0} = 0 .. n /\ k \in D /\ 0 \notin D
    BY <1>1
<1>4. /\ s \in [T -> 0 .. n] /\ Matched(adj, s, T) /\ \A x \in T : s[x] <= k - 1
      /\ a.ok => \A i \in 1 .. k - 1 : \E x \in T : s[x] = i
      /\ ~a.ok => ~Fits(adj, T, D)
      /\ a.ok \in BOOLEAN
    BY <1>1, <1>2 DEF Progress
<1>5. Matcher(adj, s, T, D)
    BY <1>1, <1>3, <1>4 DEF Matcher
<1>6. \A x \in T : s[x] # k
    BY <1>4
<1>7. PICK h : h = Augment(adj, s)
    OBVIOUS
<1>8. PICK r : r = h[T][k]
    OBVIOUS
<1>9. Solves(adj, s, h, T, D) /\ T \in SUBSET T
    BY <1>5, <1>7, AugmentSolves
<1>10. Searched(adj, s, T, D, T, k, r)
    <2>1. Searched(adj, s, T, D, T, k, h[T][k])
        BY <1>3, <1>4, <1>5, <1>6, <1>9, SearchResult
    <2> QED BY <1>8, <2>1
<1>11. r \in Answers(T, D)
    <2>1. Answer(h[T][k], T, T, D)
        BY <1>3, <1>5, <1>9, SolutionAnswers
    <2> QED BY <1>8, <2>1 DEF Answer
<1>12. PICK b : b = NextSlot(adj, k, a)
    OBVIOUS
<1>13. b.ok = (a.ok /\ r.found) /\ b.slotOf = r.slotOf
    <2>1. AugmentSlot(adj, k, s) = r
        BY <1>4, <1>7, <1>8 DEF AugmentSlot
    <2> QED BY <1>2, <1>12, <2>1 DEF NextSlot
<1>14. /\ b.ok \in BOOLEAN /\ r.found \in BOOLEAN
       /\ b.slotOf \in [T -> 0 .. n] /\ r.open \in SUBSET T
    BY <1>3, <1>4, <1>11, <1>13 DEF Answers
<1>15. CASE ~r.found
    <2>1. b.slotOf = s /\ Stuck(adj, s, T, k, r.open)
        BY <1>10, <1>13, <1>15 DEF Searched
    <2>2. ~b.ok /\ ~Fits(adj, T, D)
        BY <1>3, <1>4, <1>5, <1>6, <1>13, <1>14, <1>15, <2>1, StuckNoFit
    <2>3. \A x \in T : s[x] <= k
        BY <1>4
    <2> QED BY <1>1, <1>4, <1>12, <1>14, <2>1, <2>2, <2>3 DEF Progress
<1>16. CASE r.found
    <2>1. Placed(adj, s, T, D, T, k, r.slotOf)
        BY <1>10, <1>16 DEF Searched
    <2>2. PICK q \in [T -> 0 .. n] : q = r.slotOf /\ q = b.slotOf
        BY <1>13, <1>14
    <2>3. /\ Matched(adj, q, T)
          /\ \A i \in D : (\E x \in T : q[x] = i)
                          <=> i = k \/ \E x \in T : s[x] = i
        BY <2>1, <2>2 DEF Placed, Matched
    <2>4. \A x \in T : q[x] <= k
        <3> TAKE x \in T
        <3>1. q[x] = 0 \/ q[x] \in D
            BY <1>3
        <3>2. q[x] \in D => q[x] = k \/ q[x] <= k - 1
            BY <1>4, <2>3
        <3> QED BY <3>1, <3>2
    <2>5. b.ok = a.ok
        BY <1>4, <1>13, <1>16
    <2>6. b.ok => \A i \in 1 .. k : \E x \in T : q[x] = i
        <3> SUFFICES ASSUME b.ok, NEW i \in 1 .. k
                     PROVE  \E x \in T : q[x] = i
            OBVIOUS
        <3>1. i \in D /\ (i = k \/ i \in 1 .. k - 1)
            BY <1>1
        <3> QED BY <1>4, <2>3, <2>5, <3>1
    <2> QED BY <1>1, <1>4, <1>12, <1>14, <2>2, <2>3, <2>4, <2>5, <2>6 DEF Progress
<1> QED BY <1>14, <1>15, <1>16

\* The loop over the slots.
Loops(adj, T, m, h) ==
    h = [i \in 0 .. m |-> IF i = 0 THEN NoSlots(T) ELSE NextSlot(adj, i, h[i - 1])]

LEMMA LoopExists ==
    ASSUME NEW adj, NEW T, NEW n \in Nat
    PROVE  \E h : Loops(adj, T, n, h)
<1> DEFINE Wrong == {m \in Nat : ~ \E h : Loops(adj, T, m, h)}
<1> SUFFICES ASSUME Wrong # {} PROVE FALSE
    OBVIOUS
<1>1. PICK m : m = Min(Wrong)
    OBVIOUS
<1>2. Wrong \subseteq Nat
    OBVIOUS
<1>3. m \in Wrong /\ \A y \in Wrong : m <= y
    <2> HIDE DEF Wrong
    <2> QED BY <1>1, <1>2, Smallest
<1>4. m \in Nat /\ ~ \E h : Loops(adj, T, m, h)
    BY <1>3
<1>5. m # 0
    <2> DEFINE h == [i \in 0 .. 0 |-> NoSlots(T)]
    <2>1. \A i \in 0 .. 0 : i = 0
        OBVIOUS
    <2>2. h = [i \in 0 .. 0 |-> IF i = 0 THEN NoSlots(T)
                                ELSE NextSlot(adj, i, h[i - 1])]
        BY <2>1
    <2>3. Loops(adj, T, 0, h)
        <3> HIDE DEF h
        <3> QED BY <2>2 DEF Loops
    <2> QED BY <1>4, <2>3
<1>6. m - 1 \in Nat /\ m - 1 \notin Wrong
    BY <1>3, <1>4, <1>5
<1>7. PICK g : Loops(adj, T, m - 1, g)
    BY <1>6
<1> HIDE DEF Wrong
<1> DEFINE h == [i \in 0 .. m |-> IF i = m THEN NextSlot(adj, m, g[m - 1])
                                  ELSE g[i]]
<1>8. \A i \in 0 .. m - 1 :
        g[i] = IF i = 0 THEN NoSlots(T) ELSE NextSlot(adj, i, g[i - 1])
    BY <1>7, Zenon DEF Loops
<1>9. ASSUME NEW i \in 0 .. m
      PROVE  h[i] = IF i = 0 THEN NoSlots(T) ELSE NextSlot(adj, i, h[i - 1])
    <2>1. CASE i = m
        <3>1. m - 1 \in 0 .. m /\ m - 1 # m
            BY <1>4, <1>5
        <3>2. h[i - 1] = g[m - 1]
            BY <2>1, <3>1
        <3> QED BY <1>5, <2>1, <3>2
    <2>2. CASE i = 0
        <3>1. i \in 0 .. m - 1 /\ i # m
            BY <1>4, <1>5, <2>2
        <3> QED BY <1>8, <2>2, <3>1
    <2>3. CASE i # m /\ i # 0
        <3>1. i \in 0 .. m - 1 /\ i - 1 \in 0 .. m /\ i - 1 # m
            BY <1>4, <2>3
        <3>2. h[i] = g[i] /\ h[i - 1] = g[i - 1]
            BY <2>3, <3>1
        <3> HIDE DEF h
        <3> QED BY <1>8, <2>3, <3>1, <3>2
    <2> QED BY <2>1, <2>2, <2>3
<1>10. h = [i \in 0 .. m |-> h[i]]
    OBVIOUS
<1>11. Loops(adj, T, m, h)
    <2> HIDE DEF h
    <2>1. h = [i \in 0 .. m |-> IF i = 0 THEN NoSlots(T)
                                ELSE NextSlot(adj, i, h[i - 1])]
        BY <1>9, <1>10, Zenon
    <2> QED BY <2>1 DEF Loops
<1> QED BY <1>4, <1>11

LEMMA LoopProgress ==
    ASSUME NEW T, T \subseteq Nat, IsFiniteSet(T), NEW n \in Nat,
           NEW adj \in [1 .. n -> SUBSET T], NEW h, Loops(adj, T, n, h)
    PROVE  \A k \in 0 .. n : Progress(adj, T, n, k, h[k])
<1> DEFINE Wrong == {k \in 0 .. n : ~Progress(adj, T, n, k, h[k])}
<1> SUFFICES ASSUME Wrong # {} PROVE FALSE
    OBVIOUS
<1>1. PICK k : k = Min(Wrong)
    OBVIOUS
<1>2. Wrong \subseteq Nat
    OBVIOUS
<1>3. k \in Wrong /\ \A y \in Wrong : k <= y
    <2> HIDE DEF Wrong
    <2> QED BY <1>1, <1>2, Smallest
<1>4. k \in 0 .. n /\ ~Progress(adj, T, n, k, h[k])
    BY <1>3
<1>5. h[k] = IF k = 0 THEN NoSlots(T) ELSE NextSlot(adj, k, h[k - 1])
    BY <1>4, Zenon DEF Loops
<1>6. k # 0
    BY <1>4, <1>5, NoSlotsProgress
<1>7. k - 1 \in 0 .. n /\ k - 1 \notin Wrong
    BY <1>3, <1>4, <1>6
<1>8. PICK a : a = h[k - 1]
    OBVIOUS
<1>9. Progress(adj, T, n, k - 1, a)
    BY <1>7, <1>8
<1> HIDE DEF Wrong
<1>10. Progress(adj, T, n, k, NextSlot(adj, k, a))
    BY <1>4, <1>6, <1>9, SlotProgress
<1> QED BY <1>4, <1>5, <1>6, <1>8, <1>10

-----------------------------------------------------------------------------
(* The thirds and their slots.                                             *)

OfThird == {s \in Slots : Source[s].kind = "third"}

ThirdsList(teams) ==
    /\ teams \in Seq(TableRows)
    /\ \A j \in DOMAIN teams : teams[j].team # NoTeam
    /\ \A j, k \in DOMAIN teams : teams[j].team = teams[k].team => j = k

SlotsList(slots) ==
    /\ slots \in Seq(OfThird)
    /\ \A i, k \in DOMAIN slots : slots[i] = slots[k] => i = k
    /\ \A s \in OfThird : \E i \in DOMAIN slots : slots[i] = s

LEMMA MatchProgress ==
    ASSUME NEW slots, SlotsList(slots), NEW teams, ThirdsList(teams),
           NEW n \in Nat, n = Len(slots), NEW T, T = DOMAIN teams,
           NEW adj, adj = Adjacency(slots, teams)
    PROVE  /\ teams # << >> => Progress(adj, T, n, n, MatchThirds(slots, teams))
           /\ teams = << >> => MatchThirds(slots, teams) = NoSlots(T)
<1>1. DOMAIN slots = 1 .. n
    BY LenProperties DEF SlotsList
<1>2. PICK l \in Nat : T = 1 .. l
    BY LenProperties DEF ThirdsList
<1>3. T \subseteq Nat /\ IsFiniteSet(T)
    BY <1>2, FS_Interval
<1>4. adj \in [1 .. n -> SUBSET T]
    BY <1>1 DEF Adjacency
<1>5. PICK h : h = CHOOSE g : Loops(adj, T, n, g)
    OBVIOUS
<1>6. Loops(adj, T, n, h)
    BY <1>5, LoopExists
<1>7. MatchThirds(slots, teams) = IF teams = << >> THEN h[0] ELSE h[n]
    BY <1>5 DEF MatchThirds, Loops, NoSlots, NextSlot
<1>8. Progress(adj, T, n, n, h[n])
    BY <1>3, <1>4, <1>6, LoopProgress
<1>9. h[0] = NoSlots(T)
    <2>1. 0 \in 0 .. n
        OBVIOUS
    <2>2. h[0] = IF 0 = 0 THEN NoSlots(T) ELSE NextSlot(adj, 0, h[0 - 1])
        BY <1>6, <2>1, Zenon DEF Loops
    <2> QED BY <2>2
<1> QED BY <1>7, <1>8, <1>9

\* The matcher gives up only when the slots cannot be filled.
LEMMA MatchIsExact ==
    ASSUME NEW slots, SlotsList(slots), NEW teams, ThirdsList(teams),
           teams # << >>
    PROVE  MatchThirds(slots, teams).ok <=> ThirdsFit(slots, teams)
<1>1. PICK n : n = Len(slots)
    OBVIOUS
<1>2. PICK T : T = DOMAIN teams
    OBVIOUS
<1>3. PICK adj : adj = Adjacency(slots, teams)
    OBVIOUS
<1>4. PICK a : a = MatchThirds(slots, teams)
    OBVIOUS
<1>5. n \in Nat /\ DOMAIN slots = 1 .. n
    BY <1>1, LenProperties DEF SlotsList
<1>6. Progress(adj, T, n, n, a)
    BY <1>1, <1>2, <1>3, <1>4, <1>5, MatchProgress
<1>7. \A i \in 1 .. n : \A j \in T :
        j \in adj[i] <=> teams[j].group \in Source[slots[i]].of
    BY <1>2, <1>3, <1>5 DEF Adjacency
<1>8. ThirdsFit(slots, teams) <=> Fits(adj, T, 1 .. n)
    BY <1>2, <1>5, <1>7 DEF ThirdsFit, Fits
<1>9. ASSUME a.ok PROVE Fits(adj, T, 1 .. n)
    <2>1. PICK q : q = a.slotOf
        OBVIOUS
    <2>2. /\ q \in [T -> 0 .. n] /\ Matched(adj, q, T)
          /\ \A i \in 1 .. n : \E x \in T : q[x] = i
        BY <1>6, <1>9, <2>1 DEF Progress
    <2> DEFINE f == [i \in 1 .. n |-> CHOOSE x \in T : q[x] = i]
    <2>3. \A i \in 1 .. n : f[i] \in T /\ q[f[i]] = i
        BY <2>2
    <2>4. f \in [1 .. n -> T]
        BY <2>3
    <2> HIDE DEF f
    <2>5. \A i \in 1 .. n : f[i] \in adj[i]
        BY <2>2, <2>3 DEF Matched
    <2>6. \A i, k \in 1 .. n : f[i] = f[k] => i = k
        BY <2>3
    <2> QED BY <2>4, <2>5, <2>6 DEF Fits
<1>10. ~a.ok => ~Fits(adj, T, 1 .. n)
    BY <1>6 DEF Progress
<1> QED BY <1>4, <1>8, <1>9, <1>10

\* What it assigns: a team of its own to every slot, from a group it admits.
LEMMA AssignmentRight ==
    ASSUME NEW slots, SlotsList(slots), NEW teams, ThirdsList(teams),
           NEW plan, plan = Assignment(slots, teams)
    PROVE  /\ DOMAIN plan \subseteq OfThird
           /\ teams # << >> /\ MatchThirds(slots, teams).ok
              => DOMAIN plan = OfThird
           /\ \A s \in DOMAIN plan : plan[s] \in Teams
           /\ \A r, s \in DOMAIN plan : plan[r] = plan[s] => r = s
           /\ \A s \in DOMAIN plan : \E j \in DOMAIN teams :
                /\ teams[j].team = plan[s]
                /\ teams[j].group \in Source[s].of
<1>1. PICK n : n = Len(slots)
    OBVIOUS
<1>2. PICK T : T = DOMAIN teams
    OBVIOUS
<1>3. PICK adj : adj = Adjacency(slots, teams)
    OBVIOUS
<1>4. PICK a : a = MatchThirds(slots, teams)
    OBVIOUS
<1>5. n \in Nat /\ DOMAIN slots = 1 .. n
    BY <1>1, LenProperties DEF SlotsList
<1>6. /\ teams # << >> => Progress(adj, T, n, n, a)
      /\ teams = << >> => a = NoSlots(T)
    BY <1>1, <1>2, <1>3, <1>4, <1>5, MatchProgress
<1>7. PICK q : q = a.slotOf
    OBVIOUS
<1>8. /\ q \in [T -> 0 .. n] /\ Matched(adj, q, T)
      /\ teams # << >> /\ a.ok => \A i \in 1 .. n : \E x \in T : q[x] = i
    <2>1. CASE teams # << >>
        BY <1>6, <1>7, <2>1 DEF Progress
    <2>2. CASE teams = << >>
        BY <1>6, <1>7, <2>2, <1>5 DEF NoSlots, Matched
    <2> QED BY <2>1, <2>2
<1> DEFINE Held == {k \in T : q[k] # 0}
           third(s) == CHOOSE j \in T : q[j] # 0 /\ slots[q[j]] = s
<1>9. plan = [s \in {slots[q[j]] : j \in Held} |-> teams[third(s)].team]
    BY <1>2, <1>4, <1>7 DEF Assignment
<1>10. \A j \in Held : q[j] \in 1 .. n /\ slots[q[j]] \in OfThird
    <2> TAKE j \in Held
    <2>1. q[j] \in 1 .. n
        BY <1>5, <1>8
    <2> QED BY <1>1, <2>1, ElementOfSeq DEF SlotsList
<1>11. DOMAIN plan = {slots[q[j]] : j \in Held}
    BY <1>9
<1>12. ASSUME NEW s \in DOMAIN plan
       PROVE  /\ third(s) \in T /\ q[third(s)] \in 1 .. n
              /\ slots[q[third(s)]] = s /\ plan[s] = teams[third(s)].team
    <2>1. \E j \in T : q[j] # 0 /\ slots[q[j]] = s
        BY <1>11
    <2>2. third(s) \in T /\ q[third(s)] # 0 /\ slots[q[third(s)]] = s
        BY <2>1
    <2> HIDE DEF third
    <2> QED BY <1>9, <1>10, <1>11, <2>2
<1>13. \A s \in DOMAIN plan : \E j \in T :
        /\ q[j] \in 1 .. n /\ slots[q[j]] = s /\ plan[s] = teams[j].team
    <2> HIDE DEF third, Held
    <2> QED BY <1>12
<1>14. DOMAIN plan \subseteq OfThird
    <2> HIDE DEF Held
    <2> QED BY <1>10, <1>11
<1>15. ASSUME teams # << >>, a.ok PROVE OfThird \subseteq DOMAIN plan
    <2> SUFFICES ASSUME NEW s \in OfThird PROVE s \in DOMAIN plan
        OBVIOUS
    <2>1. PICK i \in 1 .. n : slots[i] = s
        BY <1>5 DEF SlotsList
    <2>2. PICK x \in T : q[x] = i
        BY <1>8, <1>15
    <2>3. x \in Held
        BY <2>1, <2>2
    <2> HIDE DEF Held
    <2> QED BY <1>11, <2>1, <2>2, <2>3
<1> HIDE DEF third, Held
<1>16. \A j \in T : teams[j].team \in Teams
    <2> TAKE j \in T
    <2>1. teams[j] \in TableRows
        BY <1>2 DEF ThirdsList
    <2> QED BY <1>2, <2>1 DEF ThirdsList, TableRows, Teams
<1>17. \A s \in DOMAIN plan : plan[s] \in Teams
    BY <1>13, <1>16
<1>18. \A r, s \in DOMAIN plan : plan[r] = plan[s] => r = s
    BY <1>2, <1>13 DEF ThirdsList
<1>19. ASSUME NEW s \in DOMAIN plan
       PROVE  \E j \in DOMAIN teams : /\ teams[j].team = plan[s]
                                      /\ teams[j].group \in Source[s].of
    <2>1. PICK j \in T :
            q[j] \in 1 .. n /\ slots[q[j]] = s /\ plan[s] = teams[j].team
        BY <1>13
    <2>2. j \in adj[q[j]]
        BY <1>8, <2>1 DEF Matched
    <2>3. teams[j].group \in Source[slots[q[j]]].of
        BY <1>3, <1>5, <2>1, <2>2 DEF Adjacency
    <2> QED BY <1>2, <2>1, <2>3
<1> QED BY <1>4, <1>14, <1>15, <1>17, <1>18, <1>19

LEMMA ThirdSlotsList ==
    ASSUME BracketAssumption
    PROVE  SlotsList(ThirdSlots)
<1> DEFINE R == {p \in OfThird \X OfThird : p[1] < p[2]}
           n == Cardinality(OfThird)
           Good(f) == \A i, k \in DOMAIN f : i < k => f[i] < f[k]
<1>1. OfThird \subseteq Nat /\ IsFiniteSet(OfThird)
    BY FS_Subset DEF OfThird, BracketAssumption
<1>2. \A x, y \in OfThird : <<x, y>> \in R <=> x < y
    OBVIOUS
<1>3. StrictOrder(R, OfThird)
    <2> HIDE DEF R
    <2> QED BY <1>1, <1>2 DEF StrictOrder
<1>4. PICK o : Lists(R, OfThird, o)
    <2> HIDE DEF R
    <2> QED BY <1>1, <1>3, ListExists
<1>5. o \in [1 .. n -> OfThird] /\ Good(o)
    <2>1. o \in [1 .. n -> OfThird] /\ DOMAIN o = 1 .. n
        BY <1>4 DEF Lists
    <2>2. \A i, k \in 1 .. n : i < k => <<o[i], o[k]>> \in R
        BY <1>4 DEF Lists
    <2> HIDE DEF R, n
    <2> QED BY <1>2, <2>1, <2>2
<1>6. PICK f : f = ThirdSlots
    OBVIOUS
<1>7. f \in [1 .. n -> OfThird] /\ Good(f)
    <2>1. f = CHOOSE order \in [1 .. n -> OfThird] : Good(order)
        BY <1>6 DEF InOrder, ThirdSlots, OfThird
    <2> HIDE DEF Good, n
    <2> QED BY <1>5, <2>1
<1>8. Lists(R, OfThird, f)
    <2>1. DOMAIN f = 1 .. n
        BY <1>7
    <2>2. \A i, k \in 1 .. n : i < k => <<f[i], f[k]>> \in R
        <3> HIDE DEF n
        <3> QED BY <1>2, <1>7, <2>1
    <2> HIDE DEF R
    <2> QED BY <1>7, <2>2 DEF Lists
<1>9. /\ n \in Nat /\ DOMAIN f = 1 .. n
      /\ \A i, k \in DOMAIN f : f[i] = f[k] => i = k
      /\ \A x \in OfThird : \E i \in DOMAIN f : f[i] = x
    <2> HIDE DEF R
    <2> QED BY <1>1, <1>3, <1>8, ListIsWhole
<1>10. f \in Seq(OfThird)
    <2> HIDE DEF n
    <2> QED BY <1>7, <1>9, SeqDef
<1> QED BY <1>6, <1>9, <1>10 DEF SlotsList

-----------------------------------------------------------------------------
(* The inductive invariant.  AutoIsRight needs the same of what the        *)
(* goroutines are about to confirm, AdminChoiceStands that a slot of an    *)
(* administrator is not empty.                                             *)

Sources == [kind : {"first", "second"}, of : Groups]
           \cup [kind : {"winner", "loser"}, of : Matches]
TeamChoices == [source : Sources, team : Teams]
Events == [match : Matches, result : MatchRows]
SlotRows == [team : Nat, by : {"nobody", "system", "admin"}]
ThreadRows == [pc : {"idle", "slots", "find", "confirm"},
               event : Events \cup {NoEvent}, todo : Seq(TeamChoices),
               rest : SUBSET (Groups \cup Matches), listed : SUBSET Events]

TypesOK ==
    /\ match \in [Matches -> MatchRows]
    /\ slot \in [Slots -> SlotRows]
    /\ queue \in Seq(Events) /\ dead \subseteq Events
    /\ thread \in [Threads -> ThreadRows]
    /\ \A t \in Threads :
        /\ thread[t].pc = "slots" => thread[t].event \in Events
        /\ thread[t].pc = "confirm" => thread[t].todo # << >>

\* No slot feeds a group match.
GroupTeamsStay ==
    \A m \in Matches : GroupOf[m] # NoGroup =>
        /\ match[m].home = Fixtures[m].home
        /\ match[m].away = Fixtures[m].away

\* Nor does a call of the match service rename its teams.
CallRows == [pc : {"update", "publish"}, row : MatchRows]
CallRight(c, state) ==
    \/ state = NoCall
    \/ /\ state \in CallRows
       /\ GroupOf[c.match] # NoGroup =>
            /\ state.row.home = Fixtures[c.match].home
            /\ state.row.away = Fixtures[c.match].away

CallsRight ==
    /\ call \in [Calls -> {NoCall} \cup CallRows]
    /\ \A c \in Calls : CallRight(c, call[c])

OfGroup(source) == source.kind \in {"first", "second"}

ChoicesRight ==
    \A t \in Threads : \A k \in DOMAIN thread[t].todo :
        OfGroup(thread[t].todo[k].source)
        => Right(thread[t].todo[k].source, thread[t].todo[k].team)

SlotsRight ==
    \A s \in Slots :
        /\ slot[s].by = "system" => Source[s] \in Sources
        /\ slot[s].by = "system" /\ OfGroup(Source[s])
           => Right(Source[s], slot[s].team)
        /\ slot[s].by = "admin" => slot[s].team # NoTeam

OfficeRight ==
    /\ office = [todo |-> office.todo, plan |-> office.plan,
                 teams |-> office.teams, fits |-> office.fits]
    /\ office.todo \subseteq DOMAIN office.plan /\ DOMAIN office.plan \subseteq Slots
    /\ \A s \in DOMAIN office.plan : office.plan[s] \in Teams
    /\ ThirdsMatched

KnockoutInv ==
    /\ TypesOK /\ GroupTeamsStay /\ CallsRight
    /\ ChoicesRight /\ SlotsRight /\ OfficeRight

-----------------------------------------------------------------------------
(* What is right stays right.                                              *)

LEMMA StandingFrame ==
    ASSUME BracketAssumption, NEW g, NEW team,
           \A m \in GroupMatches(g) : match'[m] = match[m]
    PROVE  GroupStanding(g, team)' = GroupStanding(g, team)
<1> DEFINE ms == Counted(g, team)
           points == [m \in Matches |-> PointsIn(m, team)]
           diff == [m \in Matches |-> Goals(m, team)[1] - Goals(m, team)[2]]
           goals == [m \in Matches |-> Goals(m, team)[1]]
<1>1. ms' = ms
    BY DEF Counted, GroupMatches
<1>2. ms \subseteq Matches /\ IsFiniteSet(ms) /\ ms \subseteq GroupMatches(g)
    BY FS_Subset DEF Counted, GroupMatches, BracketAssumption
<1>3. ASSUME NEW m \in ms
      PROVE  /\ points'[m] = points[m] /\ diff'[m] = diff[m]
             /\ goals'[m] = goals[m]
    <2>1. m \in Matches /\ match'[m] = match[m]
        BY <1>2
    <2>2. Goals(m, team)' = Goals(m, team)
        BY <2>1 DEF Goals
    <2>3. PointsIn(m, team)' = PointsIn(m, team)
        BY <2>2 DEF PointsIn
    <2> QED BY <2>1, <2>2, <2>3
<1>4. PICK M : M = ms
    OBVIOUS
<1>5. PICK p, q : p = points /\ q = points'
    OBVIOUS
<1>6. PICK d, e : d = diff /\ e = diff'
    OBVIOUS
<1>7. PICK a, b : a = goals /\ b = goals'
    OBVIOUS
<1>8. IsFiniteSet(M) /\ \A m \in M : p[m] = q[m] /\ d[m] = e[m] /\ a[m] = b[m]
    BY <1>2, <1>3, <1>4, <1>5, <1>6, <1>7
<1>9. /\ SumFunctionOnSet(p, M) = SumFunctionOnSet(q, M)
      /\ SumFunctionOnSet(d, M) = SumFunctionOnSet(e, M)
      /\ SumFunctionOnSet(a, M) = SumFunctionOnSet(b, M)
    BY <1>8, SumSame
<1>10. GroupStanding(g, team)
       = [team |-> team, group |-> g, points |-> SumFunctionOnSet(p, M),
          diff |-> SumFunctionOnSet(d, M), goals |-> SumFunctionOnSet(a, M)]
    BY <1>4, <1>5, <1>6, <1>7 DEF GroupStanding
<1>11. GroupStanding(g, team)'
       = [team |-> team, group |-> g, points |-> SumFunctionOnSet(q, M),
          diff |-> SumFunctionOnSet(e, M), goals |-> SumFunctionOnSet(b, M)]
    <2> HIDE DEF ms
    <2> QED BY <1>1, <1>4, <1>5, <1>6, <1>7 DEF GroupStanding, ms
<1> QED BY <1>9, <1>10, <1>11

LEMMA RightFrame ==
    ASSUME BracketAssumption, NEW source, NEW team,
           overwritten \subseteq overwritten',
           GroupMatches(source.of) \cap overwritten' = {}
           /\ GroupComplete(source.of)
           => \A m \in GroupMatches(source.of) : match'[m] = match[m],
           Right(source, team)
    PROVE  Right(source, team)'
<1> DEFINE g == source.of
<1> SUFFICES ASSUME GroupMatches(g) \cap overwritten' = {}
             PROVE  /\ GroupComplete(g)' /\ team \in TeamsOf(g)'
                    /\ Cardinality(Above(g, team)')
                       = (IF source.kind = "first" THEN 0 ELSE 1)
    BY DEF Right, GroupMatches
<1>1. /\ GroupComplete(g) /\ team \in TeamsOf(g)
      /\ Cardinality(Above(g, team)) = (IF source.kind = "first" THEN 0 ELSE 1)
    BY DEF Right
<1>2. \A m \in GroupMatches(g) : match'[m] = match[m]
    BY <1>1
<1>3. GroupComplete(g)' /\ TeamsOf(g)' = TeamsOf(g)
    BY <1>1, <1>2 DEF GroupComplete, TeamsOf, GroupMatches
<1>4. Above(g, team)' = Above(g, team)
    <2>1. \A other \in TeamsOf(g) : GroupStanding(g, other)' = GroupStanding(g, other)
        BY <1>2, StandingFrame
    <2>2. GroupStanding(g, team)' = GroupStanding(g, team)
        BY <1>2, StandingFrame
    <2>3. \A other \in TeamsOf(g) :
            LessStanding(GroupStanding(g, other), GroupStanding(g, team))'
            <=> LessStanding(GroupStanding(g, other), GroupStanding(g, team))
        BY <2>1, <2>2 DEF LessStanding
    <2> QED BY <1>3, <2>3 DEF Above
<1> QED BY <1>1, <1>3, <1>4


\* A step that changes a row of a group that is over overwrites a match.
Careful ==
    /\ overwritten \subseteq overwritten'
    /\ \A g \in Groups :
        GroupMatches(g) \cap overwritten' = {} /\ GroupComplete(g)
        => \A m \in GroupMatches(g) : match'[m] = match[m]

LEMMA RightsStay ==
    ASSUME BracketAssumption, Careful, NEW source \in Sources, OfGroup(source),
           NEW team, Right(source, team)
    PROVE  Right(source, team)'
<1>1. source.of \in Groups
    BY DEF Sources, OfGroup
<1> QED BY <1>1, RightFrame DEF Careful

\* A goroutine's choices are right.
RowRight(row) ==
    /\ row \in ThreadRows
    /\ row.pc = "slots" => row.event \in Events
    /\ row.pc = "confirm" => row.todo # << >>
    /\ \A k \in DOMAIN row.todo :
        OfGroup(row.todo[k].source) => Right(row.todo[k].source, row.todo[k].team)

LEMMA RowsRight ==
    /\ TypesOK /\ ChoicesRight => \A t \in Threads : RowRight(thread[t])
    /\ TypesOK' /\ ChoicesRight' <=>
        /\ match' \in [Matches -> MatchRows]
        /\ slot' \in [Slots -> SlotRows]
        /\ queue' \in Seq(Events) /\ dead' \subseteq Events
        /\ thread' \in [Threads -> ThreadRows]
        /\ \A t \in Threads : RowRight(thread[t])'
<1>1. TypesOK /\ ChoicesRight => \A t \in Threads : RowRight(thread[t])
    BY DEF TypesOK, ChoicesRight, RowRight
<1> QED BY <1>1 DEF TypesOK, ChoicesRight, RowRight

LEMMA RowStays ==
    ASSUME BracketAssumption, Careful, NEW row, RowRight(row)
    PROVE  RowRight(row)'
<1>1. ASSUME NEW k \in DOMAIN row.todo, OfGroup(row.todo[k].source)
      PROVE  Right(row.todo[k].source, row.todo[k].team)'
    <2>1. row.todo[k].source \in Sources
        <3>1. row.todo \in Seq(TeamChoices)
            BY DEF RowRight, ThreadRows
        <3>2. row.todo[k] \in TeamChoices
            BY <3>1
        <3> QED BY <3>2 DEF TeamChoices
    <2> QED BY <1>1, <2>1, RightsStay DEF RowRight
<1> QED BY <1>1 DEF RowRight

\* One goroutine goes on.
LEMMA ThreadGoesOn ==
    ASSUME BracketAssumption, TypesOK, ChoicesRight, Careful,
           NEW t \in Threads, NEW row, RowRight(row),
           thread' = [thread EXCEPT ![t] = row],
           match' \in [Matches -> MatchRows], slot' \in [Slots -> SlotRows],
           queue' \in Seq(Events), dead' \subseteq Events
    PROVE  TypesOK' /\ ChoicesRight'
<1>1. thread \in [Threads -> ThreadRows] /\ row \in ThreadRows
    BY DEF TypesOK, RowRight
<1>2. thread' \in [Threads -> ThreadRows]
    BY <1>1
<1>3. ASSUME NEW u \in Threads PROVE RowRight(thread[u])'
    <2>1. RowRight(thread[u])
        BY RowsRight
    <2>2. PICK r : r = thread'[u]
        OBVIOUS
    <2>3. r = row \/ r = thread[u]
        BY <1>1, <2>2
    <2>4. RowRight(r)
        BY <2>1, <2>3
    <2>5. RowRight(r)'
        BY <2>4, RowStays
    <2> QED BY <2>2, <2>5
<1> QED BY <1>2, <1>3, RowsRight

LEMMA ThreadsWait ==
    ASSUME BracketAssumption, TypesOK, ChoicesRight, Careful,
           thread' = thread,
           match' \in [Matches -> MatchRows], slot' \in [Slots -> SlotRows],
           queue' \in Seq(Events), dead' \subseteq Events
    PROVE  TypesOK' /\ ChoicesRight'
<1>1. thread' \in [Threads -> ThreadRows]
    BY DEF TypesOK
<1>2. ASSUME NEW u \in Threads PROVE RowRight(thread[u])'
    <2>1. RowRight(thread[u])
        BY RowsRight
    <2>2. PICK r : r = thread[u]
        OBVIOUS
    <2>3. RowRight(r)'
        BY <2>1, <2>2, RowStays
    <2> QED BY <2>2, <2>3
<1> QED BY <1>1, <1>2, RowsRight

LEMMA SlotsWait ==
    ASSUME BracketAssumption, SlotsRight, Careful, slot' = slot
    PROVE  SlotsRight'
<1>1. ASSUME NEW s \in Slots, slot[s].by = "system", OfGroup(Source[s])
      PROVE  Right(Source[s], slot[s].team)'
    <2>1. PICK team : team = slot[s].team
        OBVIOUS
    <2>2. Right(Source[s], team) /\ Source[s] \in Sources
        BY <1>1, <2>1 DEF SlotsRight
    <2>3. Right(Source[s], team)'
        BY <1>1, <2>2, RightsStay
    <2> QED BY <2>1, <2>3
<1> QED BY <1>1 DEF SlotsRight

LEMMA OfficeWaits == OfficeRight /\ office' = office => OfficeRight'
BY DEF OfficeRight, ThirdsMatched

LEMMA CallsWait == CallsRight /\ call' = call => CallsRight'
BY DEF CallsRight

LEMMA NoMatchChanges == UNCHANGED <<match, overwritten>> => Careful
BY DEF Careful

\* A slot is confirmed: group matches have none.
LEMMA ConfirmKeeps ==
    ASSUME BracketAssumption, TypesOK, GroupTeamsStay, SlotsRight,
           NEW s \in Slots, NEW team \in Teams, NEW by \in {"system", "admin"},
           Confirm(s, team, by), overwritten' = overwritten,
           by = "system" => /\ Source[s] \in Sources
                            /\ OfGroup(Source[s]) => Right(Source[s], team)
    PROVE  /\ match' \in [Matches -> MatchRows] /\ slot' \in [Slots -> SlotRows]
           /\ GroupTeamsStay' /\ Careful /\ SlotsRight'
<1>1. match' \in [Matches -> MatchRows]
    <2> DEFINE row(m) ==
            [match[m] EXCEPT !.home = IF HomeSlot[m] = s THEN team ELSE @,
                             !.away = IF AwaySlot[m] = s THEN team ELSE @]
    <2>1. ASSUME NEW m \in Matches PROVE row(m) \in MatchRows
        <3>1. match[m] \in MatchRows
            BY DEF TypesOK
        <3> QED BY <3>1 DEF MatchRows
    <2>2. match' = [m \in Matches |-> row(m)]
        BY DEF Confirm
    <2> HIDE DEF row
    <2> QED BY <2>1, <2>2
<1>2. slot' \in [Slots -> SlotRows]
    BY DEF Confirm, TypesOK, SlotRows, Teams
<1>3. \A m \in Matches : GroupOf[m] # NoGroup => match'[m] = match[m]
    <2> SUFFICES ASSUME NEW m \in Matches, GroupOf[m] # NoGroup
                 PROVE  match'[m] = match[m]
        OBVIOUS
    <2>1. HomeSlot[m] # s /\ AwaySlot[m] # s
        BY DEF BracketAssumption
    <2>2. match[m] \in MatchRows
        BY DEF TypesOK
    <2>3. match'[m] = [match[m] EXCEPT !.home = @, !.away = @]
        BY <2>1 DEF Confirm
    <2> QED BY <2>2, <2>3 DEF MatchRows
<1>4. GroupTeamsStay'
    BY <1>3 DEF GroupTeamsStay
<1>5. Careful
    BY <1>3 DEF Careful, GroupMatches, Groups
<1>6. ASSUME NEW r \in Slots
      PROVE  /\ slot'[r].by = "system" => Source[r] \in Sources
             /\ slot'[r].by = "system" /\ OfGroup(Source[r])
                => Right(Source[r], slot[r].team)'
             /\ slot'[r].by = "admin" => slot'[r].team # NoTeam
    <2>1. PICK x : x = slot'[r].team
        OBVIOUS
    <2>2. CASE r = s
        <3>1. slot'[r].by = by /\ x = team
            BY <2>1, <2>2 DEF Confirm, TypesOK
        <3>2. by = "system" /\ OfGroup(Source[r]) => Right(Source[r], x)'
            BY <1>5, <2>2, <3>1, RightsStay
        <3>3. team # NoTeam
            BY DEF Teams
        <3> QED BY <2>1, <2>2, <3>1, <3>2, <3>3
    <2>3. CASE r # s
        <3>1. slot'[r] = slot[r]
            BY <2>3 DEF Confirm, TypesOK
        <3>2. slot[r].by = "system" => Source[r] \in Sources
            BY DEF SlotsRight
        <3>3. slot[r].by = "system" /\ OfGroup(Source[r]) => Right(Source[r], x)
            BY <2>1, <3>1 DEF SlotsRight
        <3>4. slot[r].by = "system" /\ OfGroup(Source[r]) => Right(Source[r], x)'
            BY <1>5, <3>2, <3>3, RightsStay
        <3> QED BY <2>1, <3>1, <3>2, <3>4 DEF SlotsRight
    <2> QED BY <2>2, <2>3
<1>7. SlotsRight'
    BY <1>6 DEF SlotsRight
<1> QED BY <1>1, <1>2, <1>4, <1>5, <1>7


-----------------------------------------------------------------------------
(* What is decided is right.                                               *)

LEMMA GroupChoicesRight ==
    ASSUME BracketAssumption, TypesOK, NEW g \in Groups
    PROVE  /\ GroupChoices(g) \in Seq(TeamChoices)
           /\ \A k \in DOMAIN GroupChoices(g) :
                Right(GroupChoices(g)[k].source, GroupChoices(g)[k].team)
<1>1. GroupTyped(g)
    BY DEF TypesOK, GroupTyped, GroupMatches
<1>2. CASE ~(GroupComplete(g) /\ Cardinality(TeamsOf(g)) >= 2)
    BY <1>2 DEF GroupChoices
<1>3. CASE GroupComplete(g) /\ Cardinality(TeamsOf(g)) >= 2
    <2>1. PICK a, b : a = Standings(g)[1].team /\ b = Standings(g)[2].team
        OBVIOUS
    <2>2. /\ a \in TeamsOf(g) /\ b \in TeamsOf(g)
          /\ Cardinality(Above(g, a)) = 0 /\ Cardinality(Above(g, b)) = 1
        BY <1>1, <1>3, <2>1, FirstAndSecond
    <2>3. a \in Teams /\ b \in Teams
        BY <1>1, <2>2, EntriesTable
    <2> DEFINE first == [source |-> [kind |-> "first", of |-> g], team |-> a]
               second == [source |-> [kind |-> "second", of |-> g], team |-> b]
    <2>4. GroupChoices(g) = <<first, second>>
        BY <1>3, <2>1 DEF GroupChoices, Choice
    <2>5. first \in TeamChoices /\ second \in TeamChoices
        BY <2>3 DEF TeamChoices, Sources
    <2>6. Right(first.source, first.team) /\ Right(second.source, second.team)
        BY <1>3, <2>2 DEF Right
    <2> HIDE DEF first, second
    <2>7. PICK cs : cs = <<first, second>>
        OBVIOUS
    <2>8. cs \in Seq(TeamChoices) /\ DOMAIN cs = 1 .. 2 /\ cs[1] = first
          /\ cs[2] = second
        BY <2>5, <2>7
    <2>9. \A k \in 1 .. 2 : k = 1 \/ k = 2
        OBVIOUS
    <2> QED BY <2>4, <2>6, <2>7, <2>8, <2>9
<1> QED BY <1>2, <1>3

LEMMA ResultChoicesRight ==
    ASSUME NEW m \in Matches, NEW result \in MatchRows
    PROVE  /\ ResultChoices(m, result) \in Seq(TeamChoices)
           /\ \A k \in DOMAIN ResultChoices(m, result) :
                ~OfGroup(ResultChoices(m, result)[k].source)
<1> DEFINE winner(team) == Choice("winner", m, team)
           loser(team) == Choice("loser", m, team)
<1>1. \A team \in Teams :
        /\ winner(team) \in TeamChoices /\ loser(team) \in TeamChoices
        /\ ~OfGroup(winner(team).source) /\ ~OfGroup(loser(team).source)
    BY DEF Choice, TeamChoices, Sources, OfGroup
<1>2. result.home \in Teams /\ result.away \in Teams
    BY DEF MatchRows
<1> HIDE DEF winner, loser
<1>3. \/ ResultChoices(m, result) = << >>
      \/ ResultChoices(m, result) = <<winner(result.home), loser(result.away)>>
      \/ ResultChoices(m, result) = <<winner(result.away), loser(result.home)>>
    BY DEF ResultChoices, winner, loser
<1>4. \A a, b \in TeamChoices : ~OfGroup(a.source) /\ ~OfGroup(b.source) =>
        /\ <<a, b>> \in Seq(TeamChoices)
        /\ \A k \in DOMAIN <<a, b>> : ~OfGroup(<<a, b>>[k].source)
    OBVIOUS
<1>5. PICK cs : cs = ResultChoices(m, result)
    OBVIOUS
<1>6. CASE cs = << >>
    BY <1>5, <1>6
<1>7. CASE cs # << >>
    <2>1. PICK a \in TeamChoices, b \in TeamChoices :
            cs = <<a, b>> /\ ~OfGroup(a.source) /\ ~OfGroup(b.source)
        BY <1>1, <1>2, <1>3, <1>5, <1>7
    <2>2. cs \in Seq(TeamChoices) /\ \A k \in DOMAIN cs : ~OfGroup(cs[k].source)
        BY <1>4, <2>1
    <2> QED BY <1>5, <2>2
<1> QED BY <1>6, <1>7

\* The rows that a goroutine may have next.
LEMMA AsleepRight == RowRight(Asleep)
BY DEF RowRight, Asleep, ThreadRows

LEMMA TailRight ==
    ASSUME NEW row, RowRight(row), row.todo # << >>
    PROVE  RowRight([row EXCEPT !.pc = "find", !.todo = Tail(@)])
<1> DEFINE next == [row EXCEPT !.pc = "find", !.todo = Tail(@)]
<1>1. row \in ThreadRows /\ row.todo \in Seq(TeamChoices)
    BY DEF RowRight, ThreadRows
<1>2. PICK todo \in Seq(TeamChoices) : todo = row.todo
    BY <1>1
<1>3. Tail(todo) \in Seq(TeamChoices)
    BY <1>2
<1>4. /\ next \in ThreadRows /\ next.pc = "find" /\ next.todo = Tail(todo)
    BY <1>1, <1>2, <1>3 DEF ThreadRows
<1>5. ASSUME NEW k \in DOMAIN Tail(todo)
      PROVE  k + 1 \in DOMAIN todo /\ Tail(todo)[k] = todo[k + 1]
    BY <1>2
<1>6. \A k \in DOMAIN todo :
        OfGroup(todo[k].source) => Right(todo[k].source, todo[k].team)
    BY <1>2 DEF RowRight
<1> HIDE DEF next
<1>7. RowRight(next)
    BY <1>4, <1>5, <1>6 DEF RowRight
<1> QED BY <1>7 DEF next

LEMMA TodoRight ==
    ASSUME NEW row, RowRight(row), NEW cs \in Seq(TeamChoices),
           NEW rest \in SUBSET (Groups \cup Matches), NEW listed \in SUBSET Events,
           \A k \in DOMAIN cs : OfGroup(cs[k].source) => Right(cs[k].source, cs[k].team)
    PROVE  RowRight([row EXCEPT !.pc = "find", !.todo = cs, !.rest = rest,
                                !.listed = listed])
<1> DEFINE next == [row EXCEPT !.pc = "find", !.todo = cs, !.rest = rest,
                               !.listed = listed]
<1>1. row \in ThreadRows
    BY DEF RowRight
<1>2. next \in ThreadRows /\ next.pc = "find" /\ next.todo = cs
    BY <1>1 DEF ThreadRows
<1> HIDE DEF next
<1>3. RowRight(next)
    BY <1>2 DEF RowRight
<1> QED BY <1>3 DEF next


-----------------------------------------------------------------------------
(* The steps.                                                              *)

\* The match service.
LEMMA DecideSteps ==
    ASSUME KnockoutAssumption, KnockoutInv, NEW c \in Calls,
           \/ StartMatch(c) \/ UpdateResult(c) \/ CorrectResult(c)
           \/ CancelMatch(c) \/ ApplyLiveScore(c)
    PROVE  CallsRight' /\ UNCHANGED <<match, slot, queue, dead, thread, office,
                                      overwritten>>
<1>1. /\ c.match \in Matches /\ c.result \in Results
      /\ match[c.match] \in MatchRows
    BY DEF KnockoutAssumption, KnockoutInv, TypesOK
<1>2. PICK op, row :
        /\ Decide(c, op, row) /\ row \in MatchRows
        /\ row.home = match[c.match].home /\ row.away = match[c.match].away
    <2> DEFINE Goes(row) ==
            /\ \E op : Decide(c, op, row)
            /\ row \in MatchRows
            /\ row.home = match[c.match].home /\ row.away = match[c.match].away
    <2>1. CASE StartMatch(c)
        <3>1. Goes([match[c.match] EXCEPT !.status = "live"])
            BY <1>1, <2>1 DEF StartMatch, MatchRows
        <3> QED BY <3>1
    <2>2. CASE UpdateResult(c) \/ CorrectResult(c)
        <3>1. Goes(Scored(match[c.match], c.result))
            BY <1>1, <2>2 DEF UpdateResult, CorrectResult, Scored, MatchRows, Results
        <3> QED BY <3>1
    <2>3. CASE CancelMatch(c)
        <3>1. Goes([match[c.match] EXCEPT !.status = "cancelled"])
            BY <1>1, <2>3 DEF CancelMatch, MatchRows
        <3> QED BY <3>1
    <2>4. CASE ApplyLiveScore(c)
        <3>1. Goes([match[c.match] EXCEPT !.score = c.result.score])
            BY <1>1, <2>4 DEF ApplyLiveScore, MatchRows, Results
        <3> QED BY <3>1
    <2> QED BY <2>1, <2>2, <2>3, <2>4
<1>3. PICK new : new = [pc |-> "update", row |-> row]
    OBVIOUS
<1>4. new \in CallRows /\ CallRight(c, new)
    BY <1>1, <1>2, <1>3 DEF CallRows, CallRight, KnockoutInv, GroupTeamsStay
<1>5. /\ call' = [call EXCEPT ![c] = new]
      /\ UNCHANGED <<match, slot, queue, dead, thread, office, overwritten>>
    BY <1>2, <1>3 DEF Decide, bracketVars, streamVars
<1>6. CallsRight'
    BY <1>4, <1>5 DEF KnockoutInv, CallsRight
<1> QED BY <1>5, <1>6

LEMMA CallUnderWay ==
    ASSUME CallsRight, NEW c \in Calls, call[c].pc \in {"update", "publish"}
    PROVE  /\ call[c] \in CallRows /\ call[c].row \in MatchRows
           /\ GroupOf[c.match] # NoGroup =>
                /\ call[c].row.home = Fixtures[c.match].home
                /\ call[c].row.away = Fixtures[c.match].away
<1>1. NoCall.pc = "idle"
    BY DEF NoCall
<1>2. call[c] # NoCall
    BY <1>1
<1>3. call[c] \in CallRows
    BY <1>2 DEF CallsRight, CallRight
<1>4. call[c].row \in MatchRows
    BY <1>3 DEF CallRows
<1> QED BY <1>2, <1>3, <1>4 DEF CallsRight, CallRight

LEMMA CallEnds ==
    ASSUME CallsRight, NEW c \in Calls,
           \/ call' = [call EXCEPT ![c] = NoCall]
           \/ call[c].pc = "update" /\ call' = [call EXCEPT ![c].pc = "publish"]
    PROVE  CallsRight'
<1>1. CASE call' = [call EXCEPT ![c] = NoCall]
    BY <1>1 DEF CallsRight, CallRight
<1>2. CASE call[c].pc = "update" /\ call' = [call EXCEPT ![c].pc = "publish"]
    <2>1. PICK new : new = [call[c] EXCEPT !.pc = "publish"]
        OBVIOUS
    <2>2. call[c] \in CallRows
        BY <1>2, CallUnderWay
    <2>3. new \in CallRows /\ new.row = call[c].row
        BY <2>1, <2>2 DEF CallRows
    <2>4. CallRight(c, new)
        BY <1>2, <2>3, CallUnderWay DEF CallRight
    <2> QED BY <1>2, <2>1, <2>3, <2>4 DEF CallsRight
<1> QED BY <1>1, <1>2

LEMMA MatchSteps ==
    ASSUME BracketAssumption, KnockoutAssumption, KnockoutInv, NEW c \in Calls,
           CallNext(c)
    PROVE  KnockoutInv'
<1>1. /\ TypesOK /\ GroupTeamsStay /\ CallsRight /\ ChoicesRight /\ SlotsRight
      /\ OfficeRight /\ c.match \in Matches
    BY DEF KnockoutInv, KnockoutAssumption
<1>2. ASSUME Careful, CallsRight', GroupTeamsStay', match' \in [Matches -> MatchRows],
             queue' \in Seq(Events), UNCHANGED <<slot, dead, thread, office>>
      PROVE  KnockoutInv'
    <2>1. slot' \in [Slots -> SlotRows] /\ dead' \subseteq Events
        BY <1>1, <1>2 DEF TypesOK
    <2>2. TypesOK' /\ ChoicesRight'
        BY <1>1, <1>2, <2>1, ThreadsWait
    <2> QED BY <1>1, <1>2, <2>2, SlotsWait, OfficeWaits DEF KnockoutInv
<1>3. ASSUME UNCHANGED <<match, slot, dead, thread, office, overwritten>>,
             CallsRight', queue' \in Seq(Events)
      PROVE  KnockoutInv'
    BY <1>1, <1>2, <1>3, NoMatchChanges DEF TypesOK, GroupTeamsStay
<1>4. CASE \/ StartMatch(c) \/ UpdateResult(c) \/ CorrectResult(c)
           \/ CancelMatch(c) \/ ApplyLiveScore(c)
    BY <1>1, <1>3, <1>4, DecideSteps DEF TypesOK
<1>5. CASE UpdateRow(c)
    <2>1. PICK m, row : m = c.match /\ row = call[c].row
        OBVIOUS
    <2>2. /\ m \in Matches /\ row \in MatchRows
          /\ GroupOf[m] # NoGroup =>
                row.home = Fixtures[m].home /\ row.away = Fixtures[m].away
        BY <1>1, <1>5, <2>1, CallUnderWay DEF UpdateRow
    <2>3. /\ match' = [match EXCEPT ![m] = row]
          /\ overwritten \subseteq overwritten'
          /\ match[m].status \in {"finished", "cancelled"} /\ row # match[m]
             => m \in overwritten'
        BY <1>5, <2>1 DEF UpdateRow
    <2>4. match \in [Matches -> MatchRows] /\ match' \in [Matches -> MatchRows]
        BY <1>1, <2>2, <2>3 DEF TypesOK
    <2>5. match'[m] = row /\ \A k \in Matches : k # m => match'[k] = match[k]
        BY <2>2, <2>3, <2>4
    <2>6. GroupTeamsStay'
        BY <1>1, <2>2, <2>5 DEF GroupTeamsStay
    <2>7. Careful
        BY <2>3, <2>5 DEF Careful, GroupMatches, GroupComplete
    <2>8. CallsRight'
        <3>1. \/ call' = [call EXCEPT ![c] = NoCall]
              \/ call[c].pc = "update" /\ call' = [call EXCEPT ![c].pc = "publish"]
            BY <1>5 DEF UpdateRow
        <3> QED BY <1>1, <3>1, CallEnds
    <2>9. queue' \in Seq(Events) /\ UNCHANGED <<slot, dead, thread, office>>
        BY <1>1, <1>5 DEF UpdateRow, streamVars, TypesOK
    <2> QED BY <1>2, <2>4, <2>6, <2>7, <2>8, <2>9
<1>6. CASE Publish(c)
    <2>1. call[c].row \in MatchRows
        BY <1>1, <1>6, CallUnderWay DEF Publish
    <2>2. PICK event : event = [match |-> c.match, result |-> call[c].row]
        OBVIOUS
    <2>3. event \in Events
        BY <1>1, <2>1, <2>2 DEF Events
    <2>4. queue' = Append(queue, event) /\ queue \in Seq(Events)
        BY <1>1, <1>6, <2>2 DEF Publish, TypesOK
    <2>5. queue' \in Seq(Events)
        BY <2>3, <2>4
    <2>6. /\ call' = [call EXCEPT ![c] = NoCall]
          /\ UNCHANGED <<match, slot, dead, thread, office, overwritten>>
        BY <1>6 DEF Publish, bracketVars
    <2> QED BY <1>1, <1>3, <2>5, <2>6, CallEnds
<1>7. CASE CallFails(c)
    <2>1. /\ call' = [call EXCEPT ![c] = NoCall]
          /\ UNCHANGED <<match, slot, queue, dead, thread, office, overwritten>>
        BY <1>7 DEF CallFails, bracketVars, streamVars
    <2> QED BY <1>1, <1>3, <2>1, CallEnds DEF TypesOK
<1> QED BY <1>4, <1>5, <1>6, <1>7 DEF CallNext

\* A goroutine goes on and touches nothing but the stream.
LEMMA WorkKeeps ==
    ASSUME BracketAssumption, KnockoutInv, NEW t \in Threads, NEW row,
           RowRight(row), thread' = [thread EXCEPT ![t] = row],
           UNCHANGED <<match, slot, office, call, overwritten>>,
           queue' \in Seq(Events), dead' \subseteq Events
    PROVE  KnockoutInv'
<1>1. Careful
    BY NoMatchChanges
<1>2. TypesOK' /\ ChoicesRight'
    <2>1. match' \in [Matches -> MatchRows] /\ slot' \in [Slots -> SlotRows]
        BY DEF KnockoutInv, TypesOK
    <2> QED BY <1>1, <2>1, ThreadGoesOn DEF KnockoutInv
<1>3. GroupTeamsStay' /\ CallsRight' /\ SlotsRight' /\ OfficeRight'
    BY <1>1, SlotsWait, OfficeWaits, CallsWait DEF KnockoutInv, GroupTeamsStay
<1> QED BY <1>2, <1>3 DEF KnockoutInv

LEMMA ThreadSteps ==
    ASSUME BracketAssumption, KnockoutInv, NEW t \in Threads,
           \/ Receive(t) \/ ReadSlots(t) \/ FindSlot(t) \/ BackfillStep(t)
           \/ Acknowledge(t) \/ ScoreFails(t) \/ ListFails(t) \/ ConfirmFails(t)
           \/ Crash(t)
    PROVE  KnockoutInv'
<1>0. /\ TypesOK /\ ChoicesRight /\ queue \in Seq(Events) /\ dead \subseteq Events
      /\ thread \in [Threads -> ThreadRows]
    BY DEF KnockoutInv, TypesOK
<1>1. RowRight(thread[t]) /\ thread[t] \in ThreadRows
    BY <1>0, RowsRight
<1>2. /\ thread[t].event \in Events \cup {NoEvent}
      /\ thread[t].rest \in SUBSET (Groups \cup Matches)
      /\ thread[t].listed \in SUBSET Events /\ thread[t].todo \in Seq(TeamChoices)
    BY <1>1 DEF ThreadRows
<1>3. CASE Receive(t)
    <2> DEFINE row == [Asleep EXCEPT !.pc = "slots", !.event = Head(queue)]
    <2>1. queue # << >> /\ queue' = Tail(queue)
        BY <1>3 DEF Receive
    <2>2. Head(queue) \in Events /\ queue' \in Seq(Events)
        BY <1>0, <2>1
    <2>3. RowRight(row)
        <3>1. Asleep \in ThreadRows /\ Asleep.todo = << >>
            BY AsleepRight DEF RowRight, Asleep
        <3>2. row \in ThreadRows /\ row.event \in Events /\ row.todo = << >>
              /\ row.pc = "slots"
            BY <2>2, <3>1 DEF ThreadRows
        <3> HIDE DEF row
        <3> QED BY <3>2 DEF RowRight
    <2>4. /\ thread' = [thread EXCEPT ![t] = row]
          /\ UNCHANGED <<match, slot, office, call, overwritten, dead>>
        BY <1>3 DEF Receive, bracketVars
    <2> HIDE DEF row
    <2> QED BY <1>0, <2>2, <2>3, <2>4, WorkKeeps
<1>4. CASE ReadSlots(t)
    <2>1. PICK event : event = thread[t].event
        OBVIOUS
    <2>2. event \in Events
        BY <1>1, <1>4, <2>1 DEF ReadSlots, At, RowRight
    <2>3. event.match \in Matches /\ event.result \in MatchRows
        BY <2>2 DEF Events
    <2>4. PICK g : g = GroupOf[event.match]
        OBVIOUS
    <2>5. PICK cs : cs = IF g # NoGroup THEN GroupChoices(g)
                         ELSE ResultChoices(event.match, event.result)
        OBVIOUS
    <2>6. /\ cs \in Seq(TeamChoices)
          /\ \A k \in DOMAIN cs :
                OfGroup(cs[k].source) => Right(cs[k].source, cs[k].team)
        <3>1. CASE g # NoGroup
            <4>1. g \in Groups
                BY <2>3, <2>4, <3>1 DEF Groups
            <4> QED BY <1>0, <2>5, <3>1, <4>1, GroupChoicesRight
        <3>2. CASE g = NoGroup
            BY <2>3, <2>5, <3>2, ResultChoicesRight
        <3> QED BY <3>1, <3>2
    <2> DEFINE row == [thread[t] EXCEPT !.pc = "find", !.todo = cs,
                            !.rest = thread[t].rest, !.listed = thread[t].listed]
    <2>7. RowRight(row)
        BY <1>1, <1>2, <2>6, TodoRight
    <2>8. thread' = [thread EXCEPT ![t] = row]
        <3>1. thread' = [thread EXCEPT ![t].pc = "find", ![t].todo = cs]
            BY <1>4, <2>1, <2>4, <2>5 DEF ReadSlots
        <3> QED BY <1>0, <1>1, <3>1 DEF ThreadRows
    <2>9. UNCHANGED <<match, slot, office, call, overwritten, queue, dead>>
        BY <1>4 DEF ReadSlots, bracketVars, streamVars
    <2> HIDE DEF row
    <2> QED BY <1>0, <2>7, <2>8, <2>9, WorkKeeps
<1>5. CASE FindSlot(t)
    <2>1. thread[t].todo # << >>
          /\ UNCHANGED <<match, slot, office, call, overwritten, queue, dead>>
        BY <1>5 DEF FindSlot, bracketVars, streamVars
    <2>2. CASE Wanted(Head(thread[t].todo))
        <3> DEFINE row == [thread[t] EXCEPT !.pc = "confirm"]
        <3>1. thread' = [thread EXCEPT ![t] = row]
            BY <1>0, <1>5, <2>2 DEF FindSlot, Goto
        <3>2. row \in ThreadRows /\ row.pc = "confirm" /\ row.todo = thread[t].todo
            BY <1>1 DEF ThreadRows
        <3> HIDE DEF row
        <3>3. RowRight(row)
            BY <1>1, <2>1, <3>2 DEF RowRight
        <3> QED BY <1>0, <2>1, <3>1, <3>3, WorkKeeps
    <2>3. CASE ~Wanted(Head(thread[t].todo))
        <3> DEFINE row == [thread[t] EXCEPT !.pc = "find", !.todo = Tail(@)]
        <3>1. thread' = [thread EXCEPT ![t] = row]
            BY <1>0, <1>1, <1>5, <2>3 DEF FindSlot, NextChoice, ThreadRows
        <3>2. RowRight(row)
            BY <1>1, <2>1, TailRight
        <3> HIDE DEF row
        <3> QED BY <1>0, <2>1, <3>1, <3>2, WorkKeeps
    <2> QED BY <2>2, <2>3
<1>6. CASE Acknowledge(t)
    <2>1. /\ thread' = [thread EXCEPT ![t] = Asleep]
          /\ UNCHANGED <<match, slot, office, call, overwritten, queue, dead>>
        BY <1>6 DEF Acknowledge, bracketVars, streamVars
    <2> QED BY <1>0, <2>1, AsleepRight, WorkKeeps
<1>7. CASE ScoreFails(t)
    <2>1. /\ thread' = [thread EXCEPT ![t] = Asleep]
          /\ UNCHANGED <<match, slot, office, call, overwritten, queue>>
          /\ dead' = dead \cup {thread[t].event} /\ thread[t].pc = "slots"
        BY <1>7 DEF ScoreFails, bracketVars, At
    <2>2. dead' \subseteq Events
        BY <1>0, <1>1, <2>1 DEF RowRight
    <2> QED BY <1>0, <2>1, <2>2, AsleepRight, WorkKeeps
<1>8. CASE ConfirmFails(t)
    <2> DEFINE row == [thread[t] EXCEPT !.pc = "find", !.todo = Tail(@)]
    <2>1. thread[t].todo # << >>
        BY <1>1, <1>8 DEF ConfirmFails, At, RowRight
    <2>2. thread' = [thread EXCEPT ![t] = row]
        BY <1>0, <1>1, <1>8 DEF ConfirmFails, NextChoice, ThreadRows
    <2>3. UNCHANGED <<match, slot, office, call, overwritten, queue, dead>>
        BY <1>8 DEF ConfirmFails, bracketVars, streamVars
    <2>4. RowRight(row)
        BY <1>1, <2>1, TailRight
    <2> HIDE DEF row
    <2> QED BY <1>0, <2>2, <2>3, <2>4, WorkKeeps
<1>9. CASE Crash(t)
    <2> DEFINE row == [Asleep EXCEPT !.pc = "find", !.rest = BackfillSlots]
    <2>1. BackfillSlots \subseteq Groups \cup Matches
        BY DEF BackfillSlots
    <2>2. RowRight(row)
        <3>1. Asleep \in ThreadRows /\ Asleep.todo = << >>
            BY AsleepRight DEF RowRight, Asleep
        <3>2. row \in ThreadRows /\ row.todo = << >> /\ row.pc = "find"
            BY <2>1, <3>1 DEF ThreadRows
        <3> HIDE DEF row
        <3> QED BY <3>2 DEF RowRight
    <2>3. /\ thread' = [thread EXCEPT ![t] = row]
          /\ UNCHANGED <<match, slot, office, call, overwritten, queue, dead>>
        BY <1>9 DEF Crash, bracketVars, streamVars
    <2> HIDE DEF row
    <2> QED BY <1>0, <2>2, <2>3, WorkKeeps
<1>10. CASE BackfillStep(t)
    <2>1. /\ thread[t].pc = "find"
          /\ UNCHANGED <<match, slot, office, call, overwritten, queue, dead>>
        BY <1>10 DEF BackfillStep, ReadGroup, ReadListed, ListByPhase, Backfilling,
                     bracketVars, streamVars, At
    <2>2. ASSUME NEW row \in ThreadRows, row.pc = "find",
                 \A k \in DOMAIN row.todo : OfGroup(row.todo[k].source)
                    => Right(row.todo[k].source, row.todo[k].team),
                 thread' = [thread EXCEPT ![t] = row]
          PROVE  KnockoutInv'
        <3>1. RowRight(row)
            BY <2>2 DEF RowRight
        <3> QED BY <1>0, <2>1, <2>2, <3>1, WorkKeeps
    <2>3. CASE \E g \in Groups : ReadGroup(t, g)
        <3>1. PICK g \in Groups : ReadGroup(t, g)
            BY <2>3
        <3>2. PICK cs \in Seq(TeamChoices) : cs = GroupChoices(g)
            BY <1>0, GroupChoicesRight
        <3>3. \A k \in DOMAIN cs : Right(cs[k].source, cs[k].team)
            BY <1>0, <3>2, GroupChoicesRight
        <3> DEFINE row == [thread[t] EXCEPT !.todo = cs, !.rest = @ \ {g}]
        <3>4. thread' = [thread EXCEPT ![t].todo = cs, ![t].rest = @ \ {g}]
            BY <3>1, <3>2 DEF ReadGroup
        <3>5. thread' = [thread EXCEPT ![t] = row]
            BY <1>0, <1>1, <3>4 DEF ThreadRows
        <3>6. row \in ThreadRows /\ row.pc = "find" /\ row.todo = cs
            BY <1>1, <2>1 DEF ThreadRows
        <3> HIDE DEF row
        <3> QED BY <2>2, <3>3, <3>5, <3>6
    <2>4. CASE \E event \in thread[t].listed : ReadListed(t, event)
        <3>1. PICK event \in thread[t].listed : ReadListed(t, event)
            BY <2>4
        <3>2. event.match \in Matches /\ event.result \in MatchRows
            BY <1>2 DEF Events
        <3>3. PICK cs \in Seq(TeamChoices) :
                cs = ResultChoices(event.match, event.result)
            BY <3>2, ResultChoicesRight
        <3>4. \A k \in DOMAIN cs : ~OfGroup(cs[k].source)
            BY <3>2, <3>3, ResultChoicesRight
        <3> DEFINE row == [thread[t] EXCEPT !.todo = cs, !.listed = @ \ {event}]
        <3>5. thread' = [thread EXCEPT ![t].todo = cs, ![t].listed = @ \ {event}]
            BY <3>1, <3>3 DEF ReadListed
        <3>6. thread' = [thread EXCEPT ![t] = row]
            BY <1>0, <1>1, <3>5 DEF ThreadRows
        <3>7. row \in ThreadRows /\ row.pc = "find" /\ row.todo = cs
            BY <1>1, <2>1 DEF ThreadRows
        <3> HIDE DEF row
        <3> QED BY <2>2, <3>4, <3>6, <3>7
    <2>5. CASE \E phase \in SUBSET thread[t].rest \ {{}} : ListByPhase(t, phase)
        <3>1. PICK phase \in SUBSET thread[t].rest : ListByPhase(t, phase)
            BY <2>5
        <3> DEFINE finished == {k \in phase : match[k].status = "finished"}
                   listed == {[match |-> m, result |-> match[m]] : m \in finished}
        <3>2. finished \subseteq Matches
            BY <1>2, <3>1 DEF ListByPhase
        <3>3. listed \in SUBSET Events
            <4>1. \A m \in Matches : [match |-> m, result |-> match[m]] \in Events
                BY <1>0 DEF TypesOK, Events
            <4> HIDE DEF finished
            <4> QED BY <3>2, <4>1
        <3>4. thread' = [thread EXCEPT ![t].rest = @ \ phase, ![t].listed = listed]
            BY <3>1 DEF ListByPhase
        <3> HIDE DEF listed
        <3> DEFINE row == [thread[t] EXCEPT !.rest = @ \ phase, !.listed = listed]
        <3>5. thread' = [thread EXCEPT ![t] = row]
            BY <1>0, <1>1, <3>4 DEF ThreadRows
        <3>6. row \in ThreadRows /\ row.pc = "find" /\ row.todo = thread[t].todo
            BY <1>1, <2>1, <3>3 DEF ThreadRows
        <3>7. \A k \in DOMAIN thread[t].todo : OfGroup(thread[t].todo[k].source)
                => Right(thread[t].todo[k].source, thread[t].todo[k].team)
            BY <1>1 DEF RowRight
        <3> HIDE DEF row
        <3> QED BY <2>2, <3>5, <3>6, <3>7
    <2> QED BY <1>10, <2>3, <2>4, <2>5 DEF BackfillStep
<1>11. CASE ListFails(t)
    <2>1. PICK part :
            /\ thread' = [thread EXCEPT ![t].pc = "find", ![t].rest = @ \ part]
            /\ UNCHANGED <<match, slot, office, call, overwritten, queue, dead>>
        BY <1>11 DEF ListFails, bracketVars, streamVars
    <2> DEFINE row == [thread[t] EXCEPT !.pc = "find", !.rest = @ \ part]
    <2>2. thread' = [thread EXCEPT ![t] = row]
        BY <1>0, <1>1, <2>1 DEF ThreadRows
    <2>3. row \in ThreadRows /\ row.pc = "find" /\ row.todo = thread[t].todo
        BY <1>1 DEF ThreadRows
    <2> HIDE DEF row
    <2>4. RowRight(row)
        BY <1>1, <2>3 DEF RowRight
    <2> QED BY <1>0, <2>1, <2>2, <2>4, WorkKeeps
<1> QED BY <1>3, <1>4, <1>5, <1>6, <1>7, <1>8, <1>9, <1>10, <1>11


\* The worker confirms a slot that it found empty.
LEMMA ConfirmFoundStep ==
    ASSUME BracketAssumption, KnockoutInv, NEW t \in Threads, ConfirmFound(t)
    PROVE  KnockoutInv'
<1>0. /\ TypesOK /\ ChoicesRight /\ GroupTeamsStay /\ SlotsRight /\ OfficeRight
      /\ queue' \in Seq(Events) /\ dead' \subseteq Events
      /\ overwritten' = overwritten /\ office' = office
      /\ CallsRight /\ call' = call
    BY DEF KnockoutInv, TypesOK, ConfirmFound, streamVars
<1>1. RowRight(thread[t]) /\ thread[t] \in ThreadRows /\ thread[t].todo # << >>
      /\ thread \in [Threads -> ThreadRows]
    BY <1>0, RowsRight DEF ConfirmFound, At, RowRight, TypesOK
<1>2. PICK choice : choice = Head(thread[t].todo)
    OBVIOUS
<1>3. /\ choice \in TeamChoices
      /\ OfGroup(choice.source) => Right(choice.source, choice.team)
    <2>1. thread[t].todo \in Seq(TeamChoices)
        BY <1>1 DEF ThreadRows
    <2>2. 1 \in DOMAIN thread[t].todo /\ choice = thread[t].todo[1]
        BY <1>1, <1>2, <2>1
    <2> QED BY <1>1, <2>1, <2>2 DEF RowRight
<1>4. choice.source \in Sources /\ choice.team \in Teams
    BY <1>3 DEF TeamChoices
<1>5. PICK s \in Slots :
        /\ Source[s] = choice.source
        /\ \/ Confirm(s, choice.team, "system")
           \/ UNCHANGED <<match, slot>>
    BY <1>2 DEF ConfirmFound, AutoConfirmSlot, FindSlotByAutoSource
<1>6. /\ match' \in [Matches -> MatchRows] /\ slot' \in [Slots -> SlotRows]
      /\ GroupTeamsStay' /\ Careful /\ SlotsRight'
    <2>1. CASE Confirm(s, choice.team, "system")
        <3>1. PICK team \in Teams : team = choice.team
            BY <1>4
        <3>2. PICK by \in {"system", "admin"} : by = "system"
            OBVIOUS
        <3> QED BY <1>0, <1>3, <1>4, <1>5, <2>1, <3>1, <3>2, ConfirmKeeps
    <2>2. CASE UNCHANGED <<match, slot>>
        <3>1. Careful
            BY <1>0, <2>2, NoMatchChanges
        <3> QED BY <1>0, <2>2, <3>1, SlotsWait DEF TypesOK, GroupTeamsStay
    <2> QED BY <1>5, <2>1, <2>2
<1>7. TypesOK' /\ ChoicesRight'
    <2> DEFINE row == [thread[t] EXCEPT !.pc = "find", !.todo = Tail(@)]
    <2>1. thread' = [thread EXCEPT ![t] = row]
        BY <1>1 DEF ConfirmFound, NextChoice, ThreadRows
    <2>2. RowRight(row)
        BY <1>1, TailRight
    <2> HIDE DEF row
    <2> QED BY <1>0, <1>6, <2>1, <2>2, ThreadGoesOn
<1> QED BY <1>0, <1>6, <1>7, OfficeWaits, CallsWait DEF KnockoutInv

\* An administrator replays a dead letter or fills a slot.
LEMMA AdminSteps ==
    ASSUME BracketAssumption, KnockoutAssumption, KnockoutInv,
           \/ \E event \in dead : Replay(event)
           \/ \E s \in Slots : \E team \in Typed[s] : ConfirmSlot(s, team)
           \/ ConfirmThird
    PROVE  KnockoutInv'
<1>0. /\ TypesOK /\ ChoicesRight /\ GroupTeamsStay /\ SlotsRight /\ OfficeRight
      /\ overwritten' = overwritten /\ thread' = thread /\ CallsRight'
    BY CallsWait DEF KnockoutInv, Replay, ConfirmSlot, ConfirmThird
<1>1. CASE \E event \in dead : Replay(event)
    <2>1. PICK event \in dead : Replay(event)
        BY <1>1
    <2>2. /\ UNCHANGED <<match, slot, office>>
          /\ queue' = Append(queue, event) /\ dead' = dead \ {event}
        BY <2>1 DEF Replay, bracketVars
    <2>3. queue' \in Seq(Events) /\ dead' \subseteq Events
        BY <1>0, <2>2 DEF TypesOK
    <2>4. Careful
        BY <1>0, <2>2, NoMatchChanges
    <2>5. TypesOK' /\ ChoicesRight'
        <3>1. match' \in [Matches -> MatchRows] /\ slot' \in [Slots -> SlotRows]
            BY <1>0, <2>2 DEF TypesOK
        <3> QED BY <1>0, <2>3, <2>4, <3>1, ThreadsWait
    <2> QED BY <1>0, <2>2, <2>4, <2>5, SlotsWait, OfficeWaits
            DEF KnockoutInv, GroupTeamsStay
<1>2. ASSUME NEW s \in Slots, NEW team \in Teams,
             Confirm(s, team, "admin") \/ UNCHANGED <<match, slot>>,
             queue' = queue, dead' = dead
      PROVE  TypesOK' /\ ChoicesRight' /\ GroupTeamsStay' /\ SlotsRight'
    <2>1. queue' \in Seq(Events) /\ dead' \subseteq Events
        BY <1>0, <1>2 DEF TypesOK
    <2>2. /\ match' \in [Matches -> MatchRows] /\ slot' \in [Slots -> SlotRows]
          /\ GroupTeamsStay' /\ Careful /\ SlotsRight'
        <3>1. CASE Confirm(s, team, "admin")
            <4>1. PICK by \in {"system", "admin"} : by = "admin"
                OBVIOUS
            <4> QED BY <1>0, <1>2, <3>1, <4>1, ConfirmKeeps
        <3>2. CASE UNCHANGED <<match, slot>>
            <4>1. Careful
                BY <1>0, <3>2, NoMatchChanges
            <4> QED BY <1>0, <3>2, <4>1, SlotsWait DEF TypesOK, GroupTeamsStay
        <3> QED BY <1>2, <3>1, <3>2
    <2> QED BY <1>0, <2>1, <2>2, ThreadsWait
<1>3. CASE \E s \in Slots : \E team \in Typed[s] : ConfirmSlot(s, team)
    <2>0. PICK s \in Slots : \E team \in Typed[s] : ConfirmSlot(s, team)
        BY <1>3
    <2>1. PICK team \in Typed[s] : ConfirmSlot(s, team)
        BY <2>0
    <2>2. team \in Teams
        BY DEF KnockoutAssumption
    <2>3. /\ Confirm(s, team, "admin") /\ queue' = queue /\ dead' = dead
          /\ office' = office
        BY <2>1 DEF ConfirmSlot, streamVars
    <2> QED BY <1>0, <1>2, <2>2, <2>3, OfficeWaits DEF KnockoutInv
<1>4. CASE ConfirmThird
    <2>1. PICK s \in office.todo :
            /\ Confirm(s, office.plan[s], "admin") \/ UNCHANGED <<match, slot>>
            /\ office' = [office EXCEPT !.todo = @ \ {s}]
            /\ queue' = queue /\ dead' = dead
        BY <1>4 DEF ConfirmThird, streamVars, bracketVars
    <2>2. s \in Slots /\ office.plan[s] \in Teams
        BY <1>0 DEF OfficeRight
    <2>3. OfficeRight'
        <3>1. /\ office'.todo = office.todo \ {s} /\ office'.plan = office.plan
              /\ office'.teams = office.teams /\ office'.fits = office.fits
              /\ office' = [todo |-> office'.todo, plan |-> office'.plan,
                            teams |-> office'.teams, fits |-> office'.fits]
            <4>1. PICK a, b, c, d :
                    office = [todo |-> a, plan |-> b, teams |-> c, fits |-> d]
                BY <1>0 DEF OfficeRight
            <4>2. office' = [todo |-> a \ {s}, plan |-> b, teams |-> c, fits |-> d]
                BY <2>1, <4>1
            <4> QED BY <4>1, <4>2
        <3>2. ThirdsMatched'
            BY <1>0, <3>1 DEF OfficeRight, ThirdsMatched
        <3> QED BY <1>0, <3>1, <3>2 DEF OfficeRight
    <2> QED BY <1>0, <1>2, <2>1, <2>2, <2>3 DEF KnockoutInv
<1> QED BY <1>1, <1>3, <1>4

-----------------------------------------------------------------------------
(* The administrator's thirds.                                             *)

LEMMA Prefix ==
    ASSUME NEW S, NEW n, n \in Nat, NEW f, f \in [1 .. n -> S],
           NEW m, m \in 0 .. n, NEW p, p = SubSeq(f, 1, m)
    PROVE  p \in Seq(S) /\ DOMAIN p = 1 .. m /\ \A i \in 1 .. m : p[i] = f[i]
<1>1. f \in Seq(S) /\ Len(f) = n
    BY SeqDef, LenProperties
<1>2. p \in Seq(S)
    BY <1>1
<1>3. Len(p) = m
    BY <1>1
<1>4. \A i \in 1 .. m : p[i] = f[i]
    BY <1>1
<1> QED BY <1>2, <1>3, <1>4, LenProperties

\* The best thirds of the groups.
LEMMA BestThirdsList ==
    ASSUME BracketAssumption, KnockoutAssumption, TypesOK, GroupTeamsStay
    PROVE  ThirdsList(BestThirds)
<1> DEFINE Of == {g \in Groups : Len(Standings(g)) >= 3}
           thirds == {Standings(g)[3] : g \in Of}
<1>1. ASSUME NEW g \in Groups PROVE GroupTyped(g)
    BY DEF TypesOK, GroupTyped, GroupMatches
<1>2. ASSUME NEW g \in Of
      PROVE  /\ Standings(g)[3] \in TableRows
             /\ Standings(g)[3].team \in TeamsOf(g)
    <2>1. PICK S : S = Entries(g)
        OBVIOUS
    <2>2. Table(S) /\ Standings(g) = SortTable(S)
        BY <1>1, <2>1, EntriesTable
    <2>3. PICK n \in Nat : n = Cardinality(S)
        BY <2>2, TableSorted
    <2>4. PICK st : st = Standings(g)
        OBVIOUS
    <2>5. st \in [1 .. n -> S]
        BY <2>2, <2>3, <2>4, TableSorted
    <2>6. st \in Seq(S) /\ Len(st) >= 3
        BY <2>4, <2>5, SeqDef
    <2>7. st[3] \in S
        BY <2>6, ElementOfSeq, LenProperties
    <2>8. PICK team \in TeamsOf(g) : st[3] = GroupStanding(g, team)
        BY <2>1, <2>7 DEF Entries
    <2>9. st[3].team = team
        BY <2>8 DEF GroupStanding
    <2> QED BY <2>2, <2>4, <2>7, <2>8, <2>9 DEF Table
<1>3. ASSUME NEW g \in Groups, NEW team \in TeamsOf(g)
      PROVE  /\ team # NoTeam
             /\ \E m \in Matches : /\ GroupOf[m] = g
                                   /\ team \in {Fixtures[m].home, Fixtures[m].away}
    <2>1. PICK m \in GroupMatches(g) : team \in {match[m].home, match[m].away}
        BY DEF TeamsOf
    <2>2. m \in Matches /\ GroupOf[m] = g /\ g # NoGroup
        BY <2>1 DEF GroupMatches, Groups
    <2>3. team \in {Fixtures[m].home, Fixtures[m].away}
        BY <2>1, <2>2 DEF GroupTeamsStay
    <2>4. team \in Teams
        BY <2>2, <2>3 DEF KnockoutAssumption, MatchRows
    <2> QED BY <2>2, <2>3, <2>4 DEF Teams
<1>4. ASSUME NEW g \in Groups, NEW h \in Groups, NEW team, team \in TeamsOf(g),
             team \in TeamsOf(h)
      PROVE  g = h
    <2>1. PICK m \in Matches : /\ GroupOf[m] = g
                               /\ team \in {Fixtures[m].home, Fixtures[m].away}
        BY <1>3, <1>4
    <2>2. PICK k \in Matches : /\ GroupOf[k] = h
                               /\ team \in {Fixtures[k].home, Fixtures[k].away}
        BY <1>3, <1>4
    <2>3. g # NoGroup /\ h # NoGroup
        BY DEF Groups
    <2> QED BY <2>1, <2>2, <2>3 DEF KnockoutAssumption
<1>5. Table(thirds)
    <2>1. IsFiniteSet(thirds)
        <3>1. PICK f : f = [g \in Of |-> Standings(g)[3]]
            OBVIOUS
        <3>2. PICK O : O = Of
            OBVIOUS
        <3>3. IsFiniteSet(O)
            <4>1. IsFiniteSet({GroupOf[m] : m \in Matches})
                BY ImageFinite DEF BracketAssumption
            <4>2. PICK A : A = {GroupOf[m] : m \in Matches}
                OBVIOUS
            <4>3. O \subseteq A /\ IsFiniteSet(A)
                BY <3>2, <4>1, <4>2 DEF Groups
            <4> QED BY <4>3, FS_Subset
        <3>4. IsFiniteSet({f[g] : g \in O})
            BY <3>3, ImageFinite
        <3>5. thirds = {f[g] : g \in O}
            BY <3>1, <3>2
        <3> QED BY <3>4, <3>5
    <2>2. thirds \subseteq TableRows
        BY <1>2
    <2>3. ASSUME NEW a \in thirds, NEW b \in thirds, a.team = b.team PROVE a = b
        <3>1. PICK g \in Of : a = Standings(g)[3]
            OBVIOUS
        <3>2. PICK h \in Of : b = Standings(h)[3]
            OBVIOUS
        <3>3. a.team \in TeamsOf(g) /\ a.team \in TeamsOf(h)
            BY <1>2, <2>3, <3>1, <3>2
        <3>4. g = h
            BY <1>4, <3>3
        <3> QED BY <3>1, <3>2, <3>4
    <2> HIDE DEF thirds
    <2> QED BY <2>1, <2>2, <2>3 DEF Table
<1>6. ASSUME NEW a \in thirds PROVE a.team # NoTeam
    BY <1>2, <1>3
<1>7. PICK S : S = thirds
    OBVIOUS
<1>8. PICK sorted : sorted = SortTable(S)
    OBVIOUS
<1>9. PICK n \in Nat : n = Cardinality(S)
    BY <1>5, <1>7, TableSorted
<1>10. /\ sorted \in [1 .. n -> S]
       /\ \A i, k \in 1 .. n : i < k => LessStanding(sorted[i], sorted[k])
    BY <1>5, <1>7, <1>8, <1>9, TableSorted
<1>11. sorted \in Seq(S) /\ Len(sorted) = n
    <2>1. sorted \in Seq(S)
        BY <1>10, SeqDef
    <2> QED BY <1>10, <2>1, LenProperties
<1>12. BestThirds = SubSeq(sorted, 1, Min({Advancing, Len(sorted)}))
    BY <1>7, <1>8 DEF BestThirds, SortTable
<1>13. PICK m \in 0 .. n : m = Min({Advancing, n})
    <2>1. {Advancing, n} \subseteq Nat /\ {Advancing, n} # {}
        BY DEF BracketAssumption
    <2>2. /\ Min({Advancing, n}) \in {Advancing, n}
          /\ \A y \in {Advancing, n} : Min({Advancing, n}) <= y
        BY <2>1, Smallest
    <2> QED BY <2>1, <2>2
<1>14. PICK teams : teams = SubSeq(sorted, 1, m)
    OBVIOUS
<1>15. \A i \in 1 .. m : i \in 1 .. n /\ sorted[i] \in S
    BY <1>10, <1>13
<1>16. /\ teams \in Seq(S) /\ DOMAIN teams = 1 .. m
       /\ \A i \in 1 .. m : teams[i] = sorted[i]
    <2>1. sorted \in [1 .. n -> S]
        BY <1>10
    <2>2. n \in Nat /\ m \in 0 .. n
        BY <1>9, <1>13
    <2> QED BY <1>14, <2>1, <2>2, Prefix
<1>17. S \subseteq TableRows /\ \A a, b \in S : a.team = b.team => a = b
    BY <1>5, <1>7 DEF Table
<1>18. ASSUME NEW i \in 1 .. m, NEW k \in 1 .. m, teams[i].team = teams[k].team
       PROVE  i = k
    <2>1. sorted[i] \in S /\ sorted[k] \in S /\ sorted[i] = sorted[k]
        BY <1>15, <1>16, <1>17, <1>18
    <2>2. ~LessStanding(sorted[i], sorted[i])
        BY <1>17, <2>1, LessOrder
    <2>3. ~(i < k) /\ ~(k < i)
        BY <1>10, <1>15, <2>1, <2>2
    <2> QED BY <1>13, <2>3
<1>19. ASSUME NEW j \in 1 .. m PROVE teams[j].team # NoTeam
    BY <1>6, <1>7, <1>15, <1>16
<1>20. ThirdsList(teams)
    <2>1. teams \in Seq(TableRows)
        BY <1>16, <1>17, SeqMonotonic
    <2> QED BY <1>16, <1>18, <1>19, <2>1 DEF ThirdsList
<1> QED BY <1>11, <1>12, <1>13, <1>14, <1>20

\* An administrator has the thirds matched.
LEMMA DecideThirdsStep ==
    ASSUME BracketAssumption, KnockoutAssumption, KnockoutInv, DecideThirds
    PROVE  KnockoutInv'
<1>0. /\ TypesOK /\ ChoicesRight /\ GroupTeamsStay /\ SlotsRight
      /\ UNCHANGED <<match, slot, queue, dead, thread, overwritten>>
      /\ CallsRight'
    BY CallsWait DEF KnockoutInv, DecideThirds, bracketVars, streamVars
<1>1. TypesOK' /\ ChoicesRight' /\ GroupTeamsStay' /\ SlotsRight'
    <2>1. Careful
        BY <1>0, NoMatchChanges
    <2>2. /\ match' \in [Matches -> MatchRows] /\ slot' \in [Slots -> SlotRows]
          /\ queue' \in Seq(Events) /\ dead' \subseteq Events
        BY <1>0 DEF TypesOK
    <2> QED BY <1>0, <2>1, <2>2, ThreadsWait, SlotsWait DEF GroupTeamsStay
<1>2. PICK teams : teams = BestThirds
    OBVIOUS
<1>3. PICK slots : slots = ThirdSlots
    OBVIOUS
<1>4. ThirdsList(teams) /\ SlotsList(slots)
    BY <1>0, <1>2, <1>3, BestThirdsList, ThirdSlotsList
<1>5. PICK ok : ok = MatchThirds(slots, teams).ok
    OBVIOUS
<1>6. PICK whole : whole = Assignment(slots, teams)
    OBVIOUS
<1>7. PICK plan : plan = IF ok THEN whole ELSE << >>
    OBVIOUS
<1>8. office' = [todo |-> DOMAIN plan, plan |-> plan, teams |-> teams, fits |-> ok]
    BY <1>2, <1>3, <1>5, <1>6, <1>7 DEF DecideThirds
<1>9. /\ DOMAIN whole \subseteq OfThird
      /\ teams # << >> /\ ok => DOMAIN whole = OfThird
      /\ \A s \in DOMAIN whole : whole[s] \in Teams
      /\ \A r, s \in DOMAIN whole : whole[r] = whole[s] => r = s
      /\ \A s \in DOMAIN whole : \E j \in DOMAIN teams :
            teams[j].team = whole[s] /\ teams[j].group \in Source[s].of
    BY <1>4, <1>5, <1>6, AssignmentRight
<1>10. teams # << >> => (ok <=> ThirdsFit(slots, teams))
    BY <1>4, <1>5, MatchIsExact
<1>11. ~ok => DOMAIN plan = {}
    BY <1>7
<1>12. /\ DOMAIN plan \subseteq Slots
       /\ \A s \in DOMAIN plan : plan[s] \in Teams
    BY <1>7, <1>9, <1>11 DEF OfThird
<1>13. /\ office'.todo = DOMAIN plan /\ office'.plan = plan
       /\ office'.teams = teams /\ office'.fits = ok
    BY <1>8
<1>14. ThirdsMatched'
    <2>1. teams # << >> => /\ ok <=> ThirdsFit(ThirdSlots, teams)
                           /\ ok => DOMAIN plan = {s \in Slots : Source[s].kind = "third"}
        BY <1>3, <1>7, <1>9, <1>10 DEF OfThird
    <2>2. \A r, s \in DOMAIN plan : plan[r] = plan[s] => r = s
        BY <1>7, <1>9, <1>11
    <2>3. \A s \in DOMAIN plan : \E j \in DOMAIN teams :
            teams[j].team = plan[s] /\ teams[j].group \in Source[s].of
        BY <1>7, <1>9, <1>11
    <2> QED BY <1>13, <2>1, <2>2, <2>3 DEF ThirdsMatched
<1>15. OfficeRight'
    BY <1>8, <1>12, <1>13, <1>14 DEF OfficeRight
<1> QED BY <1>0, <1>1, <1>15 DEF KnockoutInv

-----------------------------------------------------------------------------
(* The theorems.                                                           *)

LEMMA KnockoutInitially ==
    ASSUME BracketAssumption, KnockoutAssumption, KnockoutInit
    PROVE  KnockoutInv
<1>1. TypesOK
    <2>1. Asleep \in ThreadRows /\ Asleep.pc = "idle"
        BY DEF Asleep, ThreadRows
    <2>2. thread \in [Threads -> ThreadRows] /\ \A t \in Threads : thread[t].pc = "idle"
        BY <2>1 DEF KnockoutInit
    <2>3. slot \in [Slots -> SlotRows]
        BY DEF KnockoutInit, SlotRows, NoTeam
    <2> QED BY <2>2, <2>3 DEF TypesOK, KnockoutInit, KnockoutAssumption
<1>2. GroupTeamsStay
    BY DEF GroupTeamsStay, KnockoutInit
<1>3. ChoicesRight
    <2>1. \A t \in Threads : thread[t].todo = << >>
        BY DEF KnockoutInit, Asleep
    <2> QED BY <2>1 DEF ChoicesRight
<1>4. SlotsRight
    BY DEF SlotsRight, KnockoutInit
<1>5. OfficeRight
    <2>1. /\ office.todo = {} /\ office.plan = << >> /\ office.teams = << >>
          /\ office.fits = TRUE
          /\ office = [todo |-> {}, plan |-> << >>, teams |-> << >>, fits |-> TRUE]
        BY DEF KnockoutInit, NoOffice
    <2>2. DOMAIN office.plan = {}
        BY <2>1
    <2> QED BY <2>1, <2>2 DEF OfficeRight, ThirdsMatched
<1>6. CallsRight
    BY DEF CallsRight, CallRight, KnockoutInit
<1> QED BY <1>1, <1>2, <1>3, <1>4, <1>5, <1>6 DEF KnockoutInv

LEMMA KnockoutStep ==
    ASSUME BracketAssumption, KnockoutAssumption, KnockoutInv,
           [KnockoutNext]_knockoutVars
    PROVE  KnockoutInv'
<1>1. CASE \E c \in Calls : CallNext(c)
    BY <1>1, MatchSteps
<1>2. CASE \E t \in Threads :
            \/ ThreadStep(t)
            \/ ScoreFails(t) \/ ListFails(t) \/ ConfirmFails(t) \/ Crash(t)
    <2>1. PICK t \in Threads :
            \/ ThreadStep(t)
            \/ ScoreFails(t) \/ ListFails(t) \/ ConfirmFails(t) \/ Crash(t)
        BY <1>2
    <2>2. CASE ConfirmFound(t)
        BY <2>2, ConfirmFoundStep
    <2>3. CASE ~ConfirmFound(t)
        BY <2>1, <2>3, ThreadSteps DEF ThreadStep
    <2> QED BY <2>2, <2>3
<1>3. CASE \/ \E event \in dead : Replay(event)
           \/ \E s \in Slots : \E team \in Typed[s] : ConfirmSlot(s, team)
           \/ ConfirmThird
    BY <1>3, AdminSteps
<1>4. CASE DecideThirds
    BY <1>4, DecideThirdsStep
<1>5. CASE UNCHANGED knockoutVars
    <2>1. UNCHANGED <<match, slot, queue, dead, thread, office, call, overwritten>>
        BY <1>5 DEF knockoutVars, bracketVars, streamVars
    <2>2. Careful
        BY <2>1, NoMatchChanges
    <2>3. /\ match' \in [Matches -> MatchRows] /\ slot' \in [Slots -> SlotRows]
          /\ queue' \in Seq(Events) /\ dead' \subseteq Events
        BY <2>1 DEF KnockoutInv, TypesOK
    <2>4. TypesOK' /\ ChoicesRight'
        BY <2>1, <2>2, <2>3, ThreadsWait DEF KnockoutInv
    <2> QED BY <2>1, <2>2, <2>4, SlotsWait, OfficeWaits, CallsWait
            DEF KnockoutInv, GroupTeamsStay
<1> QED BY <1>1, <1>2, <1>3, <1>4, <1>5 DEF KnockoutNext

\* Types, the teams of group matches, and what calls, goroutines and
\* administrators have decided but not done yet: the inductive invariant.
THEOREM KnockoutInvariant == KnockoutSpec => []KnockoutInv
<1>1. KnockoutInit => KnockoutInv
    BY BracketAssumption, KnockoutAssumption, KnockoutInitially
<1>2. KnockoutInv /\ [KnockoutNext]_knockoutVars => KnockoutInv'
    BY BracketAssumption, KnockoutAssumption, KnockoutStep
<1> QED BY <1>1, <1>2, PTL DEF KnockoutSpec

\* What autoConfirmBySource put into the first or second slot of a group is the
\* team with none, or one, above it in the final table, for any groups, results,
\* crashes and replays, unless a row of the group that was over was changed by a
\* correction or by another write that was under way (matchRepo.Update).
THEOREM AutoConfirmedRight == KnockoutSpec => []AutoIsRight
<1>1. KnockoutInv => AutoIsRight
    BY DEF KnockoutInv, SlotsRight, AutoIsRight, OfGroup
<1> QED BY <1>1, KnockoutInvariant, PTL

\* bipartiteMatcher.augment is exact: AutoConfirmBestThirdSlots leaves the slots
\* of thirds empty only when no assignment of the best thirds fits, and else
\* plans a team of its own for every one, from a group the slot admits.
THEOREM ThirdsAreMatched == KnockoutSpec => []ThirdsMatched
<1>1. KnockoutInv => ThirdsMatched
    BY DEF KnockoutInv, OfficeRight
<1> QED BY <1>1, KnockoutInvariant, PTL

\* AutoConfirmSlot updates WHERE team IS NULL: no step of the worker takes an
\* administrator's choice back.
THEOREM AdminChoicesStand == KnockoutSpec => AdminChoiceStands
<1> DEFINE Stands == \A s \in Slots : slot[s].by = "admin" => slot'[s].by = "admin"
<1>1. ASSUME KnockoutInv, [KnockoutNext]_knockoutVars PROVE Stands
    <2> SUFFICES ASSUME NEW s \in Slots, slot[s].by = "admin"
                 PROVE  slot'[s].by = "admin"
        OBVIOUS
    <2>1. slot \in [Slots -> SlotRows] /\ slot[s].team # NoTeam
        BY <1>1 DEF KnockoutInv, TypesOK, SlotsRight
    <2>2. CASE slot' = slot
        BY <2>2
    <2>3. ASSUME NEW r, NEW team, Confirm(r, team, "admin")
          PROVE  slot'[s].by = "admin"
        BY <2>1, <2>3 DEF Confirm
    <2>4. ASSUME NEW t \in Threads, ConfirmFound(t) PROVE slot'[s].by = "admin"
        <3>1. PICK r \in Slots :
                \/ slot[r].team = NoTeam /\ \E team : Confirm(r, team, "system")
                \/ slot' = slot
            BY <2>4 DEF ConfirmFound, AutoConfirmSlot, FindSlotByAutoSource
        <3>2. r = s => slot' = slot
            BY <2>1, <3>1
        <3>3. r # s => slot'[s] = slot[s]
            BY <2>1, <3>1 DEF Confirm
        <3> QED BY <3>2, <3>3
    <2>5. CASE UNCHANGED knockoutVars
        BY <2>2, <2>5 DEF knockoutVars, bracketVars
    <2>6. CASE \E c \in Calls : CallNext(c)
        BY <2>2, <2>6
           DEF CallNext, StartMatch, UpdateResult, CorrectResult, CancelMatch,
               ApplyLiveScore, Decide, UpdateRow, Publish, CallFails, bracketVars
    <2>7. CASE \E t \in Threads :
                \/ ThreadStep(t)
                \/ ScoreFails(t) \/ ListFails(t) \/ ConfirmFails(t) \/ Crash(t)
        BY <2>2, <2>4, <2>7
           DEF ThreadStep, Receive, ReadSlots, FindSlot, BackfillStep, ReadGroup,
               ListByPhase, ReadListed, Acknowledge, ScoreFails, ListFails,
               ConfirmFails, Crash, bracketVars
    <2>8. CASE \/ \E event \in dead : Replay(event)
               \/ \E r \in Slots : \E team \in Typed[r] : ConfirmSlot(r, team)
               \/ DecideThirds \/ ConfirmThird
        BY <2>2, <2>3, <2>8
           DEF Replay, ConfirmSlot, DecideThirds, ConfirmThird, bracketVars
    <2> QED BY <1>1, <2>5, <2>6, <2>7, <2>8 DEF KnockoutNext
<1>2. KnockoutInv /\ [KnockoutNext]_knockoutVars => [Stands]_knockoutVars
    BY <1>1
<1> QED BY <1>2, KnockoutInvariant, PTL DEF KnockoutSpec, AdminChoiceStands

=============================================================================
