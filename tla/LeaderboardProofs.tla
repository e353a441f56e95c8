------------------------- MODULE LeaderboardProofs --------------------------
(***************************************************************************)
(* Proofs about the leaderboard: how it is ranked (Leaderboard), for every *)
(* number of members, predictions and ties, and what is stored of it after *)
(* a match (Snapshots), for every number of matches and goroutines.        *)
(*                                                                         *)
(* The ranking: the rules are a total order (BetterOrder, AheadOrder), so  *)
(* sorted entries exist (SortExists, with the entry that is behind all     *)
(* others taken out of a least counterexample).  That the rank is one more *)
(* than the number of better entries is shown by checking that this        *)
(* function satisfies the recursion of assignRanks, and that no other one  *)
(* does (RanksCount).                                                      *)
(***************************************************************************)
EXTENDS Leaderboard, Snapshots, AccountsProofs

LOCAL INSTANCE Functions
LOCAL INSTANCE FiniteSetTheorems
LOCAL INSTANCE FiniteSetsExt
LOCAL INSTANCE SequencesExt

StandingRows == [points : Int, correct : Int, total : Int, exact : Int,
                 distance : Int]

\* Standings that can be ranked.
Rankable(st) ==
    /\ IsFiniteSet(DOMAIN st) /\ DOMAIN st \subseteq Nat
    /\ \A u \in DOMAIN st : st[u] \in StandingRows

\* The rules are a strict order that leaves nothing open but equal standings.
LEMMA BetterOrder ==
    ASSUME NEW a \in StandingRows, NEW b \in StandingRows,
           NEW c \in StandingRows
    PROVE  /\ ~(Better(a, b) /\ Better(b, a))
           /\ Better(a, b) \/ Better(b, a) \/ a = b
           /\ Better(a, b) /\ Better(b, c) => Better(a, c)
<1>1. ~(Better(a, b) /\ Better(b, a))
    BY DEF Better, StandingRows
<1>2. Better(a, b) /\ Better(b, c) => Better(a, c)
    BY DEF Better, StandingRows
<1>3. Better(a, b) \/ Better(b, a) \/ a = b
    <2>1. \/ Better(a, b) \/ Better(b, a)
          \/ /\ a.points = b.points /\ a.correct = b.correct
             /\ a.total = b.total /\ a.exact = b.exact
             /\ a.distance = b.distance
        BY DEF Better, StandingRows
    <2> HIDE DEF Better
    <2> QED BY <2>1 DEF StandingRows
<1> QED BY <1>1, <1>2, <1>3

\* They compare what the reference compares.
LEMMA BetterIsBeats ==
    ASSUME NEW a \in StandingRows, NEW b \in StandingRows
    PROVE  Beats(a, b) <=> Better(a, b)
<1> DEFINE p == Key(a)
           q == Key(b)
           Decides(k) == p[k] < q[k] /\ \A i \in 1 .. k - 1 : p[i] = q[i]
<1>1. /\ p[1] = -a.points /\ q[1] = -b.points
      /\ p[2] = -a.correct /\ q[2] = -b.correct
      /\ p[3] = a.total /\ q[3] = b.total
      /\ p[4] = -a.exact /\ q[4] = -b.exact
      /\ p[5] = a.distance /\ q[5] = b.distance
    BY DEF Key
<1>2. Beats(a, b) <=> \E k \in 1 .. 5 : Decides(k)
    BY DEF Beats
<1> HIDE DEF p, q
<1>3. /\ Decides(1) <=> p[1] < q[1]
      /\ Decides(2) <=> p[2] < q[2] /\ p[1] = q[1]
      /\ Decides(3) <=> p[3] < q[3] /\ p[1] = q[1] /\ p[2] = q[2]
    OBVIOUS
<1>4. /\ Decides(4) <=> /\ p[4] < q[4] /\ p[1] = q[1] /\ p[2] = q[2]
                   /\ p[3] = q[3]
      /\ Decides(5) <=> /\ p[5] < q[5] /\ p[1] = q[1] /\ p[2] = q[2]
                   /\ p[3] = q[3] /\ p[4] = q[4]
    OBVIOUS
<1> HIDE DEF Decides
<1>5. Beats(a, b) <=> Decides(1) \/ Decides(2) \/ Decides(3) \/ Decides(4) \/ Decides(5)
    <2>1. \A k \in 1 .. 5 : k = 1 \/ k = 2 \/ k = 3 \/ k = 4 \/ k = 5
        OBVIOUS
    <2> QED BY <1>2, <2>1
<1> QED BY <1>1, <1>3, <1>4, <1>5 DEF Better, StandingRows

\* With the user id at the end it is a total order of the entries.
LEMMA AheadOrder ==
    ASSUME NEW st, Rankable(st), NEW u \in DOMAIN st, NEW v \in DOMAIN st,
           NEW w \in DOMAIN st
    PROVE  /\ ~Ahead(st, u, u)
           /\ u # v => Ahead(st, u, v) \/ Ahead(st, v, u)
           /\ Ahead(st, u, v) /\ Ahead(st, v, w) => Ahead(st, u, w)
<1>1. PICK a \in StandingRows : a = st[u]
    BY DEF Rankable
<1>2. PICK b \in StandingRows : b = st[v]
    BY DEF Rankable
<1>3. PICK c \in StandingRows : c = st[w]
    BY DEF Rankable
<1>4. /\ ~(Better(a, b) /\ Better(b, a)) /\ ~Better(a, a)
      /\ Better(a, b) \/ Better(b, a) \/ a = b
      /\ Better(a, b) /\ Better(b, c) => Better(a, c)
    BY BetterOrder
<1>5. u \in Nat /\ v \in Nat /\ w \in Nat
    BY DEF Rankable
<1> QED BY <1>1, <1>2, <1>3, <1>4, <1>5 DEF Ahead

\* Every set of entries has one that is behind all others.
LEMMA LastEntry ==
    ASSUME NEW st, Rankable(st), NEW S, S \subseteq DOMAIN st, S # {}
    PROVE  \E z \in S : \A u \in S \ {z} : Ahead(st, u, z)
<1> DEFINE Behind(z) == {v \in S : Ahead(st, z, v)}
           T == {Behind(z) : z \in S}
<1>1. IsFiniteSet(S)
    BY FS_Subset DEF Rankable
<1>2. PICK t \in T : \A a \in T : a \subseteq t => a = t
    <2>1. T \subseteq SUBSET S /\ T # {}
        OBVIOUS
    <2> HIDE DEF T
    <2> QED BY <1>1, <2>1, LeastSubset
<1>3. PICK z \in S : t = Behind(z)
    BY <1>2
<1>4. ASSUME NEW w \in Behind(z) PROVE FALSE
    <2>1. w \in S /\ Ahead(st, z, w) /\ ~Ahead(st, w, w)
        BY <1>4, AheadOrder
    <2>2. Behind(w) \in T /\ Behind(w) \subseteq Behind(z)
        BY <2>1, AheadOrder
    <2>3. Behind(w) = Behind(z)
        BY <1>2, <1>3, <2>2
    <2> QED BY <1>4, <2>1, <2>3
<1>5. ASSUME NEW u \in S \ {z} PROVE Ahead(st, u, z)
    BY <1>4, AheadOrder
<1> QED BY <1>5

\* order lists S, the better first.
Sorted(st, S, order) ==
    /\ order \in [1 .. Cardinality(S) -> S]
    /\ \A i, k \in 1 .. Cardinality(S) :
        i < k => order[i] # order[k] /\ Ahead(st, order[i], order[k])

LEMMA SortExists ==
    ASSUME NEW st, Rankable(st)
    PROVE  \E order : Sorted(st, DOMAIN st, order)
<1> DEFINE T == {S \in SUBSET DOMAIN st : ~ \E order : Sorted(st, S, order)}
<1> SUFFICES ASSUME T # {} PROVE FALSE
    OBVIOUS
<1>1. PICK A \in T : \A a \in T : a \subseteq A => a = A
    <2>1. T \subseteq SUBSET DOMAIN st
        OBVIOUS
    <2> HIDE DEF T
    <2> QED BY <2>1, LeastSubset DEF Rankable
<1>2. A \subseteq DOMAIN st /\ IsFiniteSet(A) /\ ~ \E order : Sorted(st, A, order)
    BY <1>1, FS_Subset DEF Rankable
<1>3. A # {}
    <2>1. Cardinality({}) = 0
        BY FS_EmptySet
    <2>2. Sorted(st, {}, [i \in 1 .. 0 |-> i])
        BY <2>1 DEF Sorted
    <2> QED BY <1>2, <2>2
<1>4. PICK z \in A : \A u \in A \ {z} : Ahead(st, u, z)
    BY <1>2, <1>3, LastEntry
<1> DEFINE B == A \ {z}
<1>5. B \in SUBSET DOMAIN st /\ B \notin T /\ z \notin B /\ B \subseteq A
    BY <1>1, <1>2
<1>6. PICK o : Sorted(st, B, o)
    BY <1>5
<1>7. PICK n \in Nat : /\ n = Cardinality(A) /\ n # 0
                       /\ Cardinality(B) = n - 1
    BY <1>2, <1>3, FS_CardinalityType, FS_RemoveElement, FS_EmptySet
<1>8. /\ o \in [1 .. n - 1 -> B]
      /\ \A i, k \in 1 .. n - 1 :
            i < k => o[i] # o[k] /\ Ahead(st, o[i], o[k])
    BY <1>6, <1>7 DEF Sorted
<1> HIDE DEF B
<1> DEFINE order == [i \in 1 .. n |-> IF i = n THEN z ELSE o[i]]
<1>9. \A i \in 1 .. n : i # n => i \in 1 .. n - 1 /\ o[i] \in B
    BY <1>8
<1>10. order \in [1 .. n -> A]
    BY <1>5, <1>9
<1>11. ASSUME NEW i \in 1 .. n, NEW k \in 1 .. n, i < k
       PROVE  order[i] # order[k] /\ Ahead(st, order[i], order[k])
    <2>1. i # n /\ i \in 1 .. n - 1 /\ o[i] \in B /\ order[i] = o[i]
        BY <1>9, <1>11
    <2>2. CASE k = n
        BY <1>4, <1>5, <2>1, <2>2 DEF B
    <2>3. CASE k # n
        BY <1>8, <1>9, <1>11, <2>1, <2>3
    <2> QED BY <2>2, <2>3
<1>12. Sorted(st, A, order)
    <2> HIDE DEF order
    <2> QED BY <1>7, <1>10, <1>11 DEF Sorted
<1> QED BY <1>2, <1>12

\* SortEntries finds that order, and it has every entry.
LEMMA SortSorts ==
    ASSUME NEW st, Rankable(st)
    PROVE  /\ Sorted(st, DOMAIN st, SortEntries(st))
           /\ \A u \in DOMAIN st :
                \E k \in 1 .. Cardinality(DOMAIN st) : SortEntries(st)[k] = u
<1> DEFINE S == DOMAIN st
           n == Cardinality(S)
           Seqs == SetToSeqs(S)
           Good(f) == \A i, k \in DOMAIN f : i < k => Ahead(st, f[i], f[k])
<1>0. n \in Nat /\ IsFiniteSet(S)
    BY FS_CardinalityType DEF Rankable
<1>1. SortEntries(st) = CHOOSE f \in Seqs : Good(f)
    BY DEF SortEntries
<1>2. \A f : f \in Seqs <=> /\ f \in [1 .. n -> S]
                            /\ \A i, k \in 1 .. n : i # k => f[i] # f[k]
    BY DEF SetToSeqs
<1>3. PICK o : Sorted(st, S, o)
    BY SortExists
<1>4. o \in Seqs /\ Good(o)
    <2>1. o \in [1 .. n -> S] /\ DOMAIN o = 1 .. n
        BY <1>3 DEF Sorted
    <2>2. \A i, k \in 1 .. n : i # k => o[i] # o[k]
        <3>1. \A i, k \in 1 .. n : i # k => i < k \/ k < i
            BY <1>0
        <3> QED BY <1>3, <3>1 DEF Sorted
    <2> QED BY <1>2, <1>3, <2>1, <2>2 DEF Sorted
<1> DEFINE f == SortEntries(st)
<1>5. f \in Seqs /\ Good(f)
    <2> HIDE DEF Seqs, Good
    <2> QED BY <1>1, <1>4
<1>6. f \in [1 .. n -> S] /\ \A i, k \in 1 .. n : i # k => f[i] # f[k]
    BY <1>2, <1>5
<1>7. Sorted(st, S, f)
    <2>1. DOMAIN f = 1 .. n
        BY <1>6
    <2>2. \A i, k \in 1 .. n : i < k => i # k
        BY <1>0
    <2> HIDE DEF f
    <2> QED BY <1>5, <1>6, <2>1, <2>2 DEF Sorted
<1>8. f \in Surjection(1 .. n, S)
    <2>1. f \in Injection(1 .. n, S)
        BY <1>6 DEF Injection, IsInjective
    <2>2. Cardinality(1 .. n) = n
        BY <1>0, FS_Interval
    <2> HIDE DEF f, n
    <2> QED BY <1>0, <2>1, <2>2, FS_Injection DEF n
<1> QED BY <1>7, <1>8 DEF Surjection

\* The entries that beat the one at place k.
Betters(st, order, k) == {v \in DOMAIN st : Better(st[v], st[order[k]])}

\* A place of the sorted entries is better than another exactly when it comes
\* first and the standings differ.
LEMMA PlacesCompare ==
    ASSUME NEW st, Rankable(st), NEW order, Sorted(st, DOMAIN st, order),
           NEW i \in 1 .. Cardinality(DOMAIN st),
           NEW k \in 1 .. Cardinality(DOMAIN st)
    PROVE  Better(st[order[i]], st[order[k]])
           <=> i < k /\ st[order[i]] # st[order[k]]
<1>1. order[i] \in DOMAIN st /\ order[k] \in DOMAIN st
    BY DEF Sorted
<1>2. PICK a \in StandingRows : a = st[order[i]]
    BY <1>1 DEF Rankable
<1>3. PICK b \in StandingRows : b = st[order[k]]
    BY <1>1 DEF Rankable
<1>4. ~(Better(a, b) /\ Better(b, a)) /\ ~Better(a, a)
    BY BetterOrder
<1>5. i < k => Better(a, b) \/ a = b
    BY <1>2, <1>3 DEF Sorted, Ahead
<1>6. k < i => Better(b, a) \/ a = b
    BY <1>2, <1>3 DEF Sorted, Ahead
<1>7. i = k => a = b
    BY <1>2, <1>3
<1>8. i < k \/ k < i \/ i = k
    BY FS_CardinalityType DEF Rankable
<1> QED BY <1>2, <1>3, <1>4, <1>5, <1>6, <1>7, <1>8

\* Everybody before a place that differs from the one before it is better.
LEMMA AllBefore ==
    ASSUME NEW st, Rankable(st), NEW order, Sorted(st, DOMAIN st, order),
           NEW k \in 1 .. Cardinality(DOMAIN st), k # 1,
           st[order[k]] # st[order[k - 1]],
           NEW i \in 1 .. k - 1
    PROVE  Better(st[order[i]], st[order[k]])
<1>0. Cardinality(DOMAIN st) \in Nat
    BY FS_CardinalityType DEF Rankable
<1>1. /\ k - 1 \in 1 .. Cardinality(DOMAIN st) /\ k - 1 < k
      /\ i \in 1 .. Cardinality(DOMAIN st) /\ i <= k - 1
    BY <1>0
<1>2. Better(st[order[k - 1]], st[order[k]])
    BY <1>1, PlacesCompare
<1>3. CASE i = k - 1
    BY <1>2, <1>3
<1>4. CASE i # k - 1
    <2>1. i < k - 1
        BY <1>1, <1>4
    <2>2. \/ Better(st[order[i]], st[order[k - 1]])
          \/ st[order[i]] = st[order[k - 1]]
        BY <1>1, <2>1, PlacesCompare
    <2>3. /\ order[i] \in DOMAIN st /\ order[k - 1] \in DOMAIN st
          /\ order[k] \in DOMAIN st
        BY <1>1 DEF Sorted
    <2>4. /\ st[order[i]] \in StandingRows /\ st[order[k - 1]] \in StandingRows
          /\ st[order[k]] \in StandingRows
        BY <2>3 DEF Rankable
    <2> QED BY <1>2, <2>2, <2>4, BetterOrder
<1> QED BY <1>3, <1>4

\* The first m places are m entries.
LEMMA FirstPlaces ==
    ASSUME NEW st, Rankable(st), NEW order, Sorted(st, DOMAIN st, order),
           NEW m \in 0 .. Cardinality(DOMAIN st)
    PROVE  /\ IsFiniteSet({order[i] : i \in 1 .. m})
           /\ Cardinality({order[i] : i \in 1 .. m}) = m
<1> DEFINE first == {order[i] : i \in 1 .. m}
           f == [i \in 1 .. m |-> order[i]]
<1>0. /\ Cardinality(DOMAIN st) \in Nat /\ m \in Nat
      /\ 1 .. m \subseteq 1 .. Cardinality(DOMAIN st)
    BY FS_CardinalityType DEF Rankable
<1>1. f \in Surjection(1 .. m, first)
    BY DEF Surjection
<1>2. f \in Injection(1 .. m, first)
    <2>1. \A i, j \in 1 .. m : i # j => i < j \/ j < i
        BY <1>0
    <2>2. \A i, j \in 1 .. m : i # j => order[i] # order[j]
        BY <1>0, <2>1 DEF Sorted
    <2> QED BY <2>2 DEF Injection, IsInjective
<1>3. IsFiniteSet(1 .. m) /\ Cardinality(1 .. m) = m
    BY <1>0, FS_Interval
<1> HIDE DEF f, first
<1>4. IsFiniteSet(first) /\ Cardinality(first) = m
    BY <1>1, <1>2, <1>3, FS_Surjection
<1> QED BY <1>4 DEF first

\* The number of better entries grows with the places as assignRanks counts.
LEMMA BettersCount ==
    ASSUME NEW st, Rankable(st), NEW order, Sorted(st, DOMAIN st, order),
           \A u \in DOMAIN st :
                \E k \in 1 .. Cardinality(DOMAIN st) : order[k] = u,
           NEW k \in 1 .. Cardinality(DOMAIN st)
    PROVE  /\ Cardinality(Betters(st, order, k)) \in Nat
           /\ Cardinality(Betters(st, order, k)) < k
           /\ k = 1 => Cardinality(Betters(st, order, k)) = 0
           /\ k # 1 /\ st[order[k]] = st[order[k - 1]]
              => Betters(st, order, k) = Betters(st, order, k - 1)
           /\ k # 1 /\ st[order[k]] # st[order[k - 1]]
              => Cardinality(Betters(st, order, k)) = k - 1
<1> DEFINE S == DOMAIN st
           before == {order[i] : i \in 1 .. k - 1}
<1>0. Cardinality(S) \in Nat /\ IsFiniteSet(S) /\ k \in Nat /\ k >= 1
      /\ 1 .. k - 1 \subseteq 1 .. Cardinality(S)
    BY FS_CardinalityType DEF Rankable
<1>1. Betters(st, order, k) \subseteq before
    <2>1. SUFFICES ASSUME NEW v \in S, Better(st[v], st[order[k]])
                   PROVE  v \in before
        BY DEF Betters
    <2>2. PICK i \in 1 .. Cardinality(S) : order[i] = v
        OBVIOUS
    <2>3. i < k
        BY <2>1, <2>2, PlacesCompare
    <2>4. i \in 1 .. k - 1
        BY <1>0, <2>3
    <2> QED BY <2>2, <2>4
<1>2. IsFiniteSet(before) /\ Cardinality(before) = k - 1
    BY <1>0, FirstPlaces
<1>3. /\ Cardinality(Betters(st, order, k)) \in Nat
      /\ Cardinality(Betters(st, order, k)) <= k - 1
    <2> HIDE DEF before
    <2> QED BY <1>1, <1>2, FS_Subset, FS_CardinalityType
<1>4. ASSUME k # 1, st[order[k]] # st[order[k - 1]]
      PROVE  Cardinality(Betters(st, order, k)) = k - 1
    <2>1. ASSUME NEW i \in 1 .. k - 1 PROVE order[i] \in Betters(st, order, k)
        <3>1. Better(st[order[i]], st[order[k]])
            BY <1>4, AllBefore
        <3>2. order[i] \in S
            BY <1>0 DEF Sorted
        <3> QED BY <3>1, <3>2 DEF Betters
    <2>2. before \subseteq Betters(st, order, k)
        BY <2>1
    <2>3. Betters(st, order, k) = before
        BY <1>1, <2>2
    <2> HIDE DEF before
    <2> QED BY <1>2, <2>3
<1>5. k # 1 /\ st[order[k]] = st[order[k - 1]]
      => Betters(st, order, k) = Betters(st, order, k - 1)
    BY DEF Betters
<1> QED BY <1>0, <1>3, <1>4, <1>5

\* assignRanks gives every place one more than the number of better entries:
\* that function satisfies its recursion, and there is only one.
LEMMA RanksCount ==
    ASSUME NEW st, Rankable(st), NEW order, Sorted(st, DOMAIN st, order),
           \A u \in DOMAIN st :
                \E k \in 1 .. Cardinality(DOMAIN st) : order[k] = u
    PROVE  AssignRanks(st, order)
           = [k \in 1 .. Cardinality(DOMAIN st) |->
                1 + Cardinality(Betters(st, order, k))]
<1> DEFINE n == Cardinality(DOMAIN st)
           g == [k \in 1 .. n |-> 1 + Cardinality(Betters(st, order, k))]
           Same(k) == st[order[k]] = st[order[k - 1]]
           Solves(f) == f = [k \in 1 .. n |->
                                IF k = 1 THEN 1
                                ELSE IF Same(k) THEN f[k - 1] ELSE k]
<1>1. AssignRanks(st, order) = CHOOSE f : Solves(f)
    <2>1. DOMAIN order = 1 .. n
        BY DEF Sorted
    <2> QED BY <2>1 DEF AssignRanks, SameRank
<1>0. n \in Nat
    BY FS_CardinalityType DEF Rankable
<1>2. ASSUME NEW k \in 1 .. n
      PROVE  g[k] = IF k = 1 THEN 1 ELSE IF Same(k) THEN g[k - 1] ELSE k
    <2>1. /\ k = 1 => Cardinality(Betters(st, order, k)) = 0
          /\ k # 1 /\ Same(k)
             => Betters(st, order, k) = Betters(st, order, k - 1)
          /\ k # 1 /\ ~Same(k) => Cardinality(Betters(st, order, k)) = k - 1
        BY BettersCount
    <2>2. k # 1 => k - 1 \in 1 .. n
        BY <1>0
    <2> QED BY <2>1, <2>2
<1>3. Solves(g)
    <2> HIDE DEF Same
    <2> DEFINE Step(k) == IF k = 1 THEN 1 ELSE IF Same(k) THEN g[k - 1] ELSE k
    <2>1. \A k \in 1 .. n : g[k] = Step(k)
        BY <1>2
    <2>2. g = [k \in 1 .. n |-> g[k]]
        OBVIOUS
    <2> HIDE DEF g, Step
    <2>3. [k \in 1 .. n |-> g[k]] = [k \in 1 .. n |-> Step(k)]
        BY <2>1, Zenon
    <2>4. g = [k \in 1 .. n |-> Step(k)]
        BY <2>2, <2>3
    <2> QED BY <2>4 DEF Step
<1> HIDE DEF g, Solves
<1>4. PICK f : Solves(f) /\ f = AssignRanks(st, order)
    BY <1>1, <1>3
<1>5. ASSUME NEW h, Solves(h)
      PROVE  /\ h = [k \in 1 .. n |-> h[k]]
             /\ \A k \in 1 .. n :
                  h[k] = IF k = 1 THEN 1 ELSE IF Same(k) THEN h[k - 1] ELSE k
    <2> HIDE DEF Same, n
    <2> QED BY <1>5 DEF Solves
<1>6. \A k \in 1 .. n : f[k] = g[k]
    <2> DEFINE D == {k \in 1 .. n : f[k] # g[k]}
    <2> SUFFICES ASSUME D # {} PROVE FALSE
        OBVIOUS
    <2>1. PICK k \in D : k - 1 \notin D
        <3> DEFINE T == {1 .. k : k \in D}
        <3>1. T \subseteq SUBSET (1 .. n) /\ T # {}
            <4>1. \A k \in D : 1 .. k \subseteq 1 .. n
                BY <1>0
            <4> HIDE DEF D, n
            <4> QED BY <4>1
        <3>2. PICK t \in T : \A a \in T : a \subseteq t => a = t
            <4>1. PICK S : S = 1 .. n
                OBVIOUS
            <4>2. IsFiniteSet(S)
                BY <1>0, <4>1, FS_Interval
            <4>3. T \subseteq SUBSET S /\ T # {}
                BY <3>1, <4>1
            <4> HIDE DEF T
            <4> QED BY <4>2, <4>3, LeastSubset
        <3>3. PICK k \in D : t = 1 .. k
            BY <3>2
        <3>4. k - 1 \notin D
            <4> SUFFICES ASSUME k - 1 \in D PROVE FALSE
                OBVIOUS
            <4>1. k \in 1 .. n /\ k \in 1 .. k /\ k \notin 1 .. k - 1
                  /\ 1 .. k - 1 \subseteq 1 .. k
                BY <1>0, <3>3
            <4>2. 1 .. k - 1 \in T
                OBVIOUS
            <4>3. 1 .. k - 1 = 1 .. k
                BY <3>2, <3>3, <4>1, <4>2
            <4> QED BY <4>1, <4>3
        <3> QED BY <3>4
    <2>2. k \in 1 .. n /\ f[k] # g[k]
        BY <2>1
    <2>3. k # 1 => k - 1 \in 1 .. n /\ f[k - 1] = g[k - 1]
        BY <1>0, <2>1, <2>2
    <2>4. /\ f[k] = IF k = 1 THEN 1 ELSE IF Same(k) THEN f[k - 1] ELSE k
          /\ g[k] = IF k = 1 THEN 1 ELSE IF Same(k) THEN g[k - 1] ELSE k
        BY <1>3, <1>4, <1>5, <2>2
    <2> HIDE DEF Same
    <2> QED BY <2>2, <2>3, <2>4
<1>7. f = g
    <2>1. f = [k \in 1 .. n |-> f[k]] /\ g = [k \in 1 .. n |-> g[k]]
        BY <1>3, <1>4, <1>5
    <2>2. [k \in 1 .. n |-> f[k]] = [k \in 1 .. n |-> g[k]]
        BY <1>6, Zenon
    <2> QED BY <2>1, <2>2
<1> QED BY <1>4, <1>7 DEF g

LeaderboardInv ==
    /\ activePaid \in Nat
    /\ DOMAIN entries \subseteq Members /\ Rankable(entries)

\* What is aggregated of a member can be compared: the sums and the counts
\* are numbers.
LEMMA StatsCompare ==
    ASSUME NEW h \in Histories, NEW d \in Distances
    PROVE  PredictionStats(h, d) \in StandingRows
<1>0. h \in Seq(Nat) /\ d \in 0 .. Farthest
    BY LeaderboardAssumption
<1>1. PICK S : S = DOMAIN h
    OBVIOUS
<1>2. IsFiniteSet(S) /\ \A k \in S : h[k] \in Nat
    <2>1. PICK n \in Nat : S = 1 .. n
        BY <1>0, <1>1
    <2>2. IsFiniteSet(1 .. n)
        BY FS_Interval
    <2>3. \A k \in S : h[k] \in Nat
        BY <1>0, <1>1
    <2> QED BY <2>1, <2>2, <2>3
<1>3. SumFunctionOnSet(h, S) \in Nat
    BY <1>2, SumNat
<1>4. SumFunction(h) \in Int
    BY <1>1, <1>3 DEF SumFunction
<1>5. ASSUME NEW A \in SUBSET S PROVE Cardinality(A) \in Int
    BY <1>2, FS_Subset, FS_CardinalityType
<1>6. /\ Cardinality({k \in DOMAIN h : h[k] > 0}) \in Int
      /\ Cardinality({k \in DOMAIN h : h[k] = PointsExactScore}) \in Int
    BY <1>1, <1>5
<1>7. Len(h) \in Int /\ d \in Int
    BY <1>0 DEF Farthest
<1> QED BY <1>4, <1>6, <1>7 DEF PredictionStats, Standing, StandingRows

LEMMA LeaderboardInitially == LeaderboardInit => LeaderboardInv
BY LeaderboardAssumption, FS_EmptySet
   DEF LeaderboardInit, LeaderboardInv, Rankable

LEMMA LeaderboardStep ==
    LeaderboardInv /\ [LeaderboardNext]_leaderboardVars => LeaderboardInv'
<1> SUFFICES ASSUME LeaderboardInv, [LeaderboardNext]_leaderboardVars
             PROVE  LeaderboardInv'
    OBVIOUS
<1>1. CASE LeaderboardNext
    <2>1. PICK u \in Members, h \in Histories, d \in Distances :
                BuildEntry(u, h, d)
        BY <1>1 DEF LeaderboardNext
    <2>2. PICK s \in StandingRows : s = PredictionStats(h, d)
        BY StatsCompare
    <2>3. /\ activePaid' = activePaid
          /\ entries' = [v \in DOMAIN entries \cup {u} |->
                            IF v = u THEN s ELSE entries[v]]
        BY <2>1, <2>2 DEF BuildEntry
    <2>4. IsFiniteSet(DOMAIN entries \cup {u})
        BY FS_AddElement DEF LeaderboardInv, Rankable
    <2> QED BY <2>3, <2>4, LeaderboardAssumption
            DEF LeaderboardInv, Rankable
<1>2. CASE UNCHANGED leaderboardVars
    BY <1>2 DEF leaderboardVars, LeaderboardInv, Rankable
<1> QED BY <1>1, <1>2

\* Every leaderboard that buildLeaderboard can build is finite, and its
\* entries can be compared.
THEOREM LeaderboardInvariant == LeaderboardSpec => []LeaderboardInv
BY LeaderboardInitially, LeaderboardStep, PTL DEF LeaderboardSpec

\* The ranks of the sorted entries, counted with the reference order.
LEMMA RanksOfEntries ==
    ASSUME LeaderboardInv
    PROVE  /\ Sorted(entries, DOMAIN entries, Order)
           /\ \A u \in DOMAIN entries :
                \E k \in 1 .. Cardinality(DOMAIN entries) : Order[k] = u
           /\ RankOf = [k \in 1 .. Cardinality(DOMAIN entries) |->
                            1 + Cardinality(Betters(entries, Order, k))]
<1>1. Rankable(entries)
    BY DEF LeaderboardInv
<1>2. /\ Sorted(entries, DOMAIN entries, Order)
      /\ \A u \in DOMAIN entries :
                \E k \in 1 .. Cardinality(DOMAIN entries) : Order[k] = u
    BY <1>1, SortSorts DEF Order
<1> QED BY <1>1, <1>2, RanksCount DEF RankOf

LEMMA BettersBeat ==
    ASSUME LeaderboardInv, NEW k \in 1 .. Cardinality(DOMAIN entries)
    PROVE  Betters(entries, Order, k)
           = {v \in DOMAIN entries : Beats(entries[v], entries[Order[k]])}
<1>1. Order[k] \in DOMAIN entries
    BY RanksOfEntries DEF Sorted
<1>2. \A v \in DOMAIN entries : entries[v] \in StandingRows
    BY DEF LeaderboardInv, Rankable
<1>3. \A v \in DOMAIN entries :
        Beats(entries[v], entries[Order[k]])
        <=> Better(entries[v], entries[Order[k]])
    BY <1>1, <1>2, BetterIsBeats
<1> QED BY <1>3 DEF Betters

LEMMA RanksRight == LeaderboardInv => RankCountsBetter
<1> SUFFICES ASSUME LeaderboardInv PROVE RankCountsBetter
    OBVIOUS
<1> DEFINE S == DOMAIN entries
           n == Cardinality(S)
<1>0. n \in Nat
    BY FS_CardinalityType DEF LeaderboardInv, Rankable
<1>1. /\ Order \in [1 .. n -> S]
      /\ \A u \in S : \E k \in 1 .. n : Order[k] = u
    BY RanksOfEntries DEF Sorted
<1>2. Range(Order) = S
    BY <1>1 DEF Range
<1>3. Len(Order) = n
    BY <1>0, <1>1
<1>4. ASSUME NEW k \in DOMAIN Order
      PROVE  RankOf[k] = 1 + Cardinality({v \in S :
                                    Beats(entries[v], entries[Order[k]])})
    <2>1. k \in 1 .. n
        BY <1>1
    <2>2. RankOf[k] = 1 + Cardinality(Betters(entries, Order, k))
        BY <2>1, RanksOfEntries
    <2> QED BY <2>1, <2>2, BettersBeat
<1> HIDE DEF n
<1> QED BY <1>2, <1>3, <1>4 DEF RankCountsBetter, n

\* For every number of members and of predictions, and whatever their points:
\* the pass over the sorted slice gives everybody one more than the number of
\* members who are better under the four rules.
THEOREM RanksCountBetter == LeaderboardSpec => []RankCountsBetter
BY RanksRight, LeaderboardInvariant, PTL

\* Whom an entry does not beat has no more entries before it.
LEMMA NoWorse ==
    ASSUME NEW st, Rankable(st), NEW order, Sorted(st, DOMAIN st, order),
           NEW i \in 1 .. Cardinality(DOMAIN st),
           NEW k \in 1 .. Cardinality(DOMAIN st),
           ~Better(st[order[i]], st[order[k]])
    PROVE  Cardinality(Betters(st, order, k))
           <= Cardinality(Betters(st, order, i))
<1>1. order[i] \in DOMAIN st /\ order[k] \in DOMAIN st
    BY DEF Sorted
<1>2. PICK a \in StandingRows : a = st[order[i]]
    BY <1>1 DEF Rankable
<1>3. PICK b \in StandingRows : b = st[order[k]]
    BY <1>1 DEF Rankable
<1>4. Better(b, a) \/ a = b
    BY <1>2, <1>3, BetterOrder
<1>5. \A v \in DOMAIN st : Better(st[v], b) => Better(st[v], a)
    <2> SUFFICES ASSUME NEW v \in DOMAIN st, Better(st[v], b)
                 PROVE  Better(st[v], a)
        OBVIOUS
    <2>1. PICK c \in StandingRows : c = st[v]
        BY DEF Rankable
    <2> QED BY <1>4, <2>1, BetterOrder
<1>6. Betters(st, order, k) \subseteq Betters(st, order, i)
    BY <1>2, <1>3, <1>5 DEF Betters
<1>7. IsFiniteSet(Betters(st, order, i))
    BY FS_Subset DEF Betters, Rankable
<1> QED BY <1>6, <1>7, FS_Subset

LEMMA PrizesRight == LeaderboardInv => PrizesCutAtTie
<1> SUFFICES ASSUME LeaderboardInv PROVE PrizesCutAtTie
    OBVIOUS
<1> DEFINE S == DOMAIN entries
           n == Cardinality(S)
           B(k) == Betters(entries, Order, k)
           R(k) == 1 + Cardinality(B(k))
           w == WinnerCount(activePaid)
           Prized == AssignPrizes(RankOf, activePaid)
<1>0. n \in Nat /\ IsFiniteSet(S) /\ Rankable(entries)
    BY FS_CardinalityType DEF LeaderboardInv, Rankable
<1>1. w \in Nat
    BY DEF WinnerCount
<1>2. /\ Sorted(entries, S, Order)
      /\ \A u \in S : \E k \in 1 .. n : Order[k] = u
      /\ RankOf = [k \in 1 .. n |-> R(k)]
    BY RanksOfEntries
<1>3. ASSUME NEW k \in 1 .. n
      PROVE  Order[k] \in S /\ R(k) \in Nat /\ R(k) <= k /\ RankOf[k] = R(k)
    <2>1. Cardinality(B(k)) \in Nat /\ Cardinality(B(k)) < k
        BY <1>0, <1>2, BettersCount
    <2>2. Order[k] \in S
        BY <1>2 DEF Sorted
    <2> QED BY <1>2, <2>1, <2>2
<1>4. Len(RankOf) = n /\ DOMAIN RankOf = 1 .. n
    <2>1. RankOf \in [1 .. n -> Nat]
        <3> HIDE DEF R
        <3> QED BY <1>2, <1>3
    <2> QED BY <1>0, <2>1
<1>5. Winning = {Order[k] : k \in Prized}
    BY DEF Winning, Winners, Order, RankOf
\* Which places win.
<1>6. /\ w = 0 => Prized = {}
      /\ w > n => Prized = 1 .. n
      /\ w # 0 /\ w <= n => Prized = {k \in 1 .. n : R(k) <= R(w)}
    <2>1. w # 0 /\ w <= n => w \in 1 .. n
        BY <1>0, <1>1
    <2>2. Prized = IF w = 0 THEN {}
                   ELSE IF w > n THEN 1 .. n
                   ELSE {k \in 1 .. n : RankOf[k] <= RankOf[w]}
        BY <1>4 DEF AssignPrizes
    <2>3. w # 0 /\ w <= n => {k \in 1 .. n : RankOf[k] <= RankOf[w]}
                             = {k \in 1 .. n : R(k) <= R(w)}
        <3> HIDE DEF R, w, n
        <3> QED BY <1>3, <2>1
    <2> HIDE DEF Prized, R, w, n
    <2> QED BY <1>0, <1>1, <2>2, <2>3
<1>7. ASSUME NEW i \in 1 .. n, NEW k \in 1 .. n, R(i) < R(k)
      PROVE  Beats(entries[Order[i]], entries[Order[k]])
    <2>1. /\ Cardinality(B(i)) \in Nat /\ Cardinality(B(k)) \in Nat
        BY <1>0, <1>2, BettersCount
    <2>2. Cardinality(B(i)) < Cardinality(B(k))
        BY <1>7, <2>1
    <2>3. Better(entries[Order[i]], entries[Order[k]])
        <3> SUFFICES ASSUME ~Better(entries[Order[i]], entries[Order[k]])
                     PROVE  FALSE
            OBVIOUS
        <3>1. Cardinality(B(k)) <= Cardinality(B(i))
            BY <1>0, <1>2, NoWorse
        <3> QED BY <2>1, <2>2, <3>1
    <2>4. /\ entries[Order[i]] \in StandingRows
          /\ entries[Order[k]] \in StandingRows
        BY <1>0, <1>3 DEF Rankable
    <2> QED BY <2>3, <2>4, BetterIsBeats
<1>8. ASSUME NEW i \in 1 .. n, NEW k \in 1 .. n, i <= k PROVE R(i) <= R(k)
    <2>1. ~Better(entries[Order[k]], entries[Order[i]])
        BY <1>0, <1>2, <1>8, PlacesCompare
    <2>2. Cardinality(B(i)) <= Cardinality(B(k))
        BY <1>0, <1>2, <2>1, NoWorse
    <2>3. Cardinality(B(i)) \in Nat /\ Cardinality(B(k)) \in Nat
        BY <1>0, <1>2, BettersCount
    <2> QED BY <2>2, <2>3
<1>9. Prized \subseteq 1 .. n
    <2> HIDE DEF Prized, R, w, n
    <2> QED BY <1>0, <1>1, <1>6
<1>10. Winning \subseteq S /\ IsFiniteSet(Winning)
    <2>1. Winning \subseteq S
        BY <1>3, <1>5, <1>9
    <2> QED BY <1>0, <2>1, FS_Subset
\* Every loser is beaten by every winner.
<1>11. ASSUME NEW u \in Winning, NEW v \in S \ Winning
       PROVE  Beats(entries[u], entries[v])
    <2>1. PICK i \in Prized : u = Order[i]
        BY <1>5
    <2>2. PICK k \in 1 .. n : Order[k] = v
        BY <1>2
    <2>3. k \notin Prized /\ i \in 1 .. n
        BY <1>5, <1>9, <2>2
    <2>4. w # 0 /\ w <= n
        <3> HIDE DEF Prized, R, w, n
        <3> QED BY <1>0, <1>1, <1>6, <2>1, <2>3
    <2>5. R(i) <= R(w) /\ ~(R(k) <= R(w)) /\ w \in 1 .. n
        <3> HIDE DEF Prized, R, w, n
        <3> QED BY <1>0, <1>1, <1>6, <2>1, <2>3, <2>4
    <2>6. R(i) \in Nat /\ R(k) \in Nat /\ R(w) \in Nat
        BY <1>3, <2>3, <2>5
    <2>7. R(i) < R(k)
        <3> HIDE DEF R, w
        <3> QED BY <2>5, <2>6
    <2> QED BY <1>7, <2>1, <2>2, <2>3, <2>7
\* Every place is taken.
<1>12. Cardinality(Winning) >= Min({w, n})
    <2>1. Min({w, n}) \in Nat /\ Min({w, n}) <= w /\ Min({w, n}) <= n
        <3>1. \E x \in {w, n} : \A y \in {w, n} : x <= y
            <4> HIDE DEF w, n
            <4> QED BY <1>0, <1>1
        <3> HIDE DEF w, n
        <3> QED BY <1>0, <1>1, <3>1 DEF Min
    <2>2. PICK m \in 0 .. n : m = Min({w, n}) /\ m <= w
        BY <1>0, <2>1
    <2>3. ASSUME NEW i \in 1 .. m PROVE i \in Prized
        <3>1. i \in 1 .. n /\ w # 0 /\ i <= w
            BY <1>0, <1>1, <2>2
        <3>2. CASE w > n
            BY <1>6, <3>1, <3>2
        <3>3. CASE w <= n
            <4>1. w \in 1 .. n
                BY <1>0, <1>1, <3>1, <3>3
            <4>2. R(i) <= R(w)
                BY <1>8, <3>1, <4>1
            <4> HIDE DEF R, w, n, Prized
            <4> QED BY <1>6, <3>1, <3>3, <4>2
        <3> QED BY <1>0, <1>1, <3>2, <3>3
    <2>4. {Order[i] : i \in 1 .. m} \subseteq Winning
        BY <1>5, <2>3
    <2>5. Cardinality({Order[i] : i \in 1 .. m}) = m
        <3>1. PICK st : st = entries
            OBVIOUS
        <3>2. PICK order : order = Order
            OBVIOUS
        <3>3. /\ Rankable(st) /\ Sorted(st, DOMAIN st, order)
              /\ m \in 0 .. Cardinality(DOMAIN st)
            BY <1>0, <1>2, <3>1, <3>2
        <3>4. Cardinality({order[i] : i \in 1 .. m}) = m
            BY <3>3, FirstPlaces
        <3> QED BY <3>2, <3>4
    <2>6. PICK first : first = {Order[i] : i \in 1 .. m}
        OBVIOUS
    <2>7. first \in SUBSET Winning /\ Cardinality(first) = m
        BY <2>4, <2>5, <2>6
    <2>8. Cardinality(first) <= Cardinality(Winning)
        BY <1>10, <2>7, FS_Subset
    <2>9. Cardinality(Winning) \in Nat
        BY <1>10, FS_CardinalityType
    <2> HIDE DEF w, n
    <2> QED BY <1>0, <2>2, <2>7, <2>8, <2>9
\* And nobody wins beyond the places but by a tie at the last one.
<1>13. ASSUME NEW u \in Winning
       PROVE  Cardinality({v \in Winning : Beats(entries[v], entries[u])}) < w
    <2>1. PICK k \in Prized : u = Order[k]
        BY <1>5
    <2>2. k \in 1 .. n /\ R(k) \in Nat /\ R(k) <= k
        BY <1>3, <1>9, <2>1
    <2>3. R(k) <= w
        <3>1. w # 0
            BY <1>6, <2>1
        <3>2. CASE w > n
            <4> HIDE DEF R, w, n, Prized
            <4> QED BY <1>0, <1>1, <2>2, <3>2
        <3>3. CASE w <= n
            <4>1. w \in 1 .. n
                BY <1>0, <1>1, <3>1, <3>3
            <4>2. R(w) \in Nat /\ R(w) <= w
                BY <1>3, <4>1
            <4>3. R(k) <= R(w)
                <5> HIDE DEF R, w, n, Prized
                <5> QED BY <1>6, <2>1, <3>1, <3>3
            <4> HIDE DEF R, w, n, Prized
            <4> QED BY <1>1, <2>2, <4>2, <4>3
        <3> QED BY <1>0, <1>1, <3>2, <3>3
    <2>4. B(k) = {v \in S : Beats(entries[v], entries[u])}
        BY <2>1, <2>2, BettersBeat
    <2>5. {v \in Winning : Beats(entries[v], entries[u])} \subseteq B(k)
        BY <1>10, <2>4
    <2>6. IsFiniteSet(B(k)) /\ Cardinality(B(k)) \in Nat
        <3>1. B(k) \in SUBSET S
            BY <2>4
        <3> QED BY <1>0, <3>1, FS_Subset, FS_CardinalityType
    <2>7. PICK beating :
            beating = {v \in Winning : Beats(entries[v], entries[u])}
        OBVIOUS
    <2>8. beating \in SUBSET B(k)
        BY <2>5, <2>7
    <2>9. /\ Cardinality(beating) <= Cardinality(B(k))
          /\ Cardinality(beating) \in Nat
        BY <2>6, <2>8, FS_Subset, FS_CardinalityType
    <2> HIDE DEF w, B
    <2> QED BY <1>1, <2>3, <2>6, <2>7, <2>9
<1> QED BY <1>11, <1>12, <1>13 DEF PrizesCutAtTie

\* For every number of members, of prizes and of ties: the winners are those
\* whom no loser equals, as many as there are places, and one more only when
\* it is level with the last place.
THEOREM PrizesAreCutAtTie == LeaderboardSpec => []PrizesCutAtTie
BY PrizesRight, LeaderboardInvariant, PTL

-----------------------------------------------------------------------------
\* The snapshot of a match.  SnapshotHasTrigger is about rows that are
\* written; what makes it inductive is what a goroutine knows before: behind
\* ScoreMatch its match is scored, scores are never taken back, and what it
\* ranked includes the match.

ThreadTypes ==
    thread \in [Threads ->
        [pc : {"idle", "score", "flush", "lock", "rank", "create"},
         match : Matches \cup {NoMatch}, standing : SUBSET Matches, tries : Int]]

ScoredFirst ==
    \A t \in Threads :
        /\ thread[t].pc \in {"flush", "lock", "rank", "create"}
           => thread[t].match \in scored
        /\ thread[t].pc = "create" => thread[t].match \in thread[t].standing

SnapshotsInv ==
    /\ ThreadTypes /\ scored \subseteq Matches
    /\ ScoredFirst /\ SnapshotHasTrigger
    /\ \A t \in Threads : thread[t].pc # "idle" => thread[t].match \in Matches

LEMMA InitEstablishes == SnapshotsInit => SnapshotsInv
BY DEF SnapshotsInit, Asleep, SnapshotsInv, ThreadTypes, ScoredFirst,
       SnapshotHasTrigger

\* Whoever leaves the threads alone and takes no score back.
LEMMA OutsideKeeps ==
    ASSUME SnapshotsInv, UNCHANGED <<thread, snaps>>,
           scored \subseteq scored', scored' \subseteq Matches
    PROVE  SnapshotsInv'
BY DEF SnapshotsInv, ThreadTypes, ScoredFirst, SnapshotHasTrigger

\* A thread that ends an event, begins one or begins it again.
LEMMA RestartKeeps ==
    ASSUME SnapshotsInv, NEW t \in Threads, NEW m \in Matches,
           Acked(t) \/ thread' = [thread EXCEPT ![t] = Begun(m)],
           UNCHANGED <<scored, snaps>>
    PROVE  SnapshotsInv'
<1> DEFINE Fresh == [pc : {"idle", "score"}, match : Matches \cup {NoMatch},
                     standing : SUBSET Matches, tries : Int]
<1>0. /\ Asleep \in Fresh /\ Asleep.pc = "idle"
      /\ Begun(m) \in Fresh /\ Begun(m).match = m
    BY DEF Asleep, Begun
<1>1. PICK row \in Fresh :
        /\ thread' = [thread EXCEPT ![t] = row]
        /\ row.pc # "idle" => row.match \in Matches
    <2> HIDE DEF Fresh
    <2> QED BY <1>0 DEF Acked
<1>2. ThreadTypes'
    BY <1>1 DEF SnapshotsInv, ThreadTypes
<1>3. /\ thread'[t] = row
      /\ \A s \in Threads : s # t => thread'[s] = thread[s]
    BY <1>1 DEF SnapshotsInv, ThreadTypes
<1>4. ScoredFirst'
    BY <1>3 DEF SnapshotsInv, ScoredFirst
<1>5. \A s \in Threads : thread'[s].pc # "idle" => thread'[s].match \in Matches
    BY <1>1, <1>3 DEF SnapshotsInv
<1> QED BY <1>2, <1>4, <1>5 DEF SnapshotsInv, SnapshotHasTrigger

\* A thread that goes on with its event.
LEMMA GoOnKeeps ==
    ASSUME SnapshotsInv, NEW t \in Threads, thread[t].pc # "idle",
           NEW pc \in {"flush", "lock", "rank", "create"},
           NEW standing \in SUBSET Matches, NEW tries \in Int,
           thread' = [thread EXCEPT ![t].pc = pc, ![t].standing = standing,
                                    ![t].tries = tries],
           scored \subseteq scored', scored' \subseteq Matches, UNCHANGED snaps,
           thread[t].match \in scored',
           pc = "create" => thread[t].match \in standing
    PROVE  SnapshotsInv'
<1>1. ThreadTypes'
    BY DEF SnapshotsInv, ThreadTypes
<1>2. /\ thread'[t].pc = pc /\ thread'[t].match = thread[t].match
      /\ thread'[t].standing = standing
      /\ \A s \in Threads : s # t => thread'[s] = thread[s]
    BY DEF SnapshotsInv, ThreadTypes
<1>3. ScoredFirst'
    BY <1>2 DEF SnapshotsInv, ScoredFirst
<1>4. \A s \in Threads : thread'[s].pc # "idle" => thread'[s].match \in Matches
    BY <1>2 DEF SnapshotsInv
<1> QED BY <1>1, <1>3, <1>4 DEF SnapshotsInv, SnapshotHasTrigger

LEMMA GotoIs ==
    ASSUME SnapshotsInv, NEW t \in Threads, NEW pc, Goto(t, pc)
    PROVE  /\ thread' = [thread EXCEPT ![t].pc = pc,
                                       ![t].standing = thread[t].standing,
                                       ![t].tries = thread[t].tries]
           /\ thread[t].standing \in SUBSET Matches /\ thread[t].tries \in Int
BY DEF SnapshotsInv, ThreadTypes, Goto

LEMMA CreateSnapshotKeeps ==
    ASSUME SnapshotsInv, NEW t \in Threads, CreateSnapshot(t)
    PROVE  SnapshotsInv'
<1>1. thread[t].match \in Matches /\ thread[t].match \in thread[t].standing
    BY DEF CreateSnapshot, At, SnapshotsInv, ScoredFirst
<1>2. SnapshotHasTrigger'
    BY <1>1 DEF CreateSnapshot, SnapshotsInv, SnapshotHasTrigger
<1>3. thread' = [thread EXCEPT ![t] = Asleep] /\ scored' = scored
    BY DEF CreateSnapshot, Acked
<1>4. ThreadTypes'
    BY <1>3 DEF SnapshotsInv, ThreadTypes, Asleep
<1>5. /\ thread'[t].pc = "idle"
      /\ \A s \in Threads : s # t => thread'[s] = thread[s]
    BY <1>3 DEF SnapshotsInv, ThreadTypes, Asleep
<1>6. ScoredFirst'
    BY <1>3, <1>5 DEF SnapshotsInv, ScoredFirst
<1>7. \A s \in Threads : thread'[s].pc # "idle" => thread'[s].match \in Matches
    BY <1>5 DEF SnapshotsInv
<1> QED BY <1>2, <1>3, <1>4, <1>6, <1>7 DEF SnapshotsInv

LEMMA ThreadKeeps ==
    ASSUME SnapshotsInv, NEW t \in Threads,
           \/ ThreadStep(t)
           \/ ScoreFails(t) \/ ListFails(t) \/ SnapshotFails(t) \/ Crash(t)
    PROVE  SnapshotsInv'
<1>0. /\ thread[t].pc # "idle" => thread[t].match \in Matches
      /\ thread[t].pc \in {"flush", "lock", "rank", "create"}
         => thread[t].match \in scored
      /\ thread[t].standing \in SUBSET Matches /\ thread[t].tries \in Int
      /\ scored \subseteq Matches
    BY DEF SnapshotsInv, ScoredFirst, ThreadTypes
<1>1. ASSUME NEW m \in Matches, Receive(t, m) PROVE SnapshotsInv'
    BY <1>1, RestartKeeps DEF Receive, boardVars
<1>2. CASE ScoreMatch(t)
    BY <1>0, <1>2, GotoIs, GoOnKeeps DEF ScoreMatch, At, boardVars
<1>3. CASE FlushAndSignal(t)
    <2>1. /\ thread[t].pc = "flush" /\ Goto(t, "lock")
          /\ UNCHANGED <<scored, snaps>>
        BY <1>3 DEF FlushAndSignal, At
    <2> QED BY <1>0, <2>1, GotoIs, GoOnKeeps
<1>4. CASE TryLock(t)
    <2>1. CASE Acked(t)
        BY <1>0, <1>4, <2>1, RestartKeeps DEF TryLock, At
    <2>2. CASE Goto(t, "rank")
        BY <1>0, <1>4, <2>2, GotoIs, GoOnKeeps DEF TryLock, At
    <2> QED BY <1>4, <2>1, <2>2 DEF TryLock
<1>5. CASE Rank(t)
    <2>1. thread' = [thread EXCEPT ![t].pc = "create", ![t].standing = scored,
                                   ![t].tries = thread[t].tries]
        BY <1>5 DEF Rank, RankLive, SnapshotsInv, ThreadTypes
    <2> QED BY <1>0, <1>5, <2>1, GoOnKeeps DEF Rank, At, boardVars
<1>6. CASE CreateSnapshot(t)
    BY <1>6, CreateSnapshotKeeps
<1>7. CASE ScoreFails(t) \/ ListFails(t)
    BY <1>0, <1>7, RestartKeeps DEF ScoreFails, ListFails, At, boardVars
<1>8. CASE SnapshotFails(t)
    <2>1. CASE Acked(t)
        BY <1>0, <1>8, <2>1, RestartKeeps DEF SnapshotFails, At
    <2>2. CASE thread' = [thread EXCEPT ![t].pc = "rank", ![t].tries = @ + 1]
        <3>1. thread' = [thread EXCEPT ![t].pc = "rank",
                                       ![t].standing = thread[t].standing,
                                       ![t].tries = thread[t].tries + 1]
            BY <2>2 DEF SnapshotsInv, ThreadTypes
        <3>2. thread[t].pc = "create" /\ UNCHANGED <<scored, snaps>>
            BY <1>8 DEF SnapshotFails, At
        <3>3. thread[t].tries + 1 \in Int
            BY <1>0
        <3> QED BY <1>0, <3>1, <3>2, <3>3, GoOnKeeps
    <2> QED BY <1>8, <2>1, <2>2 DEF SnapshotFails
<1>9. CASE Crash(t)
    BY <1>0, <1>9, RestartKeeps DEF Crash, At, boardVars
<1> QED BY <1>1, <1>2, <1>3, <1>4, <1>5, <1>6, <1>7, <1>8, <1>9 DEF ThreadStep

LEMMA StepKeeps == SnapshotsInv /\ [SnapshotsNext]_snapshotVars => SnapshotsInv'
<1> SUFFICES ASSUME SnapshotsInv, [SnapshotsNext]_snapshotVars
    PROVE  SnapshotsInv'
    OBVIOUS
<1>1. ASSUME NEW m \in Matches,
             UpdateResult(m) \/ CorrectResult(m) \/ Replay(m) \/ ExpireLock(m)
      PROVE  SnapshotsInv'
    <2>1. /\ UNCHANGED <<thread, snaps>>
          /\ scored' \in {scored, scored \cup {m}}
        BY <1>1 DEF UpdateResult, CorrectResult, Replay, ExpireLock, Publish,
                    boardVars
    <2> QED BY <2>1, OutsideKeeps DEF SnapshotsInv
<1>2. ASSUME NEW r \in Readers,
             GetLeaderboard(r) \/ RecalculateLeaderboard(r) \/ Fill(r)
      PROVE  SnapshotsInv'
    BY <1>2, OutsideKeeps
    DEF GetLeaderboard, RecalculateLeaderboard, Fill, KeepWorker, SnapshotsInv
<1>3. CASE ExpireCache
    BY <1>3, OutsideKeeps DEF ExpireCache, KeepWorker, SnapshotsInv
<1>4. CASE UNCHANGED snapshotVars
    BY <1>4, OutsideKeeps DEF snapshotVars, boardVars, SnapshotsInv
<1> QED BY <1>1, <1>2, <1>3, <1>4, ThreadKeeps DEF SnapshotsNext

\* The inductive invariant: what a goroutine knows of its match before it
\* writes the snapshot.
THEOREM SnapshotsInvariant == SnapshotsSpec => []SnapshotsInv
BY InitEstablishes, StepKeeps, PTL DEF SnapshotsSpec

\* The snapshot that runSnapshot stores for a match includes its points,
\* whatever is redelivered, retried, corrected or cached beside it.
THEOREM SnapshotsHaveTheirTrigger == SnapshotsSpec => []SnapshotHasTrigger
<1>1. SnapshotsInv => SnapshotHasTrigger BY DEF SnapshotsInv
<1> QED BY <1>1, SnapshotsInvariant, PTL
=============================================================================
