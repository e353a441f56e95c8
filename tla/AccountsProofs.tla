--------------------------- MODULE AccountsProofs ---------------------------
(***************************************************************************)
(* What the money transactions do to the accounts, for every set of users  *)
(* and every width of the balance column: a credit, a debit and a credit   *)
(* of several users at once keep the types, and keep the ledger and the    *)
(* balance in step.  The proofs of the components cite these lemmas, one   *)
(* per kind of money transaction.                                          *)
(*                                                                         *)
(* Sums over finite sets come with it: what a sum does when an element is  *)
(* taken out, raised or added, each by a least counterexample.             *)
(***************************************************************************)
EXTENDS Accounts, TLAPS

LOCAL INSTANCE Functions
LOCAL INSTANCE FiniteSetTheorems

\* A row written by a money transaction is a row of the table, provided the
\* balance it leaves fits the column.
LEMMA LedgerRowType ==
    ASSUME AccountsTypeOK, NEW u \in Users, NEW cents \in Int,
           NEW kind \in Kinds, NEW origin \in Origins,
           NEW reference \in References,
           NEW unit \in Currencies, NEW cur \in Currencies,
           balance[u] + cents \in Cents
    PROVE  LedgerRow(u, cents, kind, origin, reference, unit, cur) \in Rows
BY DEF LedgerRow, Rows

\* CreditUser keeps the types: what keeps the balance inside the column is
\* the overflow check, not the amount.
LEMMA CreditUserType ==
    ASSUME AccountsTypeOK, AccountsAssumption,
           NEW u \in Users, NEW cents \in Nat,
           NEW kind \in Kinds, NEW origin \in Origins,
           NEW reference \in References,
           NEW unit \in Currencies, NEW cur \in Currencies,
           CreditUser(u, cents, kind, origin, reference, unit, cur)
    PROVE  AccountsTypeOK'
<1>1. balance[u] + cents \in Cents
  BY DEF AccountsTypeOK, CreditUser, CanCredit, Cents, AccountsAssumption
<1>2. LedgerRow(u, cents, kind, origin, reference, unit, cur) \in Rows
  BY <1>1, LedgerRowType
<1>3. balance' \in [Users -> Cents]
  BY <1>1 DEF AccountsTypeOK, CreditUser
<1>4. ledger' \in [Users -> Seq(Rows)]
  BY <1>2 DEF AccountsTypeOK, CreditUser
<1> QED
  BY <1>3, <1>4 DEF AccountsTypeOK, CreditUser

\* DebitUser keeps the types: the balance stays non-negative because the
\* UPDATE compares it with the amount.
LEMMA DebitUserType ==
    ASSUME AccountsTypeOK, AccountsAssumption,
           NEW u \in Users, NEW cents \in Nat,
           NEW kind \in Kinds, NEW origin \in Origins, NEW unit \in Currencies,
           DebitUser(u, cents, kind, origin, unit)
    PROVE  AccountsTypeOK'
<1>1. balance[u] - cents \in Cents
  BY DEF AccountsTypeOK, DebitUser, CanDebit, Cents, AccountsAssumption
<1>2. LedgerRow(u, -cents, kind, origin, NoReference, unit, denom[u]) \in Rows
  <2>1. balance[u] + (-cents) \in Cents
    BY <1>1 DEF AccountsTypeOK, Cents
  <2>2. NoReference \in References /\ denom[u] \in Currencies
    BY DEF References, AccountsTypeOK
  <2> QED
    BY <2>1, <2>2, LedgerRowType
<1>3. balance' \in [Users -> Cents]
  BY <1>1 DEF AccountsTypeOK, DebitUser
<1>4. ledger' \in [Users -> Seq(Rows)]
  BY <1>2 DEF AccountsTypeOK, DebitUser
<1> QED
  BY <1>3, <1>4 DEF AccountsTypeOK, DebitUser

-----------------------------------------------------------------------------

\* One more row, with the balance it leaves, is a longer chain.
LEMMA ChainedAppend ==
    ASSUME NEW rows \in Seq(Rows), NEW b \in Int, Chained(rows, b),
           NEW row \in Rows, row.after = b + row.delta
    PROVE  Chained(Append(rows, row), row.after)
<1> DEFINE longer == Append(rows, row)
<1>1. /\ Len(rows) \in Nat
      /\ longer \in Seq(Rows)
      /\ Len(longer) = Len(rows) + 1
      /\ longer[Len(rows) + 1] = row
      /\ \A k \in 1 .. Len(rows) : longer[k] = rows[k]
  OBVIOUS
<1>2. ASSUME NEW k \in DOMAIN longer
      PROVE  longer[k].after
               = longer[k].delta + (IF k = 1 THEN 0 ELSE longer[k - 1].after)
  <2>1. CASE k \in 1 .. Len(rows)
    BY <1>1, <2>1 DEF Chained
  <2>2. CASE k = Len(rows) + 1
    <3>1. row.after = row.delta + b
      BY DEF Rows, Cents
    <3>2. b = IF k = 1 THEN 0 ELSE longer[k - 1].after
      BY <1>1, <2>2 DEF Chained
    <3> QED
      BY <1>1, <2>2, <3>1, <3>2
  <2> QED
    BY <1>1, <2>1, <2>2
<1>3. row.after = IF longer = <<>> THEN 0 ELSE longer[Len(longer)].after
  BY <1>1
<1> QED
  BY <1>2, <1>3 DEF Chained

\* The step that all the money transactions share: one row is appended to
\* the ledger of u, its balance_after is the new balance, and no other
\* account is touched.
LEMMA AppendKeepsChain ==
    ASSUME AccountsTypeOK, LedgerChain, NEW u \in Users, NEW row \in Rows,
           row.after = balance[u] + row.delta,
           balance' = [balance EXCEPT ![u] = row.after],
           ledger' = [ledger EXCEPT ![u] = Append(@, row)]
    PROVE  LedgerChain'
<1>1. ASSUME NEW v \in Users, v # u
      PROVE  balance'[v] = balance[v] /\ ledger'[v] = ledger[v]
  BY <1>1 DEF AccountsTypeOK
<1>2. balance'[u] = row.after /\ ledger'[u] = Append(ledger[u], row)
  BY DEF AccountsTypeOK
<1>3. Chained(Append(ledger[u], row), row.after)
  <2>1. ledger[u] \in Seq(Rows) /\ balance[u] \in Int
    BY DEF AccountsTypeOK, Cents
  <2>2. Chained(ledger[u], balance[u])
    BY DEF LedgerChain
  <2> QED
    BY <2>1, <2>2, ChainedAppend
<1>4. \A v \in Users : Chained(ledger'[v], balance'[v])
  BY <1>1, <1>2, <1>3 DEF LedgerChain
<1> QED
  BY <1>4 DEF LedgerChain

\* CreditUser writes the balance and the row that agrees with it.
LEMMA CreditUserChain ==
    ASSUME AccountsTypeOK, AccountsAssumption, LedgerChain,
           NEW u \in Users, NEW cents \in Nat,
           NEW kind \in Kinds, NEW origin \in Origins,
           NEW reference \in References,
           NEW unit \in Currencies, NEW cur \in Currencies,
           CreditUser(u, cents, kind, origin, reference, unit, cur)
    PROVE  LedgerChain'
<1> DEFINE row == LedgerRow(u, cents, kind, origin, reference, unit, cur)
<1>1. row \in Rows
  <2>1. balance[u] + cents \in Cents
    BY DEF AccountsTypeOK, CreditUser, CanCredit, Cents, AccountsAssumption
  <2> QED
    BY <2>1, LedgerRowType
<1>2. row.after = balance[u] + row.delta
  BY DEF LedgerRow
<1>3. balance' = [balance EXCEPT ![u] = row.after]
  BY DEF CreditUser, LedgerRow, AccountsTypeOK
<1>4. ledger' = [ledger EXCEPT ![u] = Append(@, row)]
  BY DEF CreditUser
<1> QED
  BY <1>1, <1>2, <1>3, <1>4, AppendKeepsChain

\* DebitUser too.
LEMMA DebitUserChain ==
    ASSUME AccountsTypeOK, AccountsAssumption, LedgerChain,
           NEW u \in Users, NEW cents \in Nat,
           NEW kind \in Kinds, NEW origin \in Origins, NEW unit \in Currencies,
           DebitUser(u, cents, kind, origin, unit)
    PROVE  LedgerChain'
<1> DEFINE row == LedgerRow(u, -cents, kind, origin, NoReference, unit, denom[u])
<1>1. row \in Rows
  <2>1. balance[u] + (-cents) \in Cents
    BY DEF AccountsTypeOK, DebitUser, CanDebit, Cents, AccountsAssumption
  <2>2. NoReference \in References /\ denom[u] \in Currencies
    BY DEF References, AccountsTypeOK
  <2> QED
    BY <2>1, <2>2, LedgerRowType
<1>2. row.after = balance[u] + row.delta
  BY DEF LedgerRow
<1>3. balance' = [balance EXCEPT ![u] = row.after]
  BY DEF DebitUser, LedgerRow, AccountsTypeOK, Cents
<1>4. ledger' = [ledger EXCEPT ![u] = Append(@, row)]
  BY DEF DebitUser
<1> QED
  BY <1>1, <1>2, <1>3, <1>4, AppendKeepsChain

\* What a row appended to the ledger of u does to the rows of an origin.
LEMMA RowAppended ==
    ASSUME AccountsTypeOK, NEW u \in Users, NEW row,
           ledger'[u] = Append(ledger[u], row),
           \A v \in Users : v # u => ledger'[v] = ledger[v]
    PROVE  /\ NoRowFor(row.origin) => OneRowFor(row.origin, u)'
           /\ \A x : x # row.origin /\ NoRowFor(x) => NoRowFor(x)'
           /\ \A x : \A v \in Users :
                x # row.origin /\ OneRowFor(x, v) => OneRowFor(x, v)'
<1>0. PICK n \in Nat : n = Len(ledger[u])
  BY DEF AccountsTypeOK
<1>1. /\ DOMAIN ledger[u] = 1 .. n
      /\ DOMAIN ledger'[u] = 1 .. n + 1
      /\ ledger'[u][n + 1] = row
      /\ \A k \in 1 .. n : ledger'[u][k] = ledger[u][k]
  <2>1. ledger[u] \in Seq(Rows)
    BY DEF AccountsTypeOK
  <2> QED
    BY <1>0, <2>1
<1>2. \A k \in 1 .. n + 1 : k \in 1 .. n \/ k = n + 1
  OBVIOUS
<1>3. n + 1 \in 1 .. n + 1 /\ n + 1 \notin 1 .. n /\ 1 .. n \subseteq 1 .. n + 1
  OBVIOUS
<1>4. ASSUME NoRowFor(row.origin)
      PROVE  OneRowFor(row.origin, u)'
  <2>1. ASSUME NEW v \in Users, NEW j \in DOMAIN ledger'[v]
        PROVE  ledger'[v][j].origin = row.origin <=> v = u /\ j = n + 1
    <3>1. CASE v = u
      BY <1>1, <1>2, <1>3, <1>4, <2>1, <3>1 DEF NoRowFor
    <3>2. CASE v # u
      BY <1>4, <2>1, <3>2 DEF NoRowFor
    <3> QED
      BY <3>1, <3>2
  <2>2. n + 1 \in DOMAIN ledger'[u]
    BY <1>1, <1>3
  <2>3. \E k \in DOMAIN ledger'[u] :
            \A v \in Users : \A j \in DOMAIN ledger'[v] :
                ledger'[v][j].origin = row.origin <=> v = u /\ j = k
    BY <2>1, <2>2, Zenon
  <2> QED
    BY <2>3, Zenon DEF OneRowFor
<1>5. ASSUME NEW x, x # row.origin, NoRowFor(x)
      PROVE  NoRowFor(x)'
  <2>1. ASSUME NEW v \in Users, NEW j \in DOMAIN ledger'[v]
        PROVE  ledger'[v][j].origin # x
    <3>1. CASE v = u
      BY <1>1, <1>2, <1>5, <2>1, <3>1 DEF NoRowFor
    <3>2. CASE v # u
      BY <1>5, <2>1, <3>2 DEF NoRowFor
    <3> QED
      BY <3>1, <3>2
  <2> QED
    BY <2>1 DEF NoRowFor
<1>6. ASSUME NEW x, NEW w \in Users, x # row.origin, OneRowFor(x, w)
      PROVE  OneRowFor(x, w)'
  <2>1. PICK k \in DOMAIN ledger[w] :
            \A v \in Users : \A j \in DOMAIN ledger[v] :
                ledger[v][j].origin = x <=> v = w /\ j = k
    BY <1>6 DEF OneRowFor
  <2>2. k \in DOMAIN ledger'[w]
    <3>1. CASE w = u
      BY <1>1, <1>3, <3>1
    <3>2. CASE w # u
      BY <1>6, <3>2
    <3> QED
      BY <3>1, <3>2
  <2>3. ASSUME NEW v \in Users, NEW j \in DOMAIN ledger'[v]
        PROVE  ledger'[v][j].origin = x <=> v = w /\ j = k
    <3>1. CASE v = u /\ j \in 1 .. n
      BY <1>1, <2>1, <2>3, <3>1
    <3>2. CASE v = u /\ j = n + 1
      BY <1>1, <1>3, <1>6, <2>1, <2>3, <3>2
    <3>3. CASE v # u
      BY <2>1, <2>3, <3>3
    <3> QED
      BY <1>1, <1>2, <2>3, <3>1, <3>2, <3>3
  <2> QED
    BY <2>2, <2>3 DEF OneRowFor
<1> QED
  BY <1>4, <1>5, <1>6

\* A credit adds one row, to u and for its origin: the origin that had no
\* row has one now, and every other origin has the rows it had.
LEMMA CreditUserOrigins ==
    ASSUME AccountsTypeOK, NEW u \in Users, NEW cents, NEW kind, NEW origin,
           NEW reference, NEW unit, NEW cur,
           CreditUser(u, cents, kind, origin, reference, unit, cur)
    PROVE  /\ NoRowFor(origin) => OneRowFor(origin, u)'
           /\ \A x : x # origin /\ NoRowFor(x) => NoRowFor(x)'
           /\ \A x : \A v \in Users :
                x # origin /\ OneRowFor(x, v) => OneRowFor(x, v)'
<1> DEFINE row == LedgerRow(u, cents, kind, origin, reference, unit, cur)
<1>1. /\ ledger[u] \in Seq(Rows)
      /\ ledger'[u] = Append(ledger[u], row)
      /\ \A v \in Users : v # u => ledger'[v] = ledger[v]
  BY DEF AccountsTypeOK, CreditUser
<1>2. row.origin = origin
  BY DEF LedgerRow
<1> HIDE DEF row
<1> QED
  BY <1>1, <1>2, RowAppended

\* And a debit adds one row in the same way.
LEMMA DebitUserOrigins ==
    ASSUME AccountsTypeOK, NEW u \in Users, NEW cents, NEW kind, NEW origin,
           NEW unit, DebitUser(u, cents, kind, origin, unit)
    PROVE  /\ NoRowFor(origin) => OneRowFor(origin, u)'
           /\ \A x : x # origin /\ NoRowFor(x) => NoRowFor(x)'
           /\ \A x : \A v \in Users :
                x # origin /\ OneRowFor(x, v) => OneRowFor(x, v)'
<1> DEFINE row == LedgerRow(u, -cents, kind, origin, NoReference, unit, denom[u])
<1>1. /\ ledger[u] \in Seq(Rows)
      /\ ledger'[u] = Append(ledger[u], row)
      /\ \A v \in Users : v # u => ledger'[v] = ledger[v]
  BY DEF AccountsTypeOK, DebitUser
<1>2. row.origin = origin
  BY DEF LedgerRow
<1> HIDE DEF row
<1> QED
  BY <1>1, <1>2, RowAppended

\* The initial accounts are well formed and in step.
LEMMA AccountsInitially ==
    ASSUME AccountsInit, AccountsAssumption
    PROVE  AccountsTypeOK /\ LedgerChain
<1>1. \A u \in Users : OpeningRow(u) \in Rows
  BY DEF OpeningRow, Rows, Cents, Kinds, Origins, References, Currencies,
         AccountsAssumption
<1>2. ledger \in [Users -> Seq(Rows)]
  BY <1>1 DEF AccountsInit
<1>3. AccountsTypeOK
  BY <1>2 DEF AccountsInit, AccountsTypeOK, AccountsAssumption, Cents,
              Currencies
<1>4. ASSUME NEW u \in Users
      PROVE  Chained(ledger[u], balance[u])
  <2>1. CASE Opening[u] = 0
    BY <2>1 DEF AccountsInit, Chained
  <2>2. CASE Opening[u] # 0
    <3>1. ledger[u] = <<OpeningRow(u)>> /\ balance[u] = Opening[u]
      BY <2>2 DEF AccountsInit
    <3>2. Opening[u] \in Nat
      BY DEF AccountsAssumption
    <3> QED
      BY <3>1, <3>2 DEF Chained, OpeningRow
  <2> QED
    BY <2>1, <2>2
<1> QED
  BY <1>3, <1>4 DEF LedgerChain

-----------------------------------------------------------------------------
(***************************************************************************)
(* Sums over finite sets.  SumFunctionOnSet adds in an order that CHOOSE   *)
(* fixes; it is the value of a function that is defined by recursion over  *)
(* subsets.  That the function exists, and that the order does not matter, *)
(* is shown with a least counterexample.                                   *)
(***************************************************************************)

\* A set of subsets of a finite set has a smallest member.
LEMMA LeastSubset ==
    ASSUME NEW S, IsFiniteSet(S), NEW T, T \subseteq SUBSET S, T # {}
    PROVE  \E t \in T : \A a \in T : a \subseteq t => a = t
<1> DEFINE R == StrictSubsetOrdering(S)
<1>1. IsWellFoundedOn(R, SUBSET S)
    BY FS_StrictSubsetOrderingWellFounded, FS_FiniteSubsetsOfFinite
<1>2. \A a \in SUBSET S, b \in SUBSET S :
        a \subseteq b /\ a # b => <<a, b>> \in R
    BY DEF StrictSubsetOrdering
<1> HIDE DEF R
<1>3. PICK t \in T : \A a \in T : ~(<<a, t>> \in R)
    BY <1>1, WFMin, Zenon
<1> QED BY <1>2, <1>3

Pick(s) == CHOOSE x \in s : TRUE

\* g[s] is the sum of f over s, for every subset s of S.
IsSum(g, f, S) ==
    g = [s \in SUBSET S |->
            IF s = {} THEN 0 ELSE f[Pick(s)] + g[s \ {Pick(s)}]]

LEMMA PickIn == ASSUME NEW s, s # {} PROVE Pick(s) \in s
BY DEF Pick

LEMMA SumsAgree ==
    ASSUME NEW f, NEW g, NEW A, IsSum(g, f, A),
           NEW p, NEW h, NEW B, IsSum(h, p, B),
           NEW C, C \subseteq A, C \subseteq B, IsFiniteSet(C),
           \A x \in C : f[x] = p[x]
    PROVE  g[C] = h[C]
<1> DEFINE T == {s \in SUBSET C : g[s] # h[s]}
<1> SUFFICES ASSUME T # {} PROVE FALSE
    OBVIOUS
<1>1. PICK s \in T : \A a \in T : a \subseteq s => a = s
    <2>1. T \subseteq SUBSET C
        OBVIOUS
    <2> HIDE DEF T
    <2> QED BY <2>1, LeastSubset
<1>2. s \in SUBSET A /\ s \in SUBSET B /\ s \in SUBSET C /\ g[s] # h[s]
    BY <1>1
<1>3. /\ g[s] = IF s = {} THEN 0 ELSE f[Pick(s)] + g[s \ {Pick(s)}]
      /\ h[s] = IF s = {} THEN 0 ELSE p[Pick(s)] + h[s \ {Pick(s)}]
    BY <1>2, Zenon DEF IsSum
<1>4. s # {}
    BY <1>2, <1>3
<1>5. Pick(s) \in s /\ Pick(s) \in C
    BY <1>2, <1>4, PickIn
<1>6. s \ {Pick(s)} \notin T
    BY <1>1, <1>5
<1>7. g[s \ {Pick(s)}] = h[s \ {Pick(s)}]
    BY <1>2, <1>6
<1>8. f[Pick(s)] = p[Pick(s)]
    BY <1>5
<1> QED BY <1>2, <1>3, <1>4, <1>7, <1>8

LEMMA SumExists ==
    ASSUME NEW f, NEW S, IsFiniteSet(S)
    PROVE  \E g : IsSum(g, f, S)
<1> DEFINE T == {A \in SUBSET S : ~ \E g : IsSum(g, f, A)}
           h(A) == CHOOSE g : IsSum(g, f, A)
<1> SUFFICES ASSUME T # {} PROVE FALSE
    OBVIOUS
<1>1. PICK A \in T : \A a \in T : a \subseteq A => a = A
    <2>1. T \subseteq SUBSET S
        OBVIOUS
    <2> HIDE DEF T
    <2> QED BY <2>1, LeastSubset
<1>2. A \in SUBSET S /\ ~ \E g : IsSum(g, f, A)
    BY <1>1
<1>3. ASSUME NEW a \in SUBSET A, a # A PROVE IsSum(h(a), f, a)
    <2>1. a \in SUBSET S /\ a \notin T
        BY <1>1, <1>2, <1>3
    <2>2. \E g : IsSum(g, f, a)
        BY <2>1
    <2> QED BY <2>2
<1> DEFINE Value(s) == IF s = A
                       THEN IF A = {} THEN 0
                            ELSE f[Pick(A)] + h(A \ {Pick(A)})[A \ {Pick(A)}]
                       ELSE h(s)[s]
           g == [s \in SUBSET A |-> Value(s)]
<1>4. ASSUME NEW s \in SUBSET A
      PROVE  Value(s) = IF s = {} THEN 0 ELSE f[Pick(s)] + g[s \ {Pick(s)}]
    <2> DEFINE rest == s \ {Pick(s)}
    <2>1. s # {} => rest \in SUBSET A /\ rest # A /\ rest \subseteq s /\ rest # s
        BY PickIn
    <2>2. s # {} => g[rest] = h(rest)[rest]
        BY <2>1
    <2>3. CASE s = A
        BY <2>2, <2>3
    <2>4. CASE s # A
        <3>1. IsSum(h(s), f, s)
            BY <1>3, <2>4
        <3>2. s \in SUBSET s
            OBVIOUS
        <3>3. h(s)[s] = IF s = {} THEN 0 ELSE f[Pick(s)] + h(s)[rest]
            <4> HIDE DEF h
            <4> QED BY <3>1, <3>2, Zenon DEF IsSum
        <3>4. s # {} => h(s)[rest] = h(rest)[rest]
            <4> SUFFICES ASSUME s # {} PROVE h(s)[rest] = h(rest)[rest]
                OBVIOUS
            <4>1. IsSum(h(rest), f, rest)
                BY <1>3, <2>1
            <4>2. IsFiniteSet(rest)
                BY <1>2, <2>1, FS_Subset
            <4>3. rest \subseteq s /\ rest \subseteq rest
                BY <2>1
            <4>4. PICK a : a = h(s)
                OBVIOUS
            <4>5. PICK b : b = h(rest)
                OBVIOUS
            <4>6. IsSum(a, f, s) /\ IsSum(b, f, rest)
                BY <3>1, <4>1, <4>4, <4>5
            <4>7. a[rest] = b[rest]
                <5> HIDE DEF rest, h, T, Value, g
                <5> QED BY <4>2, <4>3, <4>6, SumsAgree
            <4> QED BY <4>4, <4>5, <4>7
        <3> HIDE DEF h
        <3> QED BY <2>2, <2>4, <3>3, <3>4
    <2> QED BY <2>3, <2>4
<1>5. IsSum(g, f, A)
    <2> HIDE DEF Value
    <2> QED BY <1>4, Zenon DEF IsSum
<1> QED BY <1>2, <1>5

LEMMA SumIs ==
    ASSUME NEW f, NEW S, IsFiniteSet(S)
    PROVE  \E g : IsSum(g, f, S) /\ SumFunctionOnSet(f, S) = g[S]
<1>1. SumFunctionOnSet(f, S) = (CHOOSE g : IsSum(g, f, S))[S]
    BY DEF SumFunctionOnSet, FoldFunctionOnSet, MapThenFoldSet, IsSum, Pick
<1>2. \E g : IsSum(g, f, S)
    BY SumExists
<1> QED BY <1>1, <1>2

\* The sum over the empty set is 0, and only the values in the set count.
LEMMA SumEmpty == ASSUME NEW f PROVE SumFunctionOnSet(f, {}) = 0
<1>1. IsFiniteSet({})
    BY FS_EmptySet
<1>2. PICK g : IsSum(g, f, {}) /\ SumFunctionOnSet(f, {}) = g[{}]
    BY <1>1, SumIs
<1>3. {} \in SUBSET {}
    OBVIOUS
<1> QED BY <1>2, <1>3, Zenon DEF IsSum

LEMMA SumSame ==
    ASSUME NEW f, NEW p, NEW S, IsFiniteSet(S), \A x \in S : f[x] = p[x]
    PROVE  SumFunctionOnSet(f, S) = SumFunctionOnSet(p, S)
<1>1. PICK g : IsSum(g, f, S) /\ SumFunctionOnSet(f, S) = g[S]
    BY SumIs
<1>2. PICK h : IsSum(h, p, S) /\ SumFunctionOnSet(p, S) = h[S]
    BY SumIs
<1>3. S \subseteq S
    OBVIOUS
<1>4. g[S] = h[S]
    BY <1>1, <1>2, <1>3, SumsAgree
<1> QED BY <1>1, <1>2, <1>4

LEMMA SumPicked ==
    ASSUME NEW f, NEW S, IsFiniteSet(S), S # {}
    PROVE  SumFunctionOnSet(f, S)
           = f[Pick(S)] + SumFunctionOnSet(f, S \ {Pick(S)})
<1> DEFINE rest == S \ {Pick(S)}
<1>1. IsFiniteSet(rest) /\ rest \subseteq S /\ rest \subseteq rest
      /\ S \in SUBSET S
    BY FS_Subset
<1>2. PICK g : IsSum(g, f, S) /\ SumFunctionOnSet(f, S) = g[S]
    BY SumIs
<1>3. PICK h : IsSum(h, f, rest) /\ SumFunctionOnSet(f, rest) = h[rest]
    BY <1>1, SumIs
<1>4. g[rest] = h[rest]
    <2> HIDE DEF rest
    <2> QED BY <1>1, <1>2, <1>3, SumsAgree
<1>5. g[S] = f[Pick(S)] + g[rest]
    BY <1>1, <1>2, Zenon DEF IsSum
<1> QED BY <1>2, <1>3, <1>4, <1>5

\* The order does not matter: any element may be taken out first.
LEMMA SumTakeOut ==
    ASSUME NEW f, NEW S, IsFiniteSet(S), \A x \in S : f[x] \in Int
    PROVE  /\ SumFunctionOnSet(f, S) \in Int
           /\ \A y \in S : SumFunctionOnSet(f, S)
                           = f[y] + SumFunctionOnSet(f, S \ {y})
<1> DEFINE Sum(A) == SumFunctionOnSet(f, A)
           Ok(A) == /\ Sum(A) \in Int
                    /\ \A y \in A : Sum(A) = f[y] + Sum(A \ {y})
           T == {A \in SUBSET S : ~Ok(A)}
<1> SUFFICES ASSUME T # {} PROVE FALSE
    OBVIOUS
<1>1. PICK A \in T : \A a \in T : a \subseteq A => a = A
    <2>1. T \subseteq SUBSET S
        OBVIOUS
    <2> HIDE DEF T
    <2> QED BY <2>1, LeastSubset
<1>2. A \in SUBSET S /\ ~Ok(A) /\ IsFiniteSet(A)
    BY <1>1, FS_Subset
<1>3. ASSUME NEW a \in SUBSET A, a # A PROVE Ok(a)
    <2> HIDE DEF Ok
    <2> QED BY <1>1, <1>2, <1>3
<1>4. A # {}
    <2>1. Sum({}) = 0
        BY SumEmpty
    <2> HIDE DEF Sum
    <2>2. Ok({})
        BY <2>1
    <2> HIDE DEF Ok
    <2> QED BY <1>2, <2>2
<1>5. PICK x \in A : x = Pick(A)
    BY <1>4, PickIn
<1>6. Sum(A) = f[x] + Sum(A \ {x})
    BY <1>2, <1>4, <1>5, SumPicked
<1> HIDE DEF Sum
<1>7. Ok(A \ {x}) /\ f[x] \in Int
    BY <1>2, <1>3
<1>8. Sum(A) \in Int
    BY <1>6, <1>7
<1>9. ASSUME NEW y \in A PROVE Sum(A) = f[y] + Sum(A \ {y})
    <2>1. CASE y = x
        BY <1>6, <2>1
    <2>2. CASE y # x
        <3>1. Ok(A \ {y}) /\ x \in A \ {y} /\ y \in A \ {x}
            BY <1>3, <2>2
        <3>2. Sum(A \ {x}) = f[y] + Sum((A \ {x}) \ {y})
            BY <1>7, <3>1
        <3>3. Sum(A \ {y}) = f[x] + Sum((A \ {y}) \ {x})
            BY <3>1
        <3>4. (A \ {x}) \ {y} = (A \ {y}) \ {x}
            OBVIOUS
        <3>5. Ok((A \ {y}) \ {x})
            BY <1>3
        <3>6. PICK n \in Int : n = Sum((A \ {y}) \ {x})
            BY <3>5
        <3>7. f[x] \in Int /\ f[y] \in Int
            BY <1>2
        <3>8. Sum(A \ {x}) = f[y] + n /\ Sum(A \ {y}) = f[x] + n
            BY <3>2, <3>3, <3>4, <3>6
        <3> HIDE DEF Ok
        <3> QED BY <1>6, <3>7, <3>8
    <2> QED BY <2>1, <2>2
<1> QED BY <1>2, <1>8, <1>9

\* A sum of what is not negative is not negative.
LEMMA SumNat ==
    ASSUME NEW f, NEW S, IsFiniteSet(S), \A x \in S : f[x] \in Nat
    PROVE  SumFunctionOnSet(f, S) \in Nat
<1> DEFINE T == {A \in SUBSET S : SumFunctionOnSet(f, A) \notin Nat}
<1> SUFFICES ASSUME T # {} PROVE FALSE
    OBVIOUS
<1>1. PICK A \in T : \A a \in T : a \subseteq A => a = A
    <2>1. T \subseteq SUBSET S
        OBVIOUS
    <2> HIDE DEF T
    <2> QED BY <2>1, LeastSubset
<1>2. A \in SUBSET S /\ SumFunctionOnSet(f, A) \notin Nat /\ IsFiniteSet(A)
    BY <1>1, FS_Subset
<1>3. A # {}
    BY <1>2, SumEmpty
<1>4. PICK x \in A : x = Pick(A)
    BY <1>3, PickIn
<1>5. SumFunctionOnSet(f, A) = f[x] + SumFunctionOnSet(f, A \ {x})
    BY <1>2, <1>3, <1>4, SumPicked
<1>6. A \ {x} \notin T /\ A \ {x} \in SUBSET S
    BY <1>1, <1>2
<1>7. SumFunctionOnSet(f, A \ {x}) \in Nat
    BY <1>6
<1> QED BY <1>2, <1>5, <1>7

\* One element more, and one value changed.
LEMMA SumMore ==
    ASSUME NEW f, NEW p, NEW S, IsFiniteSet(S), NEW y, y \notin S,
           \A x \in S : f[x] \in Int /\ p[x] = f[x], p[y] \in Int
    PROVE  SumFunctionOnSet(p, S \cup {y}) = SumFunctionOnSet(f, S) + p[y]
<1>1. IsFiniteSet(S \cup {y}) /\ (S \cup {y}) \ {y} = S
    BY FS_AddElement
<1>2. SumFunctionOnSet(p, S \cup {y}) = p[y] + SumFunctionOnSet(p, S)
    <2>1. \A x \in S \cup {y} : p[x] \in Int
        OBVIOUS
    <2>2. SumFunctionOnSet(p, S \cup {y})
          = p[y] + SumFunctionOnSet(p, (S \cup {y}) \ {y})
        BY <1>1, <2>1, SumTakeOut
    <2> QED BY <1>1, <2>2
<1>3. SumFunctionOnSet(p, S) = SumFunctionOnSet(f, S)
    BY SumSame
<1>4. SumFunctionOnSet(f, S) \in Int
    BY SumTakeOut
<1> QED BY <1>2, <1>3, <1>4

LEMMA SumRaised ==
    ASSUME NEW f, NEW p, NEW S, IsFiniteSet(S), NEW y \in S, NEW n \in Int,
           \A x \in S : f[x] \in Int /\ p[x] = IF x = y THEN f[x] + n ELSE f[x]
    PROVE  SumFunctionOnSet(p, S) = SumFunctionOnSet(f, S) + n
<1>1. IsFiniteSet(S \ {y})
    BY FS_Subset
<1>2. SumFunctionOnSet(f, S) = f[y] + SumFunctionOnSet(f, S \ {y})
    BY SumTakeOut
<1>3. SumFunctionOnSet(p, S) = p[y] + SumFunctionOnSet(p, S \ {y})
    BY SumTakeOut
<1>4. SumFunctionOnSet(p, S \ {y}) = SumFunctionOnSet(f, S \ {y})
    BY <1>1, SumSame
<1>5. SumFunctionOnSet(f, S \ {y}) \in Int /\ p[y] = f[y] + n /\ f[y] \in Int
    BY <1>1, SumTakeOut
<1> QED BY <1>2, <1>3, <1>4, <1>5

-----------------------------------------------------------------------------

\* One row more for every user of D, and nothing for the others.
Credited(D, share, kind, origin) ==
    \A v \in Users :
        /\ v \in D => \E row \in Rows :
                /\ row.delta = share[v] /\ row.after = balance[v] + share[v]
                /\ row.kind = kind /\ row.origin = origin
                /\ ledger'[v] = Append(ledger[v], row)
                /\ balance'[v] = row.after
        /\ v \notin D => ledger'[v] = ledger[v] /\ balance'[v] = balance[v]

\* CreditAll keeps the types and the chains of all users.
LEMMA CreditAllRows ==
    ASSUME AccountsTypeOK, AccountsAssumption, NEW D, D \subseteq Users,
           NEW share \in [D -> Nat], NEW kind \in Kinds, NEW origin \in Origins,
           CreditAll(share, kind, origin)
    PROVE  Credited(D, share, kind, origin)
<1> SUFFICES ASSUME NEW v \in Users
             PROVE  /\ v \in D => \E row \in Rows :
                        /\ row.delta = share[v]
                        /\ row.after = balance[v] + share[v]
                        /\ row.kind = kind /\ row.origin = origin
                        /\ ledger'[v] = Append(ledger[v], row)
                        /\ balance'[v] = row.after
                    /\ v \notin D => /\ ledger'[v] = ledger[v]
                                     /\ balance'[v] = balance[v]
  BY DEF Credited
<1>1. CASE v \notin D
  BY <1>1 DEF CreditAll
<1>2. CASE v \in D
  <2> DEFINE row == LedgerRow(v, share[v], kind, origin, NoReference, "GTQ",
                              denom[v])
  <2>1. share[v] \in Nat /\ DOMAIN share = D
    BY <1>2
  <2>2. balance[v] + share[v] <= MaxCents
    BY <1>2, <2>1 DEF CreditAll, CanCredit
  <2>3. balance[v] + share[v] \in Cents
    BY <2>1, <2>2 DEF AccountsTypeOK, Cents, AccountsAssumption
  <2>4. /\ NoReference \in References /\ denom[v] \in Currencies
        /\ "GTQ" \in Currencies /\ share[v] \in Int
    BY <2>1 DEF References, AccountsTypeOK, Currencies
  <2>5. row \in Rows
    BY <2>3, <2>4, LedgerRowType
  <2>6. ledger'[v] = Append(ledger[v], row)
        /\ balance'[v] = balance[v] + share[v]
    BY <1>2, <2>1 DEF CreditAll
  <2>7. /\ row.delta = share[v] /\ row.after = balance[v] + share[v]
        /\ row.kind = kind /\ row.origin = origin
    BY DEF LedgerRow
  <2> HIDE DEF row
  <2> QED
    BY <1>2, <2>5, <2>6, <2>7
<1> QED
  BY <1>1, <1>2

LEMMA CreditAllType ==
    ASSUME AccountsTypeOK, AccountsAssumption, NEW D, D \subseteq Users,
           NEW share \in [D -> Nat], NEW kind \in Kinds, NEW origin \in Origins,
           CreditAll(share, kind, origin)
    PROVE  AccountsTypeOK'
<1>0. Credited(D, share, kind, origin)
  BY CreditAllRows
<1>1. \A v \in Users : balance'[v] \in Cents /\ ledger'[v] \in Seq(Rows)
  <2> SUFFICES ASSUME NEW v \in Users
               PROVE  balance'[v] \in Cents /\ ledger'[v] \in Seq(Rows)
    OBVIOUS
  <2>1. balance[v] \in Cents /\ ledger[v] \in Seq(Rows)
    BY DEF AccountsTypeOK
  <2>2. CASE v \notin D
    BY <1>0, <2>1, <2>2 DEF Credited
  <2>3. CASE v \in D
    <3>1. PICK row \in Rows : ledger'[v] = Append(ledger[v], row)
                              /\ balance'[v] = row.after
      BY <1>0, <2>3 DEF Credited
    <3> QED
      BY <2>1, <3>1 DEF Rows
  <2> QED
    BY <2>2, <2>3
<1>2. balance' \in [Users -> Cents] /\ ledger' \in [Users -> Seq(Rows)]
  BY <1>1 DEF CreditAll
<1> QED
  BY <1>2 DEF CreditAll, AccountsTypeOK

LEMMA CreditAllChain ==
    ASSUME AccountsTypeOK, AccountsAssumption, LedgerChain,
           NEW D, D \subseteq Users,
           NEW share \in [D -> Nat], NEW kind \in Kinds, NEW origin \in Origins,
           CreditAll(share, kind, origin)
    PROVE  LedgerChain'
<1> SUFFICES ASSUME NEW v \in Users
             PROVE  Chained(ledger'[v], balance'[v])
  BY DEF LedgerChain
<1>0. Credited(D, share, kind, origin)
  BY CreditAllRows
<1>1. Chained(ledger[v], balance[v])
  BY DEF LedgerChain
<1>2. CASE v \notin D
  <2>1. ledger'[v] = ledger[v] /\ balance'[v] = balance[v]
    BY <1>0, <1>2 DEF Credited
  <2> QED
    BY <1>1, <2>1
<1>3. CASE v \in D
  <2>1. PICK row \in Rows :
            /\ row.delta = share[v] /\ row.after = balance[v] + share[v]
            /\ ledger'[v] = Append(ledger[v], row) /\ balance'[v] = row.after
    BY <1>0, <1>3 DEF Credited
  <2>2. ledger[v] \in Seq(Rows) /\ balance[v] \in Int
    BY DEF AccountsTypeOK, Cents
  <2>3. Chained(Append(ledger[v], row), row.after)
    BY <1>1, <2>1, <2>2, ChainedAppend
  <2> QED
    BY <2>1, <2>3
<1> QED
  BY <1>2, <1>3

=============================================================================
