---------------------------- MODULE PrizesProofs ----------------------------
(***************************************************************************)
(* Proofs about Prizes: for every set of users, quinielas, standings, fees *)
(* and administrators, what a winner receives and what is held for the     *)
(* winner stay within what the distributions gave, and a quiniela is paid  *)
(* out once and at the fee it has at that moment.                          *)
(***************************************************************************)
EXTENDS Prizes, AccountsProofs

LOCAL INSTANCE Functions
LOCAL INSTANCE FiniteSetTheorems

\* Every quiniela has a place in the cache and among the snapshots.
BoardsKept == DOMAIN snapshot = Quinielas /\ DOMAIN board = Quinielas

\* What a call of DistributePrizes has planned: there are places, and no
\* winner is credited and frozen at once.
PlansSound ==
    \A a \in Admins : call[a].pc = "commit" =>
        /\ WinnerCount(Paid(call[a].quiniela)) > 0
        /\ call[a].credits \cap call[a].freezes = {}

\* What is not distributed has given nothing.
NothingBefore ==
    \A q \in Quinielas \ distributed : \A u \in Users : award[q][u] = 0

PrizesInv ==
    /\ PrizesTypeOK /\ BoardsKept /\ PlansSound /\ NothingBefore
    /\ NoPrizePaidTwice /\ LedgerChain

-----------------------------------------------------------------------------
\* The boards.

LEMMA BoardFits ==
    ASSUME PrizesTypeOK, NEW q \in Quinielas, NEW entries \in GetLeaderboard(q)
    PROVE  /\ DOMAIN entries \subseteq Users
           /\ \A u \in DOMAIN entries : entries[u].tier \in 0 .. 3
<1>1. /\ DOMAIN Score[q] \subseteq Users /\ DOMAIN snapshot[q] \subseteq Users
      /\ tier \in [Users -> 0 .. 3]
    BY PrizesAssumption DEF PrizesTypeOK, AccountsTypeOK
<1>2. CASE entries = board[q]
    BY <1>2 DEF PrizesTypeOK
<1>3. CASE entries = LiveBoard(q)
    <2>1. DOMAIN entries \subseteq DOMAIN Score[q]
        BY <1>3 DEF LiveBoard, Restrict
    <2>2. \A u \in DOMAIN entries : entries[u].tier = tier[u]
        BY <1>3 DEF LiveBoard
    <2> QED BY <1>1, <2>1, <2>2
<1>4. CASE entries = SnapshotBoard(q)
    <2>1. DOMAIN entries \subseteq DOMAIN snapshot[q]
        BY <1>4 DEF SnapshotBoard
    <2>2. \A u \in DOMAIN entries : entries[u].tier = tier[u]
        BY <1>4 DEF SnapshotBoard
    <2> QED BY <1>1, <2>1, <2>2
<1> QED BY <1>2, <1>3, <1>4 DEF GetLeaderboard

LEMMA ShareFits ==
    ASSUME NEW q \in Quinielas, NEW f \in Nat, NEW winners,
           WinnerCount(Paid(q)) > 0
    PROVE  Share(q, f, winners) \in [winners -> Nat]
<1>1. PICK n \in Nat : n = Paid(q)
    BY PrizesAssumption, FS_CardinalityType DEF Paid
<1>2. PICK places \in Nat \ {0} : places = WinnerCount(Paid(q))
    BY DEF WinnerCount
<1>3. PICK pool \in Nat : pool = f * Paid(q)
    BY <1>1
<1>4. pool \div places \in Nat /\ pool % places \in Nat
    BY <1>2, <1>3
<1>5. Share(q, f, winners) = [u \in winners |->
        pool \div places +
        (IF u \in {v \in winners : \A w \in winners \ {v} :
                    Ahead(Score[q], v, w)}
         THEN pool % places ELSE 0)]
    BY <1>2, <1>3 DEF Share
<1> QED BY <1>4, <1>5

-----------------------------------------------------------------------------
\* The two sums.

PrizeRows(u) == {k \in DOMAIN ledger[u] : ledger[u][k].kind = "prize"}

LEMMA ReceivedIs ==
    ASSUME AccountsTypeOK, NEW u \in Users
    PROVE  /\ IsFiniteSet(PrizeRows(u)) /\ Received(u) \in Int
           /\ Len(ledger[u]) \in Nat /\ DOMAIN ledger[u] = 1 .. Len(ledger[u])
           /\ \A k \in DOMAIN ledger[u] : ledger[u][k].delta \in Int
<1>1. ledger[u] \in Seq(Rows)
    BY DEF AccountsTypeOK
<1>2. Len(ledger[u]) \in Nat /\ DOMAIN ledger[u] = 1 .. Len(ledger[u])
    BY <1>1
<1>3. IsFiniteSet(PrizeRows(u))
    <2>1. IsFiniteSet(1 .. Len(ledger[u]))
        BY <1>2, FS_Interval
    <2> QED BY <1>2, <2>1, FS_Subset DEF PrizeRows
<1>4. \A k \in DOMAIN ledger[u] : ledger[u][k].delta \in Int
    <2>1. \A k \in DOMAIN ledger[u] : ledger[u][k] \in Rows
        BY <1>1, <1>2
    <2> QED BY <2>1 DEF Rows
<1> DEFINE f == [k \in DOMAIN ledger[u] |-> ledger[u][k].delta]
<1>5. \A k \in PrizeRows(u) : f[k] \in Int
    BY <1>4 DEF PrizeRows
<1>6. Received(u) = SumFunctionOnSet(f, PrizeRows(u))
    BY DEF Received, PrizeRows
<1> HIDE DEF f
<1>7. Received(u) \in Int
    BY <1>3, <1>5, <1>6, SumTakeOut
<1> QED BY <1>2, <1>3, <1>4, <1>7

LEMMA ReceivedSame ==
    ASSUME NEW u, ledger'[u] = ledger[u] PROVE Received(u)' = Received(u)
BY DEF Received

LEMMA ReceivedMore ==
    ASSUME AccountsTypeOK, NEW u \in Users, NEW row \in Rows,
           row.kind = "prize", ledger'[u] = Append(ledger[u], row)
    PROVE  Received(u)' = Received(u) + row.delta
<1> DEFINE f == [k \in DOMAIN ledger[u] |-> ledger[u][k].delta]
           p == [k \in DOMAIN ledger'[u] |-> ledger'[u][k].delta]
           S == PrizeRows(u)
<1>1. PICK n \in Nat : n = Len(ledger[u])
    BY ReceivedIs
<1>2. /\ DOMAIN ledger[u] = 1 .. n /\ DOMAIN ledger'[u] = 1 .. n + 1
      /\ ledger'[u][n + 1] = row
      /\ \A k \in 1 .. n : ledger'[u][k] = ledger[u][k]
    <2>1. ledger[u] \in Seq(Rows)
        BY DEF AccountsTypeOK
    <2> QED BY <1>1, <2>1
<1>3. 1 .. n + 1 = 1 .. n \cup {n + 1} /\ n + 1 \notin 1 .. n
    OBVIOUS
<1>4. PrizeRows(u)' = S \cup {n + 1} /\ n + 1 \notin S /\ S \subseteq 1 .. n
    BY <1>2, <1>3 DEF PrizeRows
<1>5. p[n + 1] = row.delta /\ row.delta \in Int
    BY <1>2, <1>3 DEF Rows
<1>6. \A k \in S : f[k] \in Int /\ p[k] = f[k]
    BY <1>2, <1>3, <1>4, ReceivedIs
<1>7. IsFiniteSet(S)
    BY ReceivedIs
<1>8. Received(u) = SumFunctionOnSet(f, S)
    BY DEF Received, PrizeRows
<1>9. Received(u)' = SumFunctionOnSet(p, PrizeRows(u)')
    BY DEF Received, PrizeRows
<1> HIDE DEF f, p, S
<1>10. PICK y : y = n + 1
    OBVIOUS
<1>11. y \notin S /\ p[y] \in Int
    BY <1>4, <1>5, <1>10
<1>12. SumFunctionOnSet(p, S \cup {y}) = SumFunctionOnSet(f, S) + p[y]
    BY <1>6, <1>7, <1>11, SumMore
<1> QED BY <1>4, <1>5, <1>8, <1>9, <1>10, <1>12

LEMMA WonIs ==
    ASSUME award \in [Quinielas -> [Users -> Nat]], NEW u \in Users
    PROVE  Won(u) \in Int
<1> DEFINE f == [q \in Quinielas |-> award[q][u]]
<1>1. \A q \in Quinielas : f[q] \in Int
    OBVIOUS
<1>2. Won(u) = SumFunctionOnSet(f, Quinielas)
    BY DEF Won, SumFunction
<1> HIDE DEF f
<1>3. IsFiniteSet(Quinielas)
    BY PrizesAssumption
<1>4. SumFunctionOnSet(f, Quinielas) \in Int
    BY <1>1, <1>3, SumTakeOut
<1> QED BY <1>2, <1>4

LEMMA WonMore ==
    ASSUME award \in [Quinielas -> [Users -> Nat]], NEW u \in Users,
           NEW q \in Quinielas, NEW n \in Int,
           \A x \in Quinielas :
                award'[x][u] = IF x = q THEN award[x][u] + n ELSE award[x][u]
    PROVE  Won(u)' = Won(u) + n
<1> DEFINE f == [x \in Quinielas |-> award[x][u]]
           p == [x \in Quinielas |-> award'[x][u]]
<1>1. \A x \in Quinielas :
        f[x] \in Int /\ p[x] = IF x = q THEN f[x] + n ELSE f[x]
    OBVIOUS
<1>2. Won(u) = SumFunctionOnSet(f, Quinielas)
    BY DEF Won, SumFunction
<1>3. Won(u)' = SumFunctionOnSet(p, Quinielas)
    BY DEF Won, SumFunction
<1> HIDE DEF f, p
<1>4. IsFiniteSet(Quinielas)
    BY PrizesAssumption
<1>5. SumFunctionOnSet(p, Quinielas) = SumFunctionOnSet(f, Quinielas) + n
    BY <1>1, <1>4, SumRaised
<1> QED BY <1>2, <1>3, <1>5

-----------------------------------------------------------------------------
\* The steps that give nothing.

\* The body of PaidAtCurrentFee.
FeeStep ==
    \A q \in Quinielas :
        award'[q] # award[q] =>
            /\ q \notin distributed
            /\ \E winners \in SUBSET Users : \A u \in Users :
                award'[q][u] = IF u \in winners
                               THEN Share(q, fee[q], winners)[u] ELSE 0

LEMMA QuietKeeps ==
    ASSUME PrizesInv, UNCHANGED <<ledger, balance, distributed, frozen, held, award>>,
           PrizesTypeOK', BoardsKept', PlansSound'
    PROVE  PrizesInv' /\ FeeStep
<1>1. NothingBefore'
    BY DEF PrizesInv, NothingBefore
<1>2. NoPrizePaidTwice'
    BY DEF PrizesInv, NoPrizePaidTwice, Received, Won
<1>3. LedgerChain'
    BY DEF PrizesInv, LedgerChain
<1>4. FeeStep
    BY DEF FeeStep
<1> QED BY <1>1, <1>2, <1>3, <1>4 DEF PrizesInv

LEMMA SettingsKeep ==
    ASSUME PrizesInv, NEW q \in Quinielas, NEW f \in Fees,
           UpdateGroupSettings(q, f)
    PROVE  PrizesInv' /\ FeeStep
<1>1. PrizesTypeOK /\ BoardsKept /\ PlansSound
    BY DEF PrizesInv
<1>2. UNCHANGED <<balance, denom, tier, deleted, ledger, aged, kstatus, ktier,
                  submitting, distributed, snapshot, board, call, frozen, held,
                  award>>
      /\ fee' = [fee EXCEPT ![q] = f]
    BY DEF UpdateGroupSettings, accounts, kyc
<1>3. AccountsTypeOK' /\ KycTypeOK'
    BY <1>1, <1>2 DEF PrizesTypeOK, AccountsTypeOK, KycTypeOK
<1>4. PrizesTypeOK'
    BY <1>1, <1>2, <1>3 DEF PrizesTypeOK
<1>5. BoardsKept' /\ PlansSound'
    BY <1>1, <1>2 DEF BoardsKept, PlansSound
<1> QED BY <1>2, <1>4, <1>5, QuietKeeps

\* The cache and the snapshots.
LEMMA BoardsWritten ==
    ASSUME PrizesInv, NEW q \in Quinielas, NEW entries,
           \/ entries = NoBoard \/ entries \in GetLeaderboard(q),
           \/ UNCHANGED snapshot
           \/ snapshot' = [snapshot EXCEPT ![q] =
                [u \in DOMAIN entries |-> entries[u].winner]],
           board' = [board EXCEPT ![q] = entries],
           UNCHANGED <<accounts, kyc, fee, distributed, frozen, held, award>>,
           call' \in [Admins -> {NotCalled} \cup Planned], PlansSound'
    PROVE  PrizesInv' /\ FeeStep
<1>1. PrizesTypeOK /\ BoardsKept
    BY DEF PrizesInv
<1>2. UNCHANGED <<balance, denom, tier, deleted, ledger, aged, kstatus, ktier,
                  submitting, fee, distributed, frozen, held, award>>
    BY DEF accounts, kyc
<1>3. /\ DOMAIN entries \subseteq Users
      /\ \A u \in DOMAIN entries : entries[u].tier \in 0 .. 3
    BY <1>1, BoardFits DEF NoBoard
<1>4. DOMAIN snapshot' = Quinielas /\ DOMAIN board' = Quinielas
    BY <1>1 DEF BoardsKept
<1>5. ASSUME NEW r \in Quinielas
      PROVE  /\ DOMAIN snapshot'[r] \subseteq Users
             /\ DOMAIN board'[r] \subseteq Users
             /\ \A u \in DOMAIN board'[r] : board'[r][u].tier \in 0 .. 3
    <2>1. /\ DOMAIN snapshot[r] \subseteq Users /\ DOMAIN board[r] \subseteq Users
          /\ \A u \in DOMAIN board[r] : board[r][u].tier \in 0 .. 3
        BY <1>1 DEF PrizesTypeOK
    <2>2. board'[r] = IF r = q THEN entries ELSE board[r]
        BY <1>1 DEF BoardsKept
    <2>3. DOMAIN snapshot'[r] \in {DOMAIN entries, DOMAIN snapshot[r]}
        BY <1>1 DEF BoardsKept
    <2> QED BY <1>3, <2>1, <2>2, <2>3
<1>6. AccountsTypeOK' /\ KycTypeOK'
    BY <1>1, <1>2 DEF PrizesTypeOK, AccountsTypeOK, KycTypeOK
<1>7. PrizesTypeOK'
    BY <1>1, <1>2, <1>5, <1>6 DEF PrizesTypeOK
<1>8. BoardsKept'
    BY <1>4 DEF BoardsKept
<1> QED BY <1>2, <1>7, <1>8, QuietKeeps

LEMMA EvictionKeeps ==
    ASSUME PrizesInv, NEW q \in Quinielas, EvictBoard(q)
    PROVE  PrizesInv' /\ FeeStep
<1>1. call' \in [Admins -> {NotCalled} \cup Planned] /\ PlansSound'
    BY DEF EvictBoard, PrizesInv, PrizesTypeOK, PlansSound
<1>2. PICK entries : entries = NoBoard
    OBVIOUS
<1>3. /\ board' = [board EXCEPT ![q] = entries] /\ UNCHANGED snapshot
      /\ UNCHANGED <<accounts, kyc, fee, distributed, frozen, held, award>>
    BY <1>2 DEF EvictBoard
<1> QED BY <1>1, <1>2, <1>3, BoardsWritten

LEMMA RecalculationKeeps ==
    ASSUME PrizesInv, NEW q \in Quinielas, RecalculateLeaderboard(q)
    PROVE  PrizesInv' /\ FeeStep
<1>1. call' \in [Admins -> {NotCalled} \cup Planned] /\ PlansSound'
    BY DEF RecalculateLeaderboard, PrizesInv, PrizesTypeOK, PlansSound
<1>2. PICK entries \in GetLeaderboard(q) :
        /\ snapshot' = [snapshot EXCEPT ![q] =
                [u \in DOMAIN entries |-> entries[u].winner]]
        /\ board' = [board EXCEPT ![q] = entries]
        /\ UNCHANGED <<accounts, kyc, fee, distributed, frozen, held, award>>
    BY DEF RecalculateLeaderboard
<1> QED BY <1>1, <1>2, BoardsWritten

LEMMA PlanKeeps ==
    ASSUME PrizesInv, NEW a \in Admins, NEW q \in Quinielas,
           PlanDistribution(a, q)
    PROVE  PrizesInv' /\ FeeStep
<1>1. PICK entries \in GetLeaderboard(q) :
        LET winners == {u \in DOMAIN entries : entries[u].winner}
            unverified == {u \in winners : CheckWinFreeze(entries[u].tier)}
        IN  /\ board' = [board EXCEPT ![q] = entries]
            /\ call' = [call EXCEPT ![a] =
                    [pc |-> "commit", quiniela |-> q, fee |-> fee[q],
                     credits |-> winners \ unverified, freezes |-> unverified]]
    BY DEF PlanDistribution
<1>2. PICK plan : plan =
        LET winners == {u \in DOMAIN entries : entries[u].winner}
            unverified == {u \in winners : CheckWinFreeze(entries[u].tier)}
        IN [pc |-> "commit", quiniela |-> q, fee |-> fee[q],
            credits |-> winners \ unverified, freezes |-> unverified]
    OBVIOUS
<1>3. /\ UNCHANGED snapshot /\ board' = [board EXCEPT ![q] = entries]
      /\ call' = [call EXCEPT ![a] = plan]
      /\ UNCHANGED <<accounts, kyc, fee, distributed, frozen, held, award>>
      /\ WinnerCount(Paid(q)) > 0
    BY <1>1, <1>2 DEF PlanDistribution
<1>4. DOMAIN entries \subseteq Users
    BY BoardFits DEF PrizesInv
<1>5. fee[q] \in Nat
    BY PrizesAssumption DEF PrizesInv, PrizesTypeOK
<1>6. plan \in Planned
    BY <1>2, <1>4, <1>5 DEF Planned
<1>7. plan.quiniela = q /\ plan.credits \cap plan.freezes = {}
    BY <1>2
<1>8. call \in [Admins -> {NotCalled} \cup Planned] /\ PlansSound
    BY DEF PrizesInv, PrizesTypeOK
<1>9. call' \in [Admins -> {NotCalled} \cup Planned]
    BY <1>3, <1>6, <1>8
<1>10. PlansSound'
    <2> SUFFICES ASSUME NEW b \in Admins, call'[b].pc = "commit"
                 PROVE  /\ WinnerCount(Paid(call'[b].quiniela)) > 0
                        /\ call'[b].credits \cap call'[b].freezes = {}
        BY DEF PlansSound, Paid, WinnerCount
    <2>1. CASE b = a
        <3>1. call'[b] = plan
            BY <1>3, <1>8, <2>1
        <3> QED BY <1>3, <1>7, <3>1
    <2>2. CASE b # a
        <3>1. call'[b] = call[b]
            BY <1>3, <1>8, <2>2
        <3> QED BY <1>8, <3>1 DEF PlansSound
    <2> QED BY <2>1, <2>2
<1> QED BY <1>3, <1>9, <1>10, BoardsWritten

LEMMA CallForgotten ==
    ASSUME PrizesInv, NEW a \in Admins,
           call' = [call EXCEPT ![a] = NotCalled]
    PROVE  call' \in [Admins -> {NotCalled} \cup Planned] /\ PlansSound'
<1>1. call \in [Admins -> {NotCalled} \cup Planned] /\ PlansSound
    BY DEF PrizesInv, PrizesTypeOK
<1>2. PlansSound'
    <2> SUFFICES ASSUME NEW b \in Admins, call'[b].pc = "commit"
                 PROVE  /\ WinnerCount(Paid(call'[b].quiniela)) > 0
                        /\ call'[b].credits \cap call'[b].freezes = {}
        BY DEF PlansSound, Paid, WinnerCount
    <2>1. b # a
        BY <1>1 DEF NotCalled
    <2>2. call'[b] = call[b]
        BY <1>1, <2>1
    <2> QED BY <1>1, <2>2 DEF PlansSound
<1> QED BY <1>1, <1>2

LEMMA FailureKeeps ==
    ASSUME PrizesInv, NEW a \in Admins, DistributionFails(a)
    PROVE  PrizesInv' /\ FeeStep
<1>1. PrizesTypeOK /\ BoardsKept
    BY DEF PrizesInv
<1>2. UNCHANGED <<balance, denom, tier, deleted, ledger, aged, kstatus, ktier,
                  submitting, fee, distributed, snapshot, board, frozen, held,
                  award>>
      /\ call' = [call EXCEPT ![a] = NotCalled]
    BY DEF DistributionFails, accounts, kyc
<1>3. AccountsTypeOK' /\ KycTypeOK'
    BY <1>1, <1>2 DEF PrizesTypeOK, AccountsTypeOK, KycTypeOK
<1>4. call' \in [Admins -> {NotCalled} \cup Planned] /\ PlansSound'
    BY <1>2, CallForgotten
<1>5. PrizesTypeOK'
    BY <1>1, <1>2, <1>3, <1>4 DEF PrizesTypeOK
<1>6. BoardsKept'
    BY <1>1, <1>2 DEF BoardsKept
<1> QED BY <1>2, <1>4, <1>5, <1>6, QuietKeeps

\* Reviews and deletions move no money and touch no prize.
LEMMA ReviewKeeps ==
    ASSUME PrizesInv,
           \/ KycNext /\ UNCHANGED prizes
           \/ (\E u \in Users : DeleteUser(u)) /\ UNCHANGED <<kyc, prizes>>
    PROVE  PrizesInv' /\ FeeStep
<1>1. PrizesTypeOK /\ BoardsKept /\ PlansSound /\ AccountsTypeOK /\ KycTypeOK
    BY DEF PrizesInv, PrizesTypeOK
<1>2. UNCHANGED <<fee, distributed, snapshot, board, call, frozen, held, award>>
    BY DEF prizes
<1>3. UNCHANGED <<balance, denom, ledger, aged>>
    BY DEF KycNext, CheckSubmission, UpsertSubmission, ApproveAndSetTier,
           RejectProfile, EscalateProfile, SetTier, DeleteUser, accounts
<1>4. tier' \in [Users -> 0 .. 3] /\ deleted' \subseteq Users /\ KycTypeOK'
    <2>1. ASSUME NEW u \in Reviewed, CheckSubmission(u) \/ UpsertSubmission(u)
          PROVE  tier' \in [Users -> 0 .. 3] /\ deleted' \subseteq Users
                 /\ KycTypeOK'
        BY <1>1, <2>1, KycAssumption
        DEF CheckSubmission, UpsertSubmission, KycTypeOK, AccountsTypeOK,
            accounts, KycStatuses
    <2>2. ASSUME NEW u \in Reviewed, NEW t \in 0 .. 3, SetTier(u, t),
                 NEW status \in KycStatuses,
                 kstatus' = [kstatus EXCEPT ![u] = status]
          PROVE  tier' \in [Users -> 0 .. 3] /\ deleted' \subseteq Users
                 /\ KycTypeOK'
        BY <1>1, <2>2 DEF SetTier, KycTypeOK, AccountsTypeOK
    <2>3. ASSUME NEW u \in Reviewed,
                 \/ \E t \in Grants : ApproveAndSetTier(u, t)
                 \/ RejectProfile(u) \/ EscalateProfile(u)
          PROVE  tier' \in [Users -> 0 .. 3] /\ deleted' \subseteq Users
                 /\ KycTypeOK'
        <3>1. {"approved", "rejected", "escalated"} \subseteq KycStatuses
              /\ 0 \in 0 .. 3 /\ Grants \subseteq 0 .. 3
            BY KycAssumption DEF KycStatuses
        <3> QED BY <2>2, <2>3, <3>1
                DEF ApproveAndSetTier, RejectProfile, EscalateProfile
    <2>4. ASSUME NEW u \in Users, DeleteUser(u), UNCHANGED kyc
          PROVE  tier' \in [Users -> 0 .. 3] /\ deleted' \subseteq Users
                 /\ KycTypeOK'
        BY <1>1, <2>4 DEF DeleteUser, KycTypeOK, AccountsTypeOK, kyc
    <2> QED BY <2>1, <2>3, <2>4 DEF KycNext
<1>5. AccountsTypeOK'
    BY <1>1, <1>3, <1>4 DEF AccountsTypeOK
<1>6. PrizesTypeOK'
    BY <1>1, <1>2, <1>4, <1>5 DEF PrizesTypeOK
<1>7. BoardsKept' /\ PlansSound'
    BY <1>1, <1>2 DEF BoardsKept, PlansSound
<1> QED BY <1>2, <1>3, <1>6, <1>7, QuietKeeps

-----------------------------------------------------------------------------
\* The two transactions that give: the distribution, and the release of what
\* it held.

LEMMA DistributionKeeps ==
    ASSUME PrizesInv, NEW a \in Admins, DistributePrizes(a)
    PROVE  PrizesInv' /\ FeeStep
<1>1. /\ PrizesTypeOK /\ BoardsKept /\ PlansSound /\ NothingBefore
      /\ NoPrizePaidTwice /\ LedgerChain /\ AccountsTypeOK /\ KycTypeOK
      /\ call[a] \in {NotCalled} \cup Planned /\ call[a].pc = "commit"
    BY DEF PrizesInv, PrizesTypeOK, DistributePrizes
<1>2. PICK c \in Planned : c = call[a]
    BY <1>1 DEF NotCalled
<1>3. PICK q \in Quinielas : q = c.quiniela
    BY DEF Planned
<1>4. PICK credits \in SUBSET Users : credits = c.credits
    BY DEF Planned
<1>5. PICK freezes \in SUBSET Users : freezes = c.freezes
    BY DEF Planned
<1>6. PICK f \in Nat : f = c.fee
    BY DEF Planned
<1>7. /\ WinnerCount(Paid(q)) > 0 /\ credits \cap freezes = {}
    BY <1>1, <1>2, <1>3, <1>4, <1>5 DEF PlansSound
<1>8. PICK share \in [credits \cup freezes -> Nat] :
        share = Share(q, f, credits \cup freezes)
    BY <1>7, ShareFits
<1>9. /\ q \notin distributed /\ fee[q] = f
      /\ distributed' = distributed \cup {q}
      /\ CreditAll(Restrict(share, credits), "prize", <<"quiniela", q>>)
      /\ FreezePrizes(share, freezes)
      /\ award' = [award EXCEPT ![q] = [u \in Users |->
            IF u \in DOMAIN share THEN award[q][u] + share[u] ELSE award[q][u]]]
      /\ call' = [call EXCEPT ![a] = NotCalled]
      /\ UNCHANGED <<kyc, fee, snapshot, board>>
    BY <1>2, <1>3, <1>4, <1>5, <1>6, <1>8 DEF DistributePrizes, Claimable
<1>10. PICK paid \in [credits -> Nat] :
        /\ paid = Restrict(share, credits)
        /\ \A u \in credits : paid[u] = share[u]
    <2>1. /\ Restrict(share, credits) \in [credits -> Nat]
          /\ \A u \in credits : Restrict(share, credits)[u] = share[u]
        BY DEF Restrict
    <2> QED BY <2>1
<1>11. /\ "prize" \in Kinds /\ <<"quiniela", q>> \in Origins
       /\ credits \subseteq Users
    BY PrizesAssumption DEF Kinds, Origins
<1>12. /\ AccountsTypeOK' /\ LedgerChain'
       /\ Credited(credits, paid, "prize", <<"quiniela", q>>)
    <2>1. CreditAll(paid, "prize", <<"quiniela", q>>)
        BY <1>9, <1>10
    <2>2. AccountsTypeOK'
        BY <1>1, <1>11, <2>1, AccountsAssumption, CreditAllType
    <2>3. LedgerChain'
        BY <1>1, <1>11, <2>1, AccountsAssumption, CreditAllChain
    <2>4. Credited(credits, paid, "prize", <<"quiniela", q>>)
        BY <1>1, <1>11, <2>1, AccountsAssumption, CreditAllRows
    <2> QED BY <2>2, <2>3, <2>4
<1>13. award \in [Quinielas -> [Users -> Nat]] /\ held \in [Users -> Nat]
       /\ frozen \subseteq Users
    BY <1>1 DEF PrizesTypeOK
<1>14. ASSUME NEW u \in Users, NEW r \in Quinielas
       PROVE  /\ award'[r][u] =
                    IF r = q THEN IF u \in credits \cup freezes
                                  THEN award[r][u] + share[u] ELSE award[r][u]
                    ELSE award[r][u]
              /\ r # q => award'[r] = award[r]
    BY <1>9, <1>13
<1>15. award' \in [Quinielas -> [Users -> Nat]]
    <2>1. [u \in Users |-> IF u \in DOMAIN share THEN award[q][u] + share[u]
                           ELSE award[q][u]] \in [Users -> Nat]
        BY <1>13
    <2> QED BY <1>9, <1>13, <2>1
<1>16. held' \in [Users -> Nat] /\ frozen' \subseteq Users
    BY <1>9, <1>13 DEF FreezePrizes
<1>17. call' \in [Admins -> {NotCalled} \cup Planned] /\ PlansSound'
    BY <1>9, CallForgotten
<1>18. PrizesTypeOK'
    <2>1. KycTypeOK' /\ fee' \in [Quinielas -> Fees]
          /\ distributed' \subseteq Quinielas
        BY <1>1, <1>9 DEF PrizesTypeOK, KycTypeOK, kyc
    <2>2. \A r \in Quinielas :
            /\ DOMAIN snapshot'[r] \subseteq Users
            /\ DOMAIN board'[r] \subseteq Users
            /\ \A u \in DOMAIN board'[r] : board'[r][u].tier \in 0 .. 3
        BY <1>1, <1>9 DEF PrizesTypeOK
    <2> QED BY <1>12, <1>15, <1>16, <1>17, <2>1, <2>2 DEF PrizesTypeOK
<1>19. BoardsKept'
    BY <1>1, <1>9 DEF BoardsKept
<1>20. NothingBefore'
    BY <1>1, <1>9, <1>14 DEF NothingBefore
<1>21. NoPrizePaidTwice'
    <2> SUFFICES ASSUME NEW u \in Users
                 PROVE  /\ Received(u)' + held'[u] <= Won(u)'
                        /\ held'[u] > 0 => u \in frozen'
        BY DEF NoPrizePaidTwice
    <2>1. /\ Received(u) + held[u] <= Won(u)
          /\ held[u] > 0 => u \in frozen
          /\ Received(u) \in Int /\ Won(u) \in Int /\ held[u] \in Nat
        BY <1>1, <1>13, ReceivedIs, WonIs DEF NoPrizePaidTwice
    <2>2. held'[u] > 0 => u \in frozen'
        BY <1>9, <1>13, <2>1 DEF FreezePrizes
    <2>3. CASE u \in credits
        <3>1. PICK n \in Nat : n = share[u] /\ n = paid[u]
            BY <1>10, <2>3
        <3>2. Won(u)' = Won(u) + n
            <4>1. \A x \in Quinielas :
                award'[x][u] = IF x = q THEN award[x][u] + n ELSE award[x][u]
                BY <1>14, <2>3, <3>1
            <4> QED BY <1>13, <4>1, WonMore
        <3>3. PICK row \in Rows : /\ row.delta = n /\ row.kind = "prize"
                                  /\ ledger'[u] = Append(ledger[u], row)
            BY <1>12, <2>3, <3>1 DEF Credited
        <3>4. Received(u)' = Received(u) + n
            BY <1>1, <3>3, ReceivedMore
        <3>5. held'[u] = held[u]
            BY <1>7, <1>9, <2>3 DEF FreezePrizes
        <3> QED BY <2>1, <2>2, <3>1, <3>2, <3>4, <3>5
    <2>4. CASE u \in freezes
        <3>1. PICK n \in Nat : n = share[u]
            BY <2>4
        <3>2. Won(u)' = Won(u) + n
            <4>1. \A x \in Quinielas :
                award'[x][u] = IF x = q THEN award[x][u] + n ELSE award[x][u]
                BY <1>14, <2>4, <3>1
            <4> QED BY <1>13, <4>1, WonMore
        <3>3. Received(u)' = Received(u)
            <4>1. ledger'[u] = ledger[u]
                BY <1>7, <1>12, <2>4 DEF Credited
            <4> QED BY <4>1, ReceivedSame
        <3>4. held'[u] = held[u] \/ held'[u] = n
            BY <1>9, <3>1 DEF FreezePrizes
        <3> QED BY <2>1, <2>2, <3>1, <3>2, <3>3, <3>4
    <2>5. CASE u \notin credits \cup freezes
        <3>1. PICK n \in Int : n = 0 /\ Won(u)' = Won(u) + n
            <4>1. PICK n \in Int : n = 0
                OBVIOUS
            <4>2. \A x \in Quinielas :
                award'[x][u] = IF x = q THEN award[x][u] + n ELSE award[x][u]
                BY <1>13, <1>14, <2>5, <4>1
            <4>3. Won(u)' = Won(u) + n
                BY <1>13, <4>2, WonMore
            <4> QED BY <4>1, <4>3
        <3>2. Received(u)' = Received(u)
            <4>1. ledger'[u] = ledger[u]
                BY <1>12, <2>5 DEF Credited
            <4> QED BY <4>1, ReceivedSame
        <3>3. held'[u] = held[u]
            BY <1>9, <2>5 DEF FreezePrizes
        <3> QED BY <2>1, <2>2, <3>1, <3>2, <3>3
    <2> QED BY <2>3, <2>4, <2>5
<1>22. FeeStep
    <2> SUFFICES ASSUME NEW r \in Quinielas, award'[r] # award[r]
                 PROVE  /\ r \notin distributed
                        /\ \E winners \in SUBSET Users : \A u \in Users :
                            award'[r][u] = IF u \in winners
                                           THEN Share(r, fee[r], winners)[u]
                                           ELSE 0
        BY DEF FeeStep
    <2>1. r = q
        <3>1. r # q => award'[r] = award[r]
            BY <1>9, <1>13
        <3> QED BY <3>1
    <2>2. PICK winners \in SUBSET Users : winners = credits \cup freezes
        OBVIOUS
    <2>3. share = Share(r, fee[r], winners)
        BY <1>8, <1>9, <2>1, <2>2
    <2>4. \A u \in Users :
            award'[r][u] = IF u \in winners THEN share[u] ELSE 0
        <3> SUFFICES ASSUME NEW u \in Users
                     PROVE  award'[r][u] = IF u \in winners THEN share[u] ELSE 0
            OBVIOUS
        <3>1. award[q][u] = 0
            BY <1>1, <1>9 DEF NothingBefore
        <3>2. u \in winners => share[u] \in Nat
            BY <2>2
        <3> QED BY <1>14, <2>1, <2>2, <3>1, <3>2
    <2> QED BY <1>9, <2>1, <2>3, <2>4
<1> QED BY <1>12, <1>17, <1>18, <1>19, <1>20, <1>21, <1>22 DEF PrizesInv

LEMMA ReleaseKeeps ==
    ASSUME PrizesInv, NEW u \in Users, ReleaseFrozenBalance(u)
    PROVE  PrizesInv' /\ FeeStep
<1>1. /\ PrizesTypeOK /\ BoardsKept /\ PlansSound /\ NothingBefore
      /\ NoPrizePaidTwice /\ LedgerChain /\ AccountsTypeOK /\ KycTypeOK
      /\ held \in [Users -> Nat] /\ award \in [Quinielas -> [Users -> Nat]]
    BY DEF PrizesInv, PrizesTypeOK
<1>2. /\ UNCHANGED <<kyc, fee, distributed, snapshot, board, call, award>>
      /\ frozen' = frozen \ {u} /\ held' = [held EXCEPT ![u] = 0]
    BY DEF ReleaseFrozenBalance
<1>3. /\ AccountsTypeOK' /\ LedgerChain'
      /\ Received(u)' = Received(u) + held[u]
      /\ \A v \in Users : v # u => ledger'[v] = ledger[v]
    <2>0. Received(u) \in Int
        BY <1>1, ReceivedIs
    <2>1. CASE held[u] = 0
        <3>1. UNCHANGED <<balance, denom, tier, deleted, ledger, aged>>
            BY <2>1 DEF ReleaseFrozenBalance, accounts
        <3>2. AccountsTypeOK' /\ LedgerChain'
            BY <1>1, <3>1 DEF AccountsTypeOK, LedgerChain
        <3>3. Received(u)' = Received(u)
            BY <3>1, ReceivedSame
        <3> QED BY <2>0, <2>1, <3>1, <3>2, <3>3
    <2>2. CASE held[u] # 0
        <3>1. CreditUser(u, held[u], "prize", <<"kyc_unfreeze", u>>,
                         NoReference, "GTQ", denom[u])
            BY <2>2 DEF ReleaseFrozenBalance
        <3>2. /\ "prize" \in Kinds /\ <<"kyc_unfreeze", u>> \in Origins
              /\ NoReference \in References /\ "GTQ" \in Currencies
              /\ denom[u] \in Currencies /\ held[u] \in Nat
            BY <1>1, PrizesAssumption
            DEF Kinds, Origins, References, Currencies, AccountsTypeOK
        <3>3. AccountsTypeOK'
            BY <1>1, <3>1, <3>2, AccountsAssumption, CreditUserType
        <3>4. LedgerChain'
            BY <1>1, <3>1, <3>2, AccountsAssumption, CreditUserChain
        <3>5. PICK row : row = LedgerRow(u, held[u], "prize",
                                         <<"kyc_unfreeze", u>>, NoReference,
                                         "GTQ", denom[u])
            OBVIOUS
        <3>6. row.delta = held[u] /\ row.kind = "prize"
            BY <3>5 DEF LedgerRow
        <3>7. row \in Rows
            <4>1. balance[u] + held[u] \in Cents
                BY <1>1, <3>1, <3>2, AccountsAssumption
                DEF CreditUser, CanCredit, AccountsTypeOK, Cents,
                    AccountsAssumption
            <4> QED BY <1>1, <3>2, <3>5, <4>1, LedgerRowType
        <3>8. ledger' = [ledger EXCEPT ![u] = Append(@, row)]
            BY <3>1, <3>5 DEF CreditUser
        <3>9. /\ ledger'[u] = Append(ledger[u], row)
              /\ \A v \in Users : v # u => ledger'[v] = ledger[v]
            BY <1>1, <3>8 DEF AccountsTypeOK
        <3>10. Received(u)' = Received(u) + row.delta
            BY <1>1, <3>6, <3>7, <3>9, ReceivedMore
        <3> QED BY <3>3, <3>4, <3>6, <3>9, <3>10
    <2> QED BY <2>1, <2>2
<1>4. PrizesTypeOK'
    <2>1. /\ KycTypeOK' /\ held' \in [Users -> Nat] /\ frozen' \subseteq Users
        BY <1>1, <1>2 DEF PrizesTypeOK, KycTypeOK, kyc
    <2> QED BY <1>1, <1>2, <1>3, <2>1 DEF PrizesTypeOK
<1>5. BoardsKept' /\ PlansSound' /\ NothingBefore'
    BY <1>1, <1>2 DEF BoardsKept, PlansSound, NothingBefore
<1>6. NoPrizePaidTwice'
    <2> SUFFICES ASSUME NEW v \in Users
                 PROVE  /\ Received(v)' + held'[v] <= Won(v)'
                        /\ held'[v] > 0 => v \in frozen'
        BY DEF NoPrizePaidTwice
    <2>1. /\ Received(v) + held[v] <= Won(v)
          /\ held[v] > 0 => v \in frozen
          /\ Received(v) \in Int /\ Won(v) \in Int /\ held[v] \in Nat
        BY <1>1, ReceivedIs, WonIs DEF NoPrizePaidTwice
    <2>2. Won(v)' = Won(v)
        BY <1>2 DEF Won
    <2>3. CASE v = u
        <3>1. held'[v] = 0
            BY <1>1, <1>2, <2>3
        <3> QED BY <1>3, <2>1, <2>2, <2>3, <3>1
    <2>4. CASE v # u
        <3>1. Received(v)' = Received(v)
            BY <1>3, <2>4, ReceivedSame
        <3>2. held'[v] = held[v] /\ (v \in frozen => v \in frozen')
            BY <1>1, <1>2, <2>4
        <3> QED BY <2>1, <2>2, <3>1, <3>2
    <2> QED BY <2>3, <2>4
<1>7. FeeStep
    BY <1>2 DEF FeeStep
<1> QED BY <1>3, <1>4, <1>5, <1>6, <1>7 DEF PrizesInv

-----------------------------------------------------------------------------

LEMMA PrizesInitially == PrizesStart => PrizesInv
<1> SUFFICES ASSUME PrizesStart PROVE PrizesInv
    OBVIOUS
<1>1. AccountsInit /\ KycInit /\ PrizesInit
    BY DEF PrizesStart
<1>2. AccountsTypeOK /\ LedgerChain
    BY <1>1, AccountsAssumption, AccountsInitially
<1>3. KycTypeOK
    BY <1>1, <1>2 DEF KycInit, KycTypeOK, KycStatuses, AccountsTypeOK
<1>4. BoardsKept
    BY <1>1 DEF PrizesInit, BoardsKept
<1>5. ASSUME NEW q \in Quinielas
      PROVE  DOMAIN snapshot[q] \subseteq Users /\ board[q] = NoBoard
    <2>1. PICK taken \in SUBSET Quinielas : snapshot = [r \in Quinielas |->
            IF r \in taken
            THEN [u \in DOMAIN Score[r] |-> u \in Winners(Score[r], Paid(r))]
            ELSE NoBoard]
        BY <1>1 DEF PrizesInit
    <2>2. DOMAIN snapshot[q] \in {DOMAIN Score[q], {}}
        BY <2>1 DEF NoBoard
    <2> QED BY <1>1, <2>2, PrizesAssumption DEF PrizesInit
<1>6. /\ held \in [Users -> Nat] /\ award \in [Quinielas -> [Users -> Nat]]
      /\ \A q \in Quinielas, u \in Users : award[q][u] = 0
      /\ \A u \in Users : held[u] = 0
    BY <1>1 DEF PrizesInit
<1>7. PrizesTypeOK
    <2>1. call \in [Admins -> {NotCalled} \cup Planned]
        BY <1>1 DEF PrizesInit
    <2>2. \A q \in Quinielas :
            /\ DOMAIN snapshot[q] \subseteq Users
            /\ DOMAIN board[q] \subseteq Users
            /\ \A u \in DOMAIN board[q] : board[q][u].tier \in 0 .. 3
        BY <1>5 DEF NoBoard
    <2>3. /\ fee \in [Quinielas -> Fees] /\ distributed \subseteq Quinielas
          /\ frozen \subseteq Users
        BY <1>1 DEF PrizesInit
    <2> QED BY <1>2, <1>3, <1>6, <2>1, <2>2, <2>3 DEF PrizesTypeOK
<1>8. PlansSound
    BY <1>1 DEF PrizesInit, PlansSound, NotCalled
<1>9. NothingBefore
    BY <1>6 DEF NothingBefore
<1>10. NoPrizePaidTwice
    <2> SUFFICES ASSUME NEW u \in Users
                 PROVE  Received(u) + held[u] <= Won(u) /\ ~(held[u] > 0)
        BY DEF NoPrizePaidTwice
    <2>1. PrizeRows(u) = {}
        BY <1>1 DEF AccountsInit, OpeningRow, PrizeRows
    <2>2. Received(u) = 0
        BY <2>1, SumEmpty DEF Received, PrizeRows
    <2>3. Won(u) \in Nat
        <3> DEFINE f == [q \in Quinielas |-> award[q][u]]
        <3>1. \A q \in Quinielas : f[q] \in Nat
            BY <1>6
        <3>2. Won(u) = SumFunctionOnSet(f, Quinielas)
            BY DEF Won, SumFunction
        <3>3. IsFiniteSet(Quinielas)
            BY PrizesAssumption
        <3> HIDE DEF f
        <3>4. SumFunctionOnSet(f, Quinielas) \in Nat
            BY <3>1, <3>3, SumNat
        <3> QED BY <3>2, <3>4
    <2> QED BY <1>6, <2>2, <2>3
<1> QED BY <1>2, <1>4, <1>7, <1>8, <1>9, <1>10 DEF PrizesInv

LEMMA PrizesStep ==
    PrizesInv /\ [PrizesNext]_prizeVars => PrizesInv' /\ [FeeStep]_prizeVars
<1> SUFFICES ASSUME PrizesInv, [PrizesNext]_prizeVars
             PROVE  PrizesInv' /\ [FeeStep]_prizeVars
    OBVIOUS
<1>1. CASE PrizesNext
    BY <1>1, SettingsKeep, EvictionKeeps, RecalculationKeeps, PlanKeeps,
       DistributionKeeps, FailureKeeps, ReleaseKeeps, ReviewKeeps
    DEF PrizesNext, DistributionNext
<1>2. CASE UNCHANGED prizeVars
    <2>1. UNCHANGED <<balance, denom, tier, deleted, ledger, aged, kstatus,
                      ktier, submitting, fee, distributed, snapshot, board,
                      call, frozen, held, award>>
        BY <1>2 DEF prizeVars, accounts, kyc, prizes
    <2>2. AccountsTypeOK' /\ KycTypeOK'
        BY <2>1 DEF PrizesInv, PrizesTypeOK, AccountsTypeOK, KycTypeOK
    <2>3. PrizesTypeOK' /\ BoardsKept' /\ PlansSound'
        BY <2>1, <2>2 DEF PrizesInv, PrizesTypeOK, BoardsKept, PlansSound
    <2> QED BY <1>2, <2>1, <2>3, QuietKeeps
<1> QED BY <1>1, <1>2

\* The inductive invariant: the types, what a call has planned, that a
\* quiniela that is not distributed has given nothing, and the two sums.
THEOREM PrizesInvariant == PrizesSpec => []PrizesInv
BY PrizesInitially, PrizesStep, PTL DEF PrizesSpec

\* Accounts, boards, plans and the escrow keep their types: no credit of a
\* prize and no release overflows a balance.
THEOREM PrizesTypeCorrect == PrizesSpec => []PrizesTypeOK
<1>1. PrizesInv => PrizesTypeOK BY DEF PrizesInv
<1> QED BY <1>1, PrizesInvariant, PTL

\* However many administrators distribute, retry and release, what a winner
\* was credited and what is still held stay within what was won.
THEOREM PrizesPaidOnce == PrizesSpec => []NoPrizePaidTwice
<1>1. PrizesInv => NoPrizePaidTwice BY DEF PrizesInv
<1> QED BY <1>1, PrizesInvariant, PTL

\* A prize that is credited to many users at once, or released to one, keeps
\* every balance equal to the running total of its ledger.
THEOREM PrizesLedgerChain == PrizesSpec => []LedgerChain
<1>1. PrizesInv => LedgerChain BY DEF PrizesInv
<1> QED BY <1>1, PrizesInvariant, PTL

\* A quiniela is paid out by one distribution only, and at the fee it has at
\* that moment, although DistributePrizes has read the fee before.
THEOREM PrizesPaidAtFee == PrizesSpec => PaidAtCurrentFee
<1>1. PaidAtCurrentFee <=> [][FeeStep]_prizeVars
    BY PTL DEF PaidAtCurrentFee, FeeStep
<1> QED BY <1>1, PrizesInvariant, PrizesStep, PTL DEF PrizesSpec

=============================================================================
