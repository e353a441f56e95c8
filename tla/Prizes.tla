------------------------------- MODULE Prizes -------------------------------
(***************************************************************************)
(* Prize distribution and the KYC escrow: DistributePrizes of              *)
(* internal/service/admin_group_service.go, the transaction behind it in   *)
(* internal/repository/quiniela_repository.go, the cached leaderboard it   *)
(* reads (internal/service/cached_ranking_service.go) and the release of   *)
(* frozen prizes (kyc_service.go, kyc_profile_repository.go).              *)
(*                                                                         *)
(* The matches are over and the membership is settled, so the standings    *)
(* are fixed; the tiers of the winners, the entry fee, the accounts and    *)
(* the cache are not.  CreditPrize of prize_service.go has no caller and   *)
(* is left out.                                                            *)
(***************************************************************************)
EXTENDS Kyc, Ranking

LOCAL INSTANCE Functions

CONSTANTS Admins,      \* concurrent calls of DistributePrizes
          Quinielas,
          Score,       \* Score[q]: the standings of the active paid members
          Fees         \* entry fees that a quiniela may be given

ASSUME PrizesAssumption ==
    /\ Quinielas \subseteq Ids /\ Users \subseteq Ids /\ Users \subseteq Nat
    /\ IsFiniteSet(Quinielas) /\ DOMAIN Score = Quinielas
    /\ \A q \in Quinielas :
        DOMAIN Score[q] \subseteq Users /\ IsFiniteSet(DOMAIN Score[q])
    /\ Fees \subseteq Nat

VARIABLES fee,          \* quinielas.entry_fee
          distributed,  \* quinielas whose prizes_distributed_at is set
          snapshot,     \* the latest leaderboard snapshot: who wins
          board,        \* the cached leaderboard: tier and prize of an entry
          call,         \* what each call of DistributePrizes has read
          frozen,       \* users whose balance_frozen is set
          held,         \* kyc_profiles.frozen_amount_cents
          award         \* award[q][u]: what the distribution of q gave u;
                        \* not in the database, for the properties

prizes == <<fee, distributed, snapshot, board, call, frozen, held, award>>
prizeVars == <<accounts, kyc, prizes>>

NotCalled == [pc |-> "idle"]
NoBoard == [u \in {} |-> 0]

Paid(q) == Cardinality(DOMAIN Score[q])   \* ActivePaidMembers

\* The worker may have failed to take a snapshot after the last match.
PrizesInit ==
    /\ fee \in [Quinielas -> Fees]
    /\ distributed = {}
    /\ \E taken \in SUBSET Quinielas :
            snapshot = [q \in Quinielas |->
                IF q \in taken
                THEN [u \in DOMAIN Score[q] |-> u \in Winners(Score[q], Paid(q))]
                ELSE NoBoard]
    /\ board = [q \in Quinielas |-> NoBoard]
    /\ call = [a \in Admins |-> NotCalled]
    /\ frozen = {}
    /\ held = [u \in Users |-> 0]
    /\ award = [q \in Quinielas |-> [u \in Users |-> 0]]

-----------------------------------------------------------------------------

UpdateGroupSettings(q, f) ==
    /\ fee[q] # f
    /\ fee' = [fee EXCEPT ![q] = f]
    /\ UNCHANGED <<accounts, kyc, distributed, snapshot, board, call, frozen,
                   held, award>>

\* rankingService.GetLeaderboard: soft-deleted users are skipped before the
\* others are ranked.
LiveBoard(q) ==
    LET standings == Restrict(Score[q], DOMAIN Score[q] \ deleted)
    IN  [u \in DOMAIN standings |->
            [tier |-> tier[u], winner |-> u \in Winners(standings, Paid(q))]]

\* resultFromSnapshot: the users are as they are now, who wins is not.
SnapshotBoard(q) ==
    [u \in DOMAIN snapshot[q] \ deleted |->
        [tier |-> tier[u], winner |-> snapshot[q][u]]]

\* CachedRankingService.GetLeaderboard, what it may return: the cached board,
\* or else the snapshot's, or the live one without a snapshot or when one of
\* the queries over it fails.
GetLeaderboard(q) ==
    IF board[q] # NoBoard THEN {board[q]}
    ELSE {LiveBoard(q)} \cup
         (IF snapshot[q] # NoBoard THEN {SnapshotBoard(q)} ELSE {})

\* The TTL of the cache, or an invalidation.
EvictBoard(q) ==
    /\ board[q] # NoBoard
    /\ board' = [board EXCEPT ![q] = NoBoard]
    /\ UNCHANGED <<accounts, kyc, fee, distributed, snapshot, call, frozen,
                   held, award>>

\* RecalculateLeaderboard: the snapshotter of the API reads the leaderboard
\* through the cache.
RecalculateLeaderboard(q) ==
    \E entries \in GetLeaderboard(q) :
        /\ snapshot' = [snapshot EXCEPT ![q] =
                [u \in DOMAIN entries |-> entries[u].winner]]
        /\ board' = [board EXCEPT ![q] = entries]
        /\ UNCHANGED <<accounts, kyc, fee, distributed, call, frozen, held,
                       award>>

\* The amount of each winner: the pool divided by the number of places, and
\* what is left over to the first winner on the board.
Share(q, f, winners) ==
    LET pool == f * Paid(q)
        places == WinnerCount(Paid(q))
        first == {u \in winners : \A v \in winners \ {u} :
                    Ahead(Score[q], u, v)}
    IN  [u \in winners |->
            pool \div places + (IF u \in first THEN pool % places ELSE 0)]

\* DistributePrizes reads the fee and the leaderboard, and decides from the
\* tiers on it who is credited and whose prize is held.
PlanDistribution(a, q) ==
    /\ call[a] = NotCalled
    /\ fee[q] # 0
    /\ WinnerCount(Paid(q)) > 0
    /\ \E entries \in GetLeaderboard(q) :
        LET winners == {u \in DOMAIN entries : entries[u].winner}
            unverified == {u \in winners : CheckWinFreeze(entries[u].tier)}
        IN  /\ board' = [board EXCEPT ![q] = entries]
            /\ call' = [call EXCEPT ![a] =
                    [pc |-> "commit", quiniela |-> q, fee |-> fee[q],
                     credits |-> winners \ unverified, freezes |-> unverified]]
    /\ UNCHANGED <<accounts, kyc, fee, distributed, snapshot, frozen, held,
                   award>>

\* Mutant: the idempotency guard is forgotten.
FeeUnchanged(q, f) == fee[q] = f

\* lockAndMarkDistributed.
Claimable(q, f) == q \notin distributed /\ fee[q] = f

\* applyPrizeFreezeTx: the amount replaces the one that was there, and a
\* winner without a profile is skipped.
FreezePrizes(share, users) ==
    /\ frozen' = frozen \cup {u \in users : kstatus[u] # "none"}
    /\ held' = [u \in Users |->
            IF u \in users /\ kstatus[u] # "none" THEN share[u] ELSE held[u]]

\* DistributePrizesAtomically: all credits and freezes, or nothing.
DistributePrizes(a) ==
    LET c == call[a]
        q == c.quiniela
        share == Share(q, c.fee, c.credits \cup c.freezes)
    IN  /\ c.pc = "commit"
        /\ Claimable(q, c.fee)
        /\ distributed' = distributed \cup {q}
        /\ CreditAll(Restrict(share, c.credits), "prize", <<"quiniela", q>>)
        /\ FreezePrizes(share, c.freezes)
        /\ award' = [award EXCEPT ![q] = [u \in Users |->
                IF u \in DOMAIN share THEN award[q][u] + share[u]
                                      ELSE award[q][u]]]
        /\ call' = [call EXCEPT ![a] = NotCalled]
        /\ UNCHANGED <<kyc, fee, snapshot, board>>

\* A conflict, a winner who is gone or an overflow rolls everything back.
DistributionFails(a) ==
    LET c == call[a]
        share == Share(c.quiniela, c.fee, c.credits \cup c.freezes)
    IN  /\ c.pc = "commit"
        /\ ~ /\ Claimable(c.quiniela, c.fee)
             /\ \A u \in c.credits : CanCredit(u, share[u], NoReference)
        /\ call' = [call EXCEPT ![a] = NotCalled]
        /\ UNCHANGED <<accounts, kyc, fee, distributed, snapshot, board,
                       frozen, held, award>>

\* Mutant: the escrow is not emptied.
ReleaseKeepingEscrow(u) ==
    /\ u \in frozen
    /\ CreditUser(u, held[u], "prize", <<"kyc_unfreeze", u>>,
                  NoReference, "GTQ", denom[u])
    /\ UNCHANGED <<kyc, prizes>>

\* ReleaseAndCreditFrozen; nothing to do when balance_frozen is not set.
ReleaseFrozenBalance(u) ==
    /\ u \in frozen
    /\ IF held[u] = 0
       THEN UNCHANGED accounts
       ELSE CreditUser(u, held[u], "prize", <<"kyc_unfreeze", u>>,
                       NoReference, "GTQ", denom[u])
    /\ frozen' = frozen \ {u}
    /\ held' = [held EXCEPT ![u] = 0]
    /\ UNCHANGED <<kyc, fee, distributed, snapshot, board, call, award>>

DistributionNext ==
    \/ \E q \in Quinielas :
        \/ \E f \in Fees : UpdateGroupSettings(q, f)
        \/ EvictBoard(q) \/ RecalculateLeaderboard(q)
    \/ \E a \in Admins :
        \/ \E q \in Quinielas : PlanDistribution(a, q)
        \/ DistributePrizes(a) \/ DistributionFails(a)
    \/ \E u \in Users : ReleaseFrozenBalance(u)

PrizesNext ==
    \/ DistributionNext
    \/ KycNext /\ UNCHANGED prizes
    \/ (\E u \in Users : DeleteUser(u)) /\ UNCHANGED <<kyc, prizes>>

PrizesStart == AccountsInit /\ KycInit /\ PrizesInit

PrizesSpec == PrizesStart /\ [][PrizesNext]_prizeVars

-----------------------------------------------------------------------------

Planned == [pc : {"commit"}, quiniela : Quinielas, fee : Nat,
            credits : SUBSET Users, freezes : SUBSET Users]

PrizesTypeOK ==
    /\ AccountsTypeOK /\ KycTypeOK
    /\ fee \in [Quinielas -> Fees]
    /\ distributed \subseteq Quinielas
    /\ \A q \in Quinielas :
        /\ DOMAIN snapshot[q] \subseteq Users
        /\ DOMAIN board[q] \subseteq Users
        /\ \A u \in DOMAIN board[q] : board[q][u].tier \in 0 .. 3
    /\ call \in [Admins -> {NotCalled} \cup Planned]
    /\ frozen \subseteq Users
    /\ held \in [Users -> Nat]
    /\ award \in [Quinielas -> [Users -> Nat]]

Won(u) == SumFunction([q \in Quinielas |-> award[q][u]])
Received(u) ==
    SumFunctionOnSet([k \in DOMAIN ledger[u] |-> ledger[u][k].delta],
                     {k \in DOMAIN ledger[u] : ledger[u][k].kind = "prize"})

\* However many administrators distribute, retry and release, a winner never
\* gets more out of the prizes than the distributions gave: what was credited
\* and what is still held stay within what was won, and what is held is
\* marked as frozen.
NoPrizePaidTwice ==
    \A u \in Users :
        /\ Received(u) + held[u] <= Won(u)
        /\ held[u] > 0 => u \in frozen

\* A quiniela is paid out by one distribution only, and at the fee it has at
\* that moment, although the fee was read before the transaction.
PaidAtCurrentFee ==
    [][\A q \in Quinielas :
            award'[q] # award[q] =>
                /\ q \notin distributed
                /\ \E winners \in SUBSET Users : \A u \in Users :
                    award'[q][u] = IF u \in winners
                                   THEN Share(q, fee[q], winners)[u] ELSE 0
      ]_prizeVars
=============================================================================
