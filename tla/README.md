# A verification project for the match prediction platform

The platform runs *quinielas*: groups of users who pay an entry fee, forecast
the results of football matches, earn points, and share a prize pool. It is a Go
service over PostgreSQL and Redis: an API (`cmd/api`), a worker (`cmd/worker`)
and a Next.js frontend. This directory holds TLA+ modules of the parts that
carry its logic, the TLC runs that check them and TLAPS proofs about them.
`PROJECT.json` says which definition models which lines, which run checks which
property, and which hazard of the code each property is aimed at.

- [The system](#the-system)
- [Modules](#modules)
- [How the code is modelled](#how-the-code-is-modelled)
- [Runs](#runs)
- [Proofs](#proofs)
- [Known disagreements](#known-disagreements)
- [Not modelled](#not-modelled)
- [Plan](#plan)

## The system

A request passes `internal/api/handler`, a service (`internal/service`) and a
repository (`internal/repository`). A repository method is one SQL statement or
one transaction; a service method strings several together and holds no lock
between them. That is where most of what can go wrong lives: what a service has
read may be old when its transaction commits.

| Part | State | Operations | Meets | Hard about it | Correct when |
|---|---|---|---|---|---|
| Balance ledger | `users.balance_cents`, `balance_currency`, `balance_ledger` | credit, debit | every money flow | concurrent transactions, a 32-bit column, unique references | the balance is the running total of the ledger |
| Payment intents | `payment_intents` | create, cancel, expire, dispute, webhook, manual credit | ledger, KYC gate, worker | redelivered and delayed webhooks, administrators, the stale job | an intent is credited once, for what it is worth |
| Bank transfers | `bank_transfer_proofs` | upload, approve, reject | ledger, KYC gate | several administrators | an approved proof is credited once |
| Withdrawals | `withdrawal_requests` | create, approve, reject, process | ledger, KYC gate | gate, insert and debit are three separate moments | one debit per approved request, one open request per user |
| KYC | `kyc_profiles`, `users.kyc_tier` | submit, approve, reject, escalate | gate, escrow | the tier is stored twice; reviews race submissions | both copies agree, a rejected user has no tier |
| Prizes and escrow | `quinielas.prizes_distributed_at`, `frozen_amount_cents` | distribute, freeze, release | ranking, cache, ledger, KYC | two calls, a fee that changes, a second prize while one is held | nobody is paid twice, the pool is paid at the current fee |
| Ranking | none (pure) | sort, rank, choose winners | predictions, prizes | ties | rank is the number of better entries plus one |
| Cached ranking and snapshots | cache entries, `leaderboard_snapshots`, a lock per match in Redis | read, flush, fill, snapshot, recalculate | ranking, worker, SSE | three sources of different age, redelivery, a lock that outlives its holder | the snapshot of a match includes it, and every match gets one |
| Matches | `matches` | start, result, correct, cancel, live score | events, sync job | whole-row writes without a condition | a confirmed result is scored |
| Predictions and scoring | `predictions`, `scoring_log`, rules | submit, edit, score | matches, Redis stream | redelivery, crashes, dead letters, edits that race scoring | points are given once, no result is forgotten |
| Tournament bracket | `matches`, `tournament_slots` | automatic and manual confirmation, best thirds, backfill | worker, match service | the last matches of a group handled together, lost events, a matching problem | slots hold the right teams, an administrator's choice stands |
| Membership | `group_memberships`, `quinielas`, `payment_records` | join, pay, approve, reject, leave, transfer, remove, ban | ledger, quinielas | several transactions per request, what was read is old by then | the limit holds, a handover leaves one owner, whoever is marked as paid has paid |
| Notification outbox | `domain_outbox`, `notifications`, `notification_dlq` | write, claim, deliver, settle, unlock, replay, purge | every service, jobs, SSE, push, e-mail | a claim that has lapsed, no owner on the row, two unique indexes | shown once, settled in the end, no reminder twice, no dead letter lost |
| Idempotency keys | entries in Redis | load, reserve, commit, release, expire | payment handlers | two requests with one key, a store that fails, a process that dies | the work of a key is done once, a replay is the original answer |
| Messaging | Redis streams, dead letters | publish, consume, retry, recover | scoring, snapshots, bracket | at-least-once, takeover of pending entries | an event is acknowledged after it was handled |
| Leader election, breaker, semaphore, hub, rate limiters | Redis or memory | acquire, release, subscribe, count | API, worker | leases that lapse, replicas, shutdown | one holder, bounded load |

`PROJECT.json` lists every part under `components`, also those that are left
out, and everything that is hard to test under `hazards`, each with the line
where it bites.

## Modules

| Module | Models | Builds on |
|---|---|---|
| `Settlement` | abstract: an item moves its holder's balance at most once, by what it is worth, never below zero | |
| `Accounts` | `balance_ledger_repository.go`: the money columns of a user and the ledger | |
| `KycGate` | `kyc_gate.go`: every limit that depends on the tier | `Accounts` |
| `Deposits` | payment intents, both webhooks, bank transfers | `KycGate`, refines `Settlement` |
| `Withdrawals` | payout requests | `KycGate` |
| `Kyc` | submissions and reviews | `KycGate` |
| `Wallet` | deposits, payouts and reviews of the same users, interleaved | `Deposits`, `Withdrawals`, `Kyc`, refines `Settlement` |
| `Ranking` | sort, competition rank, winners (operators) | |
| `Leaderboard` | the leaderboards that can be built, and reference definitions for `Ranking` | `Ranking` |
| `Prizes` | distribution, cached leaderboard, escrow | `Kyc`, `Ranking` |
| `Scoring` | matches, forecasts, events, scoring | |
| `Snapshots` | from the scored match to the leaderboard snapshot, and the cache of the API | |
| `Bracket` | group tables, slots, choice of teams, the matcher of the best thirds (operators; the matcher is a recursive function) | |
| `Knockout` | match service, worker, backfill and administrators that fill the bracket | `Bracket` |
| `Memberships` | one operator per transaction on a group, its members and payment records | `Accounts` |
| `Groups` | the services that run these transactions one after the other | `Memberships` |
| `Outbox` | writer, replicas, dispatchers, dead letters, scheduler jobs, purge | |
| `Requests` | the Idempotency-Key middleware over its store | |
| `AccountsProofs` | lemmas on money transactions and on sums | `Accounts` |
| `WalletProofs` | theorems of `Deposits`, of `Wallet` and of `Requests` | `Wallet`, `Requests`, `AccountsProofs` |
| `LeaderboardProofs` | theorems of `Leaderboard` and of `Snapshots` | `Leaderboard`, `Snapshots`, `AccountsProofs` |
| `PrizesProofs`, `GroupsProofs`, `KnockoutProofs` | theorems | the module of that name, `AccountsProofs` |
| `ScoringProofs`, `OutboxProofs` | theorems | the module of that name |
| `MCDeposits`, `MCWallet`, `MCPrizes`, `MCLeaderboard`, `MCScoring`, `MCSnapshots`, `MCKnockout`, `MCGroups`, `MCOutbox`, `MCRequests` | values of the constants for TLC | |

`Scoring`, `Snapshots` and `Knockout` are the three things the worker does with
one `MatchFinished` event. They are separate because they share no state but
the event: points never depend on the bracket, and a snapshot depends on the
points only through which matches are scored.

## How the code is modelled

*Transactions.* A repository transaction is one action: each takes the row lock
it needs (`FOR UPDATE`, or the conditional `UPDATE ... RETURNING` itself) before
it reads what it depends on. The exceptions are modelled as such: the batch
that scores a match reads the predictions without a lock and updates them later
(`ReadPredictions`, `ScoreMatchBatch`), so these are two actions.

*Services.* Reads that one method makes in a row without acting on them are one
action (`LoadMatch` reads the match and the rules). A service method that reads and then calls a transaction is two
actions or more, and what it has read is kept in between: `req[h]` of a deposit
request, `wstatus[w] = "checked"` of a payout that passed the gate, `call[a]` of
a distribution, `job[p]` and `call[c]` in `Scoring`. Any other action may
happen there. A request may also end without its second transaction
(`Abandon`, `CaptureMiss`, `ApproveMiss`, `DistributionFails`, `Crash`).

*Money.* `CanCredit` has the three reasons why a credit aborts: a deleted user,
an overflow of the `int4` column (`MaxCents`), a reference that is already in
the ledger (the partial unique index). `CreditUser` updates the balance and
appends the row. `LedgerRow` carries two fields that are not columns, `unit` and
`denom`: what the cents are worth, and the currency the balance is read in.
`users.reserved_cents` is read by the code and never written, and is left out.

*Time* is abstract. `PassExpiry`, `PassHour` and `AgeOut` let an intent expire,
become old enough for the cancellation job, and a ledger row leave the 24-hour
window; they can happen at any moment after the creation.

*Providers.* A webhook may be delivered at any time after the intent exists, as
often as the provider likes. A Recurrente delivery carries the intent's token, a
PayPal delivery a capture id. Exchange rates are constants in hundredths, and
integer division is that of the code; a lookup may fail.

*Prizes.* The matches are over, so the standings `Score[q]` are fixed; the fee,
the tiers, the deleted users, the cache and the snapshot are not. `award` is a
history variable: what each distribution gave to whom.

*Scoring.* `job[p]` of an administrator goes through `update` (the row it is
about to write) and `publish`; of a worker, or of an administrator whose
publication failed, through `load`, `read`, `score`, `log`. An event that was
delivered belongs to the worker until it is acknowledged: a crash leaves it in
the pending list of that consumer. The name of a consumer has the process id, so
`Crash` either puts the worker back to `load` (the same name, and
`recoverPending` reads the event again) or to idle, and then the match is
`lost`. `corrected` has the matches whose result was corrected; both are for
the properties. The optimistic
lock on `predictions.updated_at` is the flag `stale` of an edit: a later write
of the same row sets it. A dead letter goes to Redis and, when Redis fails, to
PostgreSQL; the model assumes that one of them accepts it.

*After scoring.* `thread[t]` of `Snapshots` is a goroutine of the consumer from
the event to the acknowledgement: score, flush and signal, lock, rank, create.
The players of the group forecast every match, so a standing is the set of
matches it includes, and a cache, a snapshot and a ranking can be compared as
sets. `reader[r]` is an API call between its read of a snapshot and its write
of the cache. `missed` collects the matches the worker gave up on or lost.

*Bracket.* `Standings` sorts a group by the four criteria of the code
(`InOrder` is `sort.Slice`). `MatchThirds` is the augmenting-path matcher: the
recursion of `augment` is a recursive function of the thirds that have not been
visited, and what a failed search has visited stays visited. `Calls` are the
calls of the match service that may be made, each with its operation, match and
result; `call[c]` is the row that one has made out of what it read and is going
to write. `UpdateRow` writes all of it, whatever the table holds by then:
`overwritten` has the matches that were over and changed after that, by a
correction or by a call that was under way. A knockout row that is written back
carries the old teams as well, so a place that was filled in between is a
placeholder again. The handler reads
what a slot should hold and then confirms slot by slot (`todo` of a thread),
looking each up first, so that an administrator or another replica may come in
between. A replica that starts again backfills in the same way: `rest` is what
it has not read yet, `listed` the finished matches of the phase it has listed.
A list or an update that fails is logged and skipped, and its matches are
`missed`. `office` is the run of an administrator for the thirds: the `plan`
the matcher made, and the slots it still has to confirm. Matches start as
`Fixtures`.

*Groups.* `Memberships` has the SQL: the `WHERE` clauses are conjuncts, and
what they do not ask for (the role in `LeaveMembership`, the status in
`TransferOwnershipRoles`, `paid` in `DebitBalanceAndMarkPaid`) is not a guard
here either. `Groups` has the services: `call[c]` is what a request has read,
and the transaction it runs next. `Abandon` ends it anywhere in between. Clocks
of `joined_at` are an order. `due` and `base` are history, for `PaidIsBacked`.

*Outbox.* An event is the triple of the partial unique index. Clocks are two
flags of an entry, `due` and `stale`, that time raises; a claim may lapse under
a slow worker, which counts as a fault. A worker keeps the batch it claimed, as a
function from ids to the attempts that the claim returned, since
`UPDATE ... RETURNING` promises no order; it delivers the entries of the batch in
any order, and
`MarkDone`, `MarkFailed` and `Schedule` go by the id alone, as the statements
do. `Dispatch` is known by which recipients it reaches. Both unique indexes are
in `Conflict`, and the one on pending entries is also in `Unlockable`, where it
can refuse `UnlockStale` and `Schedule`. A dead letter is resolved by the worker
after its replay (`MarkResolved`) or by an administrator without one
(`Resolve`, the route `/admin/notification-dlq/{id}/resolve`), also while a
worker replays it. The column `resolved_at` is the same; `off` remembers who
was the last, for `ResolvedWasReplayed`.

*Idempotency keys.* A request is one delivery; a retry is another request with
the same key. The store remembers whose entry it holds, which the code does not
need and the properties do. `excused` marks keys that one of the gaps befell
which the code accepts: the store was not available (ADR 0014), the handler
erred after its work was committed, or an entry outlived its time to live.

*Left out of the modelled parts:* texts, images, payout encryption, audit rows,
notifications and metrics. None of them is read by the operations above.

## Runs

`tlc -workers 4 -config <cfg> <module>` in this directory. Deadlock checking is
off in every run: all items can be settled and all matches over, and then
nothing is left to do.

| Run | Module and cfg | What it shows |
|---|---|---|
| `deposits` | `MCDeposits`, `MCDeposits.cfg` | Two intents, one of each provider, a bank transfer and two concurrent requests. `SettledExactlyOnce`: an intent is captured, and a proof approved, exactly when one ledger row credits its owner. `UncheckedCannotCapture`: a PayPal delivery that skipped the gate never captures. `DepositsRefineSettlement`: together they implement `Settlement`. `PendingIntentCloses`: an abandoned checkout does not stay open. |
| `wallet` | `MCWallet`, `MCWallet.cfg` | A bank transfer with two administrators, two payout requests of one user, reviews with all tiers. `PaidOutExactlyOnce`, `OneOpenRequest`, `TierMatchesReview`, `SettledExactlyOnce` and `WalletRefinesSettlement`. |
| `prizes` | `MCPrizes`, `MCPrizes.cfg` | Two administrators distribute one quiniela with two winners while the fee changes, the cache is evicted and refilled, winners are reviewed or deleted and a balance may overflow (1.3 million states). `NoPrizePaidTwice`, `PaidAtCurrentFee`. |
| `leaderboard` | `MCLeaderboard`, `MCLeaderboard.cfg` | `RankCountsBetter` and `PrizesCutAtTie` compare sort, ranks and winners with definitions that count. |
| `scoring` | `MCScoring`, `MCScoring.cfg` | An administrator, a worker, a client who edits, two rule sets, a crash. (561 thousand states). `PointsAreFinal`: points that were given stay while nobody corrects the result. `PublishedIsScored`: a published result is scored, is a dead letter, is withdrawn, or its event was lost with the name of its consumer. |
| `snapshots` | `MCSnapshots`, `MCSnapshots.cfg` | Two goroutines, two matches, one API call, two faults, one administrator's step (410 thousand states). `SnapshotHasTrigger`: the snapshot of a match includes it. `SnapshotComes`: it is taken, unless the worker gave up or lost the event. |
| `knockout` | `MCKnockout`, `MCKnockout.cfg` | Two groups of three teams, five slots, seven calls on the last two matches of a group and on a knockout match, each a read and a later write (155 thousand states). `AutoIsRight`: what the system confirmed is the team that ranks there in the final table, in every group none of whose matches was written again after it was over. `AdminChoiceStands`. `ThirdsMatched`: the matcher gives up only when no assignment exists, and else plans for every slot a third of its own that it admits. `SlotsFilled`: a group that is over and stays so gets its slots filled. |
| `groups` | `MCGroups`, `MCGroups.cfg` | Three users and two requests at a time, six requests in all, a group for two (125 thousand states, up to symmetry). `CapacityKept`, `PaidIsBacked`, `HandoverKeepsOwner`. |
| `outbox` | `MCOutbox`, `MCOutbox.cfg` | Two replicas, two entries, a dead letter that may be written off, one fault (1.0 million states). `DoneReachedAll`, `ClaimsBounded`, `RemindedOnce`, `EntrySettles`. `ResolvedWasReplayed`: what a worker resolved is back in the outbox. |
| `requests` | `MCRequests`, `MCRequests.cfg` | A call delivered three times and another with its own key, two faults (295 thousand states). `EffectOnce`, `ReplayIsOriginal`, `KeyFreed`. |
| `recovery` | `MCOutbox`, `MCRecovery.cfg` | Violated: `EntryRecovered`, see [below](#known-disagreements). |
| `stale` | `MCSnapshots`, `MCStale.cfg` | Violated: `FreshAfterSignal`, see [below](#known-disagreements). |

`LedgerChain` (every row starts from the balance of the row before it, and the
last one leaves the stored balance) is checked in `deposits` and `wallet`, and
one type invariant in every run that moves money. The type invariant is not idle there: `balance[u]` stays
in `0 .. MaxCents`, which fails as soon as an overflow is not part of the guard.

**Bounds.** `MaxCents` (1 to 15, depending on the run) is the width of the balance column, chosen so
that some credits fit and some overflow. Opening balances and caps are of the
same size, so that each limit of the gate refuses something and admits
something. Two handlers or administrators are enough for every race between a
read and a commit: the transactions are atomic, so a third request can only
repeat what the second did. `MaxEvents` caps the events per match that are
waiting, and `MaxCrashes` the crashes; the paths they cut repeat the ones they
leave. `MinMembersPerGroup` is 5 in the code and in `leaderboard`; `prizes` scales
it to 2 so that two users are a group that wins prizes. Leaderboards have up to three entries; ties of two and
of three at each place occur. Two PayPal captures of one intent are beyond the
bounds of `deposits` and are covered by the proof. `MaxFaults` (1 or 2) counts
crashes, failed statements and slow workers together; two are needed where a
property survives one by a retry. In `groups` a limit of two with three users
makes the last place contested, and six requests are a join, an approval, a
departure and what races them. In `outbox` two entries are enough for every
conflict on the indexes, and one dead letter for a replay that meets its own
entry; `ReplayLimit` is 1, so that a replay that failed is the last. In
`knockout` the second slot for thirds admits only one group, so that a greedy
matcher fails. The last two matches of group A are open: one is confirmed,
corrected and given a live score, the other started, confirmed and called off,
so that every pair of calls may read one row and write it in either order. The
correction turns the table of the group upside down, so that a slot filled
before it holds the wrong team after it; the other corrected match is behind
another slot, of a phase that only the backfill reads.

**Fairness.** `deposits`: `PassHour`, because time passes, and
`CancelStalePendingCardIntents`, because the worker runs it from a ticker
(`cmd/worker/main.go`). No webhook, user or administrator is obliged to act.
`scoring`: the steps of a worker that has an event, and the delivery of waiting
events to some worker, because the consumer loop of `redis.go` blocks only on
an empty stream. Nobody is obliged to start a request, edit a prediction or
replay a dead letter, and `MaxCrashes` makes crashes finite.
`snapshots`, `knockout`: the next step of every goroutine of the consumer pool,
for the same reason; nothing is asked of readers and administrators. In
`knockout` a call of the match service that has read a row goes on to its write
and its publication, unless it fails, which `CallFails` counts as a fault; nobody
has to make a call.
`outbox`: the ticks of every replica (unlock; claim, deliver, settle) and time
(a retry becomes due, a claim lapses); no delivery is assumed ever to succeed.
`requests`: only that entries expire, since every one is written with a time to
live. The other runs state no fairness and check safety.

## Proofs

`tlapm <module>` checks a proof module from nothing in a few minutes. The
theorems hold for every set of users, intents, captures, proofs, handlers,
matches, workers, clients, requests and keys, and every amount, rule and bound
that the assumptions of the modules admit. The assumptions only give constants
their types (`AccountsAssumption`, `GateAssumption`, `DepositsAssumption`,
`WithdrawalsAssumption`, `KycAssumption`, `PrizesAssumption`,
`RankingAssumption`, `LeaderboardAssumption`, `ScoringAssumption`,
`MembershipsAssumption`, `GroupsAssumption`, `OutboxAssumption`,
`RequestsAssumption`, `SnapshotsAssumption`, `BracketAssumption`,
`KnockoutAssumption`), and say that what a query returns is finite: the users
and members that are counted, the quinielas whose prizes are added up, the
matches and slots, and the entries of a standing that is sorted. Those of the
bracket also say what the migrations insert: only knockout matches are fed by
slots (000168, 000169, 000210), every match has two names of teams from the
start, if only placeholders, and a team plays in one group (000168).

`AccountsProofs` has the lemmas on the ledger: what appending a row does to
`Chained`, `NoRowFor` and `OneRowFor`, what `CreditUser` and `DebitUser`
preserve, and that `CreditAll`, which credits a set of users in one
transaction, does to each of them what one credit does (`CreditAllRows`). It
also has the lemmas on sums over finite sets (`SumTakeOut`, `SumMore`,
`SumRaised`, `SumNat`). Library induction over finite sets takes a predicate as
a parameter, which the provers cannot instantiate; instead, each fact is shown
with a least counterexample: the subsets for which it fails have a smallest
member (`LeastSubset`), and taking one element out of that one gives the
contradiction. That a recursive function over subsets exists at all is shown in
the same way (`SumExists`).

The first part of `WalletProofs` proves of `DepositsSpec`:

- `DepositsTypeCorrect`, `DepositsLedgerChain`, `DepositsSettleOnce`,
  `DepositsGateHolds`: the invariants of the run `deposits`. The inductive
  invariant `DepositsInv` is their conjunction with two facts about requests
  under way: the amount that a request will credit is one the item is worth
  (`RequestsHoldWorth`), and the intent or proof of a request has been inserted
  (`RequestsFoundIntent`). Without the second, an unchecked delivery could find
  its intent still to be created, and pending afterwards.
- `DepositsImplementPromise`: `DepositsSpec => Promise!Spec`. A capture, an
  approval and a manual credit map to `Settle`; everything else stutters. The
  worth of what is credited comes from `RequestsHoldWorth`, that it is not
  settled yet from the guards.

The second part proves of `WalletSpec`, from the lemmas of the first:

- `WalletTypeCorrect`, `WalletPaysOnce`, `WalletOneOpen`, `WalletTiersAgree`.
  The inductive invariant `WalletInv` adds the three payout and review
  invariants to `DepositsInv`. What makes the composition work is that a
  credit or a debit adds one row, for its own item: the rows of every other
  item are kept (`RowsKept`), so each component preserves the others'
  invariants.
- `WalletImplementsPromise`: `WalletSpec => WalletPromise!Spec`. A step that
  settles a deposit in the smaller refinement settles it in the larger one
  (`DepositLifts`); an approved payout is a `Settle` with a negative amount, which the
  condition of the `UPDATE` keeps from going below zero.

`ScoringProofs` proves of `ScoringSpec`:

- `ScoringTypeCorrect`, from the inductive invariant `ScoringInv`: points are
  natural numbers because a match that is finished has a result
  (`FinishedHasResult`), which is needed since the worker loads whatever row an
  administrator wrote.
- `PointsGivenOnce` (`PointsAreFinal`) and `CorrectionsKeepPoints`: points that
  were given stay, and they stay even when the result is corrected, which is not
  what the comments on `CorrectResult` say. An edit writes back the points that it
  read; it changes nothing because an edit that the optimistic lock accepts
  holds the points of its row (`EditsHoldPoints`). That needs every writer of
  the row to make the other edits stale, scoring included.

`GroupsProofs` proves of `GroupsSpec`:

- `GroupsKeepCapacity` (`CapacityKept`) and `GroupsHandOver`
  (`HandoverKeepsOwner`). The invariant `GroupsInv` says of a request under way
  nothing at all, not even that its user exists: whatever it has read, the
  conditions of the transaction decide. Every transaction but two is `Quiet`
  (it activates nobody and takes no role from an owner who leaves);
  `ApproveMembership` counts under the lock before it activates, and
  `LeaveAndTransfer` ends with the successor as the only active owner.
- `GroupsTypeCorrect` (`GroupsTypeOK`) and `GroupsPaidIsBacked`
  (`PaidIsBacked`). Here a request has to be believed a little: `CallsFit` types
  what it holds at each of its steps, so that a charge is of a user that exists
  and by an amount that is a fee. `PaidIsBacked` is not inductive alone: a
  member who returns is compared with the payments that were there on the day of
  the request, and `PaidNoLess` says that payments are never fewer than then. Every
  transaction that sets `paid` records a payment with it, or finds that none is
  due.

The third part of `WalletProofs` proves of `RequestsSpec`:

- `RequestsTypeCorrect`, `RequestsTakeEffectOnce` (`EffectOnce`) and
  `RequestsReplayOriginal` (`ReplayIsOriginal`). `EffectOnce` is not inductive:
  two requests could both have reserved. `OwnsEntry` adds that, outside the
  gaps, the entry of a key is that of the request behind the reservation and
  that of whoever did the work; so there is one of them, and the release of an
  error never removes the entry of a success. `AnswersBacked` adds that a
  committed entry names a request that is over and succeeded; since a request
  that is over never changes, what is replayed stays its answer.

`OutboxProofs` proves of `OutboxSpec`, from the inductive invariant `OutboxInv`
(`OutboxInvariant`):

- `OutboxTypeCorrect` and `ClaimsAreBounded` (`ClaimsBounded`). A row does not
  say who claimed it and a lapsed claim may still settle it, so the bound needs
  an account of the claims. `ClaimsDistinct`: two workers that hold one entry
  hold different counts of it. `ClaimsPaid`: the first claim is free, and every
  further one is paid by a count below the limit that nobody holds any more
  (`Spent`) or by a fault; an entry that can be claimed without either
  (`Recoverable`) has one claim in hand. There are `MaxAttempts - 1` counts
  below the limit, which gives the bound.
- `DoneEntriesReachedAll` (`DoneReachedAll`). `SuccessReachedAll`: a worker that
  has seen its delivery succeed knows that every recipient has the
  notification, and no later step takes it away. The unique index on the
  notification keeps it from being there twice.
- `RemindersWrittenOnce` (`RemindedOnce`). `ReminderKept`: while the window of a
  reminder is open, its entry is in the table and refuses a second one; only
  after that may a purge remove it.
- `ResolvedLettersWereReplayed` (`ResolvedWasReplayed`). `ReplayReal`: a replica
  between its two statements has written the event already, or finds it there;
  an administrator who writes the letter off in between does not change that.

`PrizesProofs` proves of `PrizesSpec`, from `PrizesInv`:

- `PrizesTypeCorrect` (`PrizesTypeOK`), `PrizesLedgerChain` (`LedgerChain`) and
  `PrizesPaidOnce` (`NoPrizePaidTwice`): what a winner received, as a sum over
  the ledger, and what is held, are at most what was won, a sum over the
  quinielas. A distribution raises one term of the second sum for every winner
  by what it adds to the first or to the escrow. That needs `PlansSound` (no
  winner of a plan is both credited and frozen) and `NothingBefore` (a quiniela
  that is not distributed has given nothing).
- `PrizesPaidAtFee` (`PaidAtCurrentFee`): the transaction asks for the mark and
  for the fee again, whatever the call had planned.

The first part of `LeaderboardProofs` proves of `LeaderboardSpec`:

- `RanksCountBetter` (`RankCountsBetter`) and `PrizesAreCutAtTie`
  (`PrizesCutAtTie`), for any number of members, predictions and ties. The four
  rules leave nothing open but equal standings and agree with the lexicographic
  reference (`BetterOrder`, `BetterIsBeats`); with the user id they are a total
  order, so that a sorted sequence exists (`SortExists`, by a least
  counterexample and its last entry) and has every entry (`SortSorts`). For the
  recursion of `assignRanks` no induction is needed: the function that counts
  the better entries satisfies it, and only one function does (`RanksCount`).
  The winners follow from the monotony of that count (`NoWorse`).

The second part proves of `SnapshotsSpec`:

- `SnapshotsHaveTheirTrigger` (`SnapshotHasTrigger`). `ScoredFirst` is what a
  goroutine knows before it writes: behind `ScoreMatch` its match is scored,
  scores are never taken back, and what it ranked includes the match. The
  argument needs that the worker ranks from the predictions; through the cache,
  as the API does, it would fail.

`KnockoutProofs` proves of `KnockoutSpec`, from the inductive invariant
`KnockoutInv` (`KnockoutInvariant`):

- `AutoConfirmedRight` (`AutoIsRight`). A table is read long before a slot is
  updated, so the invariant has to speak of what is about to be confirmed:
  `ChoicesRight` says that every choice a goroutine still holds is right, in the
  sense of the property, and `SlotsRight` that every slot of the system is. What
  is right stays right (`RightsStay`): a row of a group that is over changes
  only by a write that `overwritten` records (`Careful`), whoever makes it and
  however long ago it read the row. The teams of group matches never change
  (`GroupTeamsStay`), since no slot feeds them; as the match service writes
  whole rows, `CallsRight` says the same of the copy every call holds. That the
  first two entries of a table are the teams with none and one above them is
  a fact about sorting (`FirstAndSecond`): with the name as the last criterion
  the order is total, so a sorted list exists (`ListExists`), has every entry
  (`ListIsWhole`), and each entry has as many before it as are better
  (`TableSorted`).
- `AdminChoicesStand` (`AdminChoiceStands`). A slot that an administrator filled
  is never empty, and `AutoConfirmSlot` changes only a slot that is empty at the
  moment of the update, whatever the look-up had found.
- `ThirdsAreMatched` (`ThirdsMatched`), for any number of slots and thirds and
  any sets of admitted groups. The recursive search has a solution
  (`SolutionExists`), and each solution answers as the definition says
  (`SolutionAnswers`). A search that finds a third keeps every slot that was
  filled and fills one more; one that fails has visited only thirds that are
  taken, by slots of which it visited every third (`SearchResult`, by a least
  counterexample over the sets of open thirds). Those slots and the one that
  searched are one more than their thirds, so no assignment exists
  (`StuckNoFit`). Slot after slot this gives that the matcher is exact
  (`LoopProgress`, `MatchIsExact`), and `AssignmentRight` that what it returns
  gives each slot a third of its own. That two thirds are two teams needs that a
  team plays in one group.

Every invariant and action property of the passing runs is proved. Only
model-checked are the six liveness properties `PendingIntentCloses`,
`PublishedIsScored`, `SnapshotComes`, `SlotsFilled`, `EntrySettles` and
`KeyFreed`: fairness and `ENABLED` are out of the prover's reach.

The inductive invariants of `OutboxProofs`, `PrizesProofs`, `GroupsProofs` and
`KnockoutProofs` also hold in every state of the runs `outbox`, `prizes`,
`groups` and `knockout`; for the first, the attempts of a batch are capped for
TLC.

## Known disagreements

Two are runs that expect TLC to find the violation; `findings` quotes the lines.

- `recovery`: `UnlockStale` "recovers entries left behind by a crashed worker
  instance", but it is one statement for all stale rows. Two rows for one event
  may be in process together (the second is written once the first is claimed),
  and the index on pending rows then refuses the statement on every tick:
  no stale row is recovered any more, of this event or of another.
- `stale`: the cache is flushed before `leaderboard.updated` is sent so that the
  refetch finds it cold; a cold cache is then filled from the latest snapshot,
  which is still that of the match before, and stays until its time to live ends.

The others follow from the modules as they stand, and are listed because a
reader of the code would expect the opposite. No property states them.

*Money.*

- What a webhook credits is said to be in the currency of the balance
  (`payment_intent_repository.go:121`); when the rate cannot be had,
  `resolvePayPalCredit` credits dollar cents to a quetzal balance.
- The velocity check at approval (`bank_transfer_service.go:140`) reads the
  ledger before the transaction; two approvals exceed the 24-hour cap.
- "Identity confirmation before any payout is processed" (`kyc_gate.go:136`),
  but only `Create` asks the gate: a user who is rejected while the request
  waits is paid (`withdrawal_request_repository.go:241`).
- A held prize is not to be lost (`prize_service.go:37`, ADR 0009), but the next
  freeze replaces the amount (`quiniela_repository.go:571`).
- "100% of the pool is always credited" (`admin_group_service.go:264`), but the
  pool is divided by the number of places while everybody tied at the last one
  is paid: more than the pool.
- The general fee is "charged once per member" (`constants.go:248`), but
  `DebitBalanceAndMarkPaid` does not look at `paid`: a join from the balance
  that races the bulk charge pays twice. `BulkDebitAndMarkPaid` charges quetzal
  cents whatever the currency of the balance is, and the members who joined
  while the group was free are already marked as paid, so that the upgrade
  charges few or none of them (`interfaces.go`, its comment).

*Matches and standings.*

- `CorrectResult` publishes again "so the scoring engine recomputes
  predictions" (`match_service.go:195`), but the update skips rows that have
  `scored_at` (`query_helpers.go:195`). That the points stay after a correction
  is the theorem `CorrectionsKeepPoints`; `PointsAreFinal` leaves these matches
  out.
- "Once the score is confirmed it is permanent" (`match_service.go:175`), but
  every match operation writes back the whole row it has read: a second result,
  a cancellation or a live score that was under way replaces a confirmed result
  (`UpdateRow` of `Scoring` and `Knockout`). A group that was over may be open
  again with its slots filled, and a knockout match may lose a team that was
  put into it.
- Two snapshots at the same time may leave the older standing as the latest.
  `DistributePrizes` and `RecalculateLeaderboard` rank through the cache.
- A worker that dies over a snapshot leaves its lock, and the event that is read
  again finds it and skips the snapshot.
- A consumer's name has the process id, so a worker that starts again under
  another one never reads what was pending under the first (`lost` in
  `Scoring`, `missed` in `Snapshots`; in `Knockout` the backfill makes up for it).

*Bracket.*

- `CancelMatch` of the last match of a group publishes nothing; the slots wait
  for the backfill of the next start. A corrected result does not change slots.
- `AutoConfirmBestThirdSlots` is said to skip confirmed slots
  (`tournament_service.go:75`), and overwrites them.

*Groups.*

- `RejectJoin` goes through `RemoveByAdmin`, which touches active rows only: a
  pending request is not rejected.
- `TransferOwnershipRoles` finds the new owner by id and may promote someone who
  has left; `RemoveByAdmin` and `LeaveMembership` leave the role on the row.

*Notifications.*

- A worker that lost its claim may set an entry that is done back to pending,
  or to failed.
- `PredictionDeadlineApproaching` is written per user about one match; while the
  first row waits, the index on pending events skips the second.
- Every failed delivery of a replayed dead letter leaves another dead letter.
- A letter that an administrator writes off while a worker replays it is
  delivered after all (`notification_dlq_repository.go:63` has no condition).

## Not modelled

`components` in `PROJECT.json` gives a reason for each part. In short:

- pure I/O (storage, e-mail, push, migrations, the frontend) and request
  parsing: the 9,300 generated lines of `docs/docs.go`, the handlers, the
  templates, the wiring of `cmd/` and the read-only queries of the repositories
  have no state of their own, and a module of them would only repeat them;
- identity, sessions and authorisation, provided from outside;
- typed configuration, whose values are constants here;
- extra predictions, which run under the same guard as `Scoring`;
- the SSE hub, whose signal is lost or delivered; leader election, which guards
  a purge and a gauge only (the elector never reconnects, and the jobs run
  without one); rate limiters, breaker, semaphore and push digest, which bound
  load and decide nothing that the properties are about.

Within modelled parts: KYC documents and providers, kick-off times, the deletion
of a group, the trimming of a stream, notification preferences and channels.

The mapped definitions stand for about a tenth of the implementation's lines.
What remains is for the most part the code of the first item; the parts with
state and concurrency that are still open are in the plan.

## Plan

In the order of importance; the first nine are done.

1. `Accounts`, `KycGate`, `Deposits` against `Settlement`; proofs.
2. `Withdrawals`, `Kyc`, composed with deposits in `Wallet`; proofs.
3. `Ranking`, `Leaderboard`; proofs.
4. `Prizes`; proofs.
5. `Scoring`; proofs.
6. `Memberships`, `Groups`; proofs.
7. `Outbox`; proofs.
8. `Snapshots`, `Bracket`, `Knockout`; proofs.
9. `Requests`; proofs.
10. Messaging in detail (consumer group, retries, dead letters) as an
    implementation of the delivery that `Scoring` and `Snapshots` assume.
11. Push digest and semaphore: counters with a window and permits with a lease.

No safety property of a passing run is left without a theorem. The next one
would be a refinement: that the consumer group of item 10 implements the
delivery the other modules assume.
