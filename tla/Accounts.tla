------------------------------ MODULE Accounts ------------------------------
(***************************************************************************)
(* The money columns of the users table and the append-only balance_ledger *)
(* (internal/repository/balance_ledger_repository.go).  Every component    *)
(* that moves money extends this module and moves it through CreditUser    *)
(* and DebitUser, the two conditional UPDATE ... RETURNING statements that *)
(* every money transaction of the repository layer is built from.          *)
(*                                                                         *)
(* A database transaction is one step: each of them takes the row lock of  *)
(* the user before it reads the balance and keeps it until it commits.     *)
(* users.reserved_cents is read by the code and never written, so it is    *)
(* left out: it stays at its default 0.                                    *)
(***************************************************************************)
EXTENDS Integers, Sequences, FiniteSets

LOCAL INSTANCE Functions

CONSTANTS Users,       \* user ids
          Ids,         \* ids of the rows that a ledger row may refer to
          Opening,     \* balance each user starts with, from an old deposit
          StartTiers,  \* KYC tiers that a user may start with
          MaxCents     \* largest value of the int4 column balance_cents

ASSUME AccountsAssumption ==
    /\ MaxCents \in Nat
    /\ Opening \in [Users -> 0 .. MaxCents]
    /\ StartTiers \subseteq 0 .. 3

VARIABLES balance,   \* users.balance_cents
          denom,     \* users.balance_currency
          tier,      \* users.kyc_tier
          deleted,   \* the users whose deleted_at is set
          ledger,    \* balance_ledger, per user in insertion order
          aged       \* per user, how many of the rows are older than 24 hours

accounts == <<balance, denom, tier, deleted, ledger, aged>>

Currencies == {"GTQ", "USD"}

Cents == 0 .. MaxCents

Kinds == {"webhook_recurrente", "webhook_paypal", "bank_transfer",
          "entry_fee", "prize", "withdrawal_deduct"}

\* (ref_type, ref_id): the business row that a ledger row was written for.
Origins == {<<"opening">>} \cup
           ({"payment_intent", "bank_transfer_proof", "withdrawal_request",
             "group_membership", "quiniela", "kyc_unfreeze"} \X Ids)

\* The unique idempotency key of a ledger row, or SQL NULL.
NoReference == <<"null">>
References  == {NoReference} \cup ({"token", "capture", "admin"} \X Ids)

\* unit (what the cents are worth) and denom (the currency the balance is
\* read in once the row is committed) are not columns: they record the
\* meaning of the row for the properties.
Rows == [delta : Int, after : Cents, kind : Kinds, origin : Origins,
         reference : References, unit : Currencies, denom : Currencies]

-----------------------------------------------------------------------------

\* An account that received Opening[u] by bank transfer more than a day ago.
OpeningRow(u) ==
    [delta |-> Opening[u], after |-> Opening[u], kind |-> "bank_transfer",
     origin |-> <<"opening">>, reference |-> NoReference,
     unit |-> "GTQ", denom |-> "GTQ"]

AccountsInit ==
    /\ balance = Opening
    /\ denom = [u \in Users |-> "GTQ"]
    /\ tier \in [Users -> StartTiers]
    /\ deleted = {}
    /\ ledger = [u \in Users |->
                    IF Opening[u] = 0 THEN <<>> ELSE <<OpeningRow(u)>>]
    /\ aged = [u \in Users |-> IF Opening[u] = 0 THEN 0 ELSE 1]

\* The partial unique index balance_ledger_reference_uniq.
FreshReference(reference) ==
    \/ reference = NoReference
    \/ \A u \in Users : \A k \in DOMAIN ledger[u] :
            ledger[u][k].reference # reference

-----------------------------------------------------------------------------

\* Mutant: balance_after is the balance that was read before the update.
LedgerRowStale(u, cents, kind, origin, reference, unit, cur) ==
    [delta |-> cents, after |-> balance[u], kind |-> kind, origin |-> origin,
     reference |-> reference, unit |-> unit, denom |-> cur]

\* The row that insertLedgerTx inserts, with the balance_after that the
\* UPDATE of the caller returned.
LedgerRow(u, cents, kind, origin, reference, unit, cur) ==
    [delta |-> cents, after |-> balance[u] + cents, kind |-> kind,
     origin |-> origin, reference |-> reference, unit |-> unit, denom |-> cur]

\* Mutant: the sum is not checked against the width of the column.
CanCreditUnbounded(u, cents, reference) ==
    u \notin deleted /\ FreshReference(reference)

\* UPDATE users SET balance_cents = balance_cents + $2 WHERE deleted_at IS
\* NULL, and the ledger row.  cur is the balance_currency after the update.
\* An overflow of the int4 column or a duplicate reference aborts.
CanCredit(u, cents, reference) ==
    /\ u \notin deleted
    /\ balance[u] + cents <= MaxCents
    /\ FreshReference(reference)

CreditUser(u, cents, kind, origin, reference, unit, cur) ==
    /\ CanCredit(u, cents, reference)
    /\ balance' = [balance EXCEPT ![u] = @ + cents]
    /\ denom' = [denom EXCEPT ![u] = cur]
    /\ ledger' = [ledger EXCEPT ![u] =
            Append(@, LedgerRow(u, cents, kind, origin, reference, unit, cur))]
    /\ UNCHANGED <<tier, deleted, aged>>

\* Several credits in one transaction, share[u] to each u; one that fails
\* takes the others with it.
CreditAll(share, kind, origin) ==
    /\ \A u \in DOMAIN share : CanCredit(u, share[u], NoReference)
    /\ balance' = [u \in Users |->
            IF u \in DOMAIN share THEN balance[u] + share[u] ELSE balance[u]]
    /\ ledger' = [u \in Users |->
            IF u \in DOMAIN share
            THEN Append(ledger[u],
                        LedgerRow(u, share[u], kind, origin, NoReference,
                                  "GTQ", denom[u]))
            ELSE ledger[u]]
    /\ UNCHANGED <<denom, tier, deleted, aged>>

\* Mutant: the update takes what is not there.
CanDebitOverdrawn(u, cents) == u \notin deleted

\* UPDATE users SET balance_cents = balance_cents - $2 WHERE deleted_at IS
\* NULL AND (balance_cents - reserved_cents) >= $2, and the ledger row.
CanDebit(u, cents) ==
    /\ u \notin deleted
    /\ balance[u] >= cents

DebitUser(u, cents, kind, origin, unit) ==
    /\ CanDebit(u, cents)
    /\ balance' = [balance EXCEPT ![u] = @ - cents]
    /\ ledger' = [ledger EXCEPT ![u] =
            Append(@, LedgerRow(u, -cents, kind, origin, NoReference, unit,
                                denom[u]))]
    /\ UNCHANGED <<denom, tier, deleted, aged>>

\* UserRepository.Delete: a soft delete, whatever the balance is.
DeleteUser(u) ==
    /\ u \notin deleted
    /\ deleted' = deleted \cup {u}
    /\ UNCHANGED <<balance, denom, tier, ledger, aged>>

\* Time: the oldest row of u that is still inside the window leaves it.
AgeOut(u) ==
    /\ aged[u] < Len(ledger[u])
    /\ aged' = [aged EXCEPT ![u] = @ + 1]
    /\ UNCHANGED <<balance, denom, tier, deleted, ledger>>

\* SumTransactionsByUserAndPeriod over the last 24 hours.
SumRecent(u, kinds) ==
    SumFunctionOnSet(
        [k \in DOMAIN ledger[u] |->
            IF ledger[u][k].delta < 0 THEN -ledger[u][k].delta
                                      ELSE ledger[u][k].delta],
        {k \in DOMAIN ledger[u] :
            k > aged[u] /\ ledger[u][k].kind \in kinds})

-----------------------------------------------------------------------------

AccountsTypeOK ==
    /\ balance \in [Users -> Cents]
    /\ denom \in [Users -> Currencies]
    /\ tier \in [Users -> 0 .. 3]
    /\ deleted \subseteq Users
    /\ ledger \in [Users -> Seq(Rows)]
    /\ aged \in [Users -> Nat]

\* The ledger holds nothing for origin, or exactly one row, of u.
NoRowFor(origin) ==
    \A v \in Users : \A j \in DOMAIN ledger[v] : ledger[v][j].origin # origin
OneRowFor(origin, u) ==
    \E k \in DOMAIN ledger[u] :
        \A v \in Users : \A j \in DOMAIN ledger[v] :
            ledger[v][j].origin = origin <=> v = u /\ j = k

\* Every row starts from the balance_after of the row before it, and the
\* last one leaves the balance b.
Chained(rows, b) ==
    /\ \A k \in DOMAIN rows :
        rows[k].after = rows[k].delta + (IF k = 1 THEN 0 ELSE rows[k - 1].after)
    /\ b = IF rows = <<>> THEN 0 ELSE rows[Len(rows)].after

\* The stored balance and the ledger tell the same story.  A money
\* transaction that updates one of the two and not the other, or that writes
\* a balance it read before another commit, breaks the chain.
LedgerChain == \A u \in Users : Chained(ledger[u], balance[u])
=============================================================================
