---------------------------- MODULE Withdrawals -----------------------------
(***************************************************************************)
(* Money that goes out: internal/service/withdrawal_service.go and         *)
(* internal/repository/withdrawal_request_repository.go.                   *)
(*                                                                         *)
(* Create checks the KYC gate and the limits first and inserts the row in  *)
(* a transaction of its own; the balance moves only when an administrator  *)
(* approves.  Each w in Withdrawals is one call of Create.                 *)
(***************************************************************************)
EXTENDS KycGate

CONSTANTS Withdrawals,
          WithdrawalUser, WithdrawalCents, WithdrawalCurrency,
          WithdrawalMin, WithdrawalMax, WithdrawalMinUSD

ASSUME WithdrawalsAssumption ==
    /\ Withdrawals \subseteq Ids
    /\ WithdrawalUser \in [Withdrawals -> Users]
    /\ WithdrawalCents \in [Withdrawals -> Nat]
    /\ WithdrawalCurrency \in [Withdrawals -> Currencies]
    /\ WithdrawalMin \in Nat /\ WithdrawalMax \in Nat
    /\ WithdrawalMinUSD \in Nat

VARIABLE wstatus  \* withdrawal_requests.status; before the INSERT, how far
                  \* Create has got: "none", "checked" (limits and gate
                  \* passed), or "refused"

withdrawals == <<wstatus>>
withdrawalVars == <<accounts, withdrawals>>

WithdrawalStatuses == {"none", "checked", "refused",
                       "pending", "approved", "rejected", "processed"}

WithdrawalsInit == wstatus = [w \in Withdrawals |-> "none"]

\* gtq_reserved_cents: what the request will cost, whatever its currency.
GTQReservedCents(w) == ToGTQCents(WithdrawalCents[w], WithdrawalCurrency[w])

WithinLimits(w) ==
    IF WithdrawalCurrency[w] = "USD"
    THEN WithdrawalCents[w] >= WithdrawalMinUSD
    ELSE WithdrawalCents[w] \in WithdrawalMin .. WithdrawalMax

-----------------------------------------------------------------------------

\* withdrawalService.Create up to the repository call.
CheckRequest(w) ==
    LET u == WithdrawalUser[w]
    IN  /\ wstatus[w] = "none"
        /\ CheckWithdrawal(u, WithdrawalCents[w], WithdrawalCurrency[w])
        /\ CheckWithdrawalVelocity(u, WithdrawalCents[w],
                                   WithdrawalCurrency[w])
        /\ WithinLimits(w)
        /\ wstatus' = [wstatus EXCEPT ![w] = "checked"]
        /\ UNCHANGED accounts

\* Mutant: the index does not cover approved requests.
NonePending(u) ==
    \A v \in Withdrawals : WithdrawalUser[v] = u => wstatus[v] # "pending"

\* The partial unique index withdrawal_requests_one_pending_per_user.
NoOpenRequest(u) ==
    \A v \in Withdrawals :
        WithdrawalUser[v] = u => wstatus[v] \notin {"pending", "approved"}

\* WithdrawalRequestRepository.Create.
InsertRequest(w) ==
    LET u == WithdrawalUser[w]
    IN  /\ wstatus[w] = "checked"
        /\ wstatus' = [wstatus EXCEPT ![w] =
                IF CanDebit(u, GTQReservedCents(w)) /\ NoOpenRequest(u)
                THEN "pending" ELSE "refused"]
        /\ UNCHANGED accounts

\* Mutant: the review does not ask whether the request is still pending.
NotProcessed(w) == wstatus[w] \in {"pending", "approved"}

Reviewable(w) == wstatus[w] = "pending"

\* A request that is already approved is returned as it is, and an
\* insufficient balance rolls the approval back.
ApproveAndDebit(w) ==
    /\ Reviewable(w)
    /\ DebitUser(WithdrawalUser[w], GTQReservedCents(w), "withdrawal_deduct",
                 <<"withdrawal_request", w>>, "GTQ")
    /\ wstatus' = [wstatus EXCEPT ![w] = "approved"]

RejectWithdrawal(w) ==
    /\ Reviewable(w)
    /\ wstatus' = [wstatus EXCEPT ![w] = "rejected"]
    /\ UNCHANGED accounts

\* Mutant: a payout may be marked before it was approved.
MarkAnyProcessed(w) ==
    /\ wstatus[w] \in {"pending", "approved"}
    /\ wstatus' = [wstatus EXCEPT ![w] = "processed"]
    /\ UNCHANGED accounts

MarkProcessed(w) ==
    /\ wstatus[w] = "approved"
    /\ wstatus' = [wstatus EXCEPT ![w] = "processed"]
    /\ UNCHANGED accounts

WithdrawalsNext ==
    \E w \in Withdrawals :
        \/ CheckRequest(w) \/ InsertRequest(w)
        \/ ApproveAndDebit(w) \/ RejectWithdrawal(w) \/ MarkProcessed(w)

-----------------------------------------------------------------------------

WithdrawalsTypeOK == wstatus \in [Withdrawals -> WithdrawalStatuses]

Debited(w) == wstatus[w] \in {"approved", "processed"}

\* A request that an administrator has approved, and no other, has taken its
\* amount off the balance, exactly once: whatever order ApproveAndDebit,
\* Reject and MarkProcessed are called in, by however many administrators.
PaidOutExactlyOnce ==
    \A w \in Withdrawals :
        IF Debited(w)
        THEN OneRowFor(<<"withdrawal_request", w>>, WithdrawalUser[w])
        ELSE NoRowFor(<<"withdrawal_request", w>>)

\* Two requests of a user are never open together, although Create checks
\* the gate before the transaction that inserts the row.
OneOpenRequest ==
    \A v, w \in Withdrawals :
        /\ WithdrawalUser[v] = WithdrawalUser[w]
        /\ {wstatus[v], wstatus[w]} \subseteq {"pending", "approved"}
        => v = w
=============================================================================
