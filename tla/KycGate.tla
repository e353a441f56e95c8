------------------------------ MODULE KycGate -------------------------------
(***************************************************************************)
(* internal/service/kyc_gate.go: the tier-based limits that the services   *)
(* evaluate before they move money.  The gate only reads; whatever it      *)
(* answers may be stale by the time the caller's transaction commits.      *)
(***************************************************************************)
EXTENDS Accounts

CONSTANTS DepositLimit,        \* per-transaction cap, for tiers 1 and 2
          DepositVelocity,     \* rolling 24-hour cap, for tiers 1 and 2
          PayoutLimit,         \* per-request withdrawal cap of tier 2
          WithdrawalVelocity,  \* rolling 24-hour cap, for tiers 1 and 2
          GateRate             \* payment.usd_gtq_rate, in hundredths

ASSUME GateAssumption ==
    /\ DepositLimit \in [1 .. 2 -> Nat]
    /\ DepositVelocity \in [1 .. 2 -> Nat]
    /\ WithdrawalVelocity \in [1 .. 2 -> Nat]
    /\ PayoutLimit \in Nat
    /\ GateRate \in Nat

DepositKinds == {"webhook_recurrente", "webhook_paypal", "bank_transfer"}

ToGTQCents(cents, cur) ==
    IF cur = "USD" THEN (cents * GateRate) \div 100 ELSE cents

\* Tier 0 shares the caps of tier 1; tier 3 has none.
Unlimited(u) == tier[u] = 3
Cap(caps, u) == caps[IF tier[u] < 2 THEN 1 ELSE 2]

CheckDeposit(u, cents, cur) ==
    /\ u \notin deleted
    /\ Unlimited(u) \/ ToGTQCents(cents, cur) <= Cap(DepositLimit, u)

CheckDepositVelocity(u, cents, cur) ==
    /\ u \notin deleted
    /\ \/ Unlimited(u)
       \/ SumRecent(u, DepositKinds) + ToGTQCents(cents, cur)
              <= Cap(DepositVelocity, u)

CheckWithdrawal(u, cents, cur) ==
    /\ u \notin deleted
    /\ tier[u] >= 2
    /\ Unlimited(u) \/ ToGTQCents(cents, cur) <= PayoutLimit

CheckWithdrawalVelocity(u, cents, cur) ==
    /\ u \notin deleted
    /\ \/ Unlimited(u)
       \/ /\ Cap(WithdrawalVelocity, u) # 0
          /\ SumRecent(u, {"withdrawal_deduct"}) + ToGTQCents(cents, cur)
                 <= Cap(WithdrawalVelocity, u)

\* A prize of a user below tier 2 is held in escrow, whatever its amount.
CheckWinFreeze(t) == t < 2
=============================================================================
