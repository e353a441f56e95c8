------------------------------ MODULE Deposits ------------------------------
(***************************************************************************)
(* Money that comes in: payment intents settled by the Recurrente and      *)
(* PayPal webhooks or by an administrator, and bank transfer proofs.       *)
(*                                                                         *)
(*   internal/service/payment_intent_service.go, webhook_payment_service.go*)
(*   internal/service/bank_transfer_service.go                             *)
(*   internal/repository/payment_intent_repository.go,                     *)
(*   bank_transfer_proof_repository.go                                     *)
(*   internal/api/handler/admin_payment_intent_handler.go                  *)
(*                                                                         *)
(* A request that reads the database, decides, and then commits in a       *)
(* second transaction occupies a handler h between the two: req[h] holds   *)
(* what it read.  Handlers interleave freely, and a provider redelivers a  *)
(* webhook as often as it likes, also after the first delivery was applied.*)
(***************************************************************************)
EXTENDS KycGate

CONSTANTS Handlers,        \* concurrent requests
          Intents,         \* payment_intents.id, and their tokens
          IntentUser, IntentCents, IntentCurrency, IntentProvider,
          Captures,        \* PayPal capture ids
          CaptureIntent,   \* the intent whose token a capture carries
          Proofs,          \* bank_transfer_proofs.id
          ProofUser, ProofCents, ProofCurrency,
          Overrides,       \* amounts an admin may credit instead
          FxRate           \* live USD to GTQ buy rate, in hundredths

ASSUME DepositsAssumption ==
    /\ Intents \subseteq Ids /\ Captures \subseteq Ids /\ Proofs \subseteq Ids
    /\ IntentUser \in [Intents -> Users]
    /\ IntentCents \in [Intents -> Nat]
    /\ IntentCurrency \in [Intents -> Currencies]
    /\ IntentProvider \in [Intents -> {"paypal", "recurrente"}]
    /\ CaptureIntent \in [Captures -> Intents]
    /\ ProofUser \in [Proofs -> Users]
    /\ ProofCents \in [Proofs -> Nat]
    /\ ProofCurrency \in [Proofs -> Currencies]
    /\ Overrides \subseteq Nat
    /\ FxRate \in Nat

VARIABLES istatus,   \* payment_intents.status; "none" before the INSERT
          icapture,  \* payment_intents.capture_id
          expired,   \* intents whose expires_at has passed
          old,       \* intents created more than an hour ago
          pstatus,   \* bank_transfer_proofs.status
          req        \* what each handler is doing

deposits == <<istatus, icapture, expired, old, pstatus, req>>
depositVars == <<accounts, deposits>>

IntentStatuses ==
    {"none", "pending", "captured", "rejected", "under_review", "cancelled"}
ProofStatuses == {"none", "pending", "approved", "rejected"}

Idle == [pc |-> "idle"]

\* checked: the KYC gate was evaluated for this delivery.
Resolving == [pc : {"resolve"}, intent : Intents, ref : References,
              checked : BOOLEAN]
Capturing == [pc : {"capture"}, intent : Intents, ref : References,
              checked : BOOLEAN, cents : Nat, unit : Currencies,
              src : Currencies \cup {""}]
Approving == [pc : {"approve"}, proof : Proofs, cents : Nat]

DepositsInit ==
    /\ istatus = [i \in Intents |-> "none"]
    /\ icapture = [i \in Intents |-> NoReference]
    /\ expired = {}
    /\ old = {}
    /\ pstatus = [p \in Proofs |-> "none"]
    /\ req = [h \in Handlers |-> Idle]

Kind(i) == IF IntentProvider[i] = "recurrente" THEN "webhook_recurrente"
                                               ELSE "webhook_paypal"

ConvertUSDToGTQ(cents) == (cents * FxRate) \div 100

-----------------------------------------------------------------------------
(* The life of an intent outside the webhooks.                             *)

InsertIntent(i) ==
    /\ istatus[i] = "none"
    /\ IntentUser[i] \notin deleted
    /\ istatus' = [istatus EXCEPT ![i] = "pending"]
    /\ UNCHANGED <<accounts, icapture, expired, old, pstatus, req>>

\* paymentIntentService.Create, for PayPal.
CreateIntent(i) ==
    /\ IntentProvider[i] = "paypal"
    /\ IntentCents[i] > 0
    /\ InsertIntent(i)

CreateForRecurrente(i) ==
    /\ IntentProvider[i] = "recurrente"
    /\ IntentCents[i] > 0
    /\ InsertIntent(i)

PassExpiry(i) ==
    /\ istatus[i] = "pending" /\ i \notin expired
    /\ expired' = expired \cup {i}
    /\ UNCHANGED <<accounts, istatus, icapture, old, pstatus, req>>

PassHour(i) ==
    /\ istatus[i] = "pending" /\ i \notin old
    /\ old' = old \cup {i}
    /\ UNCHANGED <<accounts, istatus, icapture, expired, pstatus, req>>

CancelByToken(i) ==
    /\ istatus[i] = "pending"
    /\ istatus' = [istatus EXCEPT ![i] = "cancelled"]
    /\ UNCHANGED <<accounts, icapture, expired, old, pstatus, req>>

\* Mutant: the job forgets the PayPal intents.
StaleRecurrente(i) ==
    i \in old /\ istatus[i] = "pending" /\ IntentProvider[i] = "recurrente"

\* Both providers are card providers, so the job looks at every intent.
Stale(i) == i \in old /\ istatus[i] = "pending"

CancelStalePendingCardIntents ==
    /\ \E i \in Intents : Stale(i)
    /\ istatus' = [i \in Intents |->
            IF Stale(i) THEN "cancelled" ELSE istatus[i]]
    /\ UNCHANGED <<accounts, icapture, expired, old, pstatus, req>>

AdminReject(i) ==
    /\ istatus[i] \in {"pending", "under_review"}
    /\ istatus' = [istatus EXCEPT ![i] = "rejected"]
    /\ UNCHANGED <<accounts, icapture, expired, old, pstatus, req>>

\* Mutant: a disputed intent is reopened.
SubmitForPayment(i) ==
    /\ istatus[i] = "rejected"
    /\ istatus' = [istatus EXCEPT ![i] = "pending"]
    /\ UNCHANGED <<accounts, icapture, expired, old, pstatus, req>>

SubmitForReview(i) ==
    /\ istatus[i] = "rejected"
    /\ istatus' = [istatus EXCEPT ![i] = "under_review"]
    /\ UNCHANGED <<accounts, icapture, expired, old, pstatus, req>>

\* Mutant: an intent that a webhook has captured may be credited again.
AnyIntent(i) == istatus[i] # "none"

AdminCreditable(i) == istatus[i] \notin {"none", "captured"}

\* The admin handler converts a USD intent at the live rate, or credits the
\* raw cents when the conversion fails; the transaction locks the intent
\* and refuses only one that is already captured.
AdminCreditExpired(i) ==
    /\ AdminCreditable(i)
    /\ \E converted \in BOOLEAN :
        LET convert == IntentCurrency[i] = "USD" /\ converted
        IN  CreditUser(IntentUser[i],
                       IF convert THEN ConvertUSDToGTQ(IntentCents[i])
                                  ELSE IntentCents[i],
                       Kind(i), <<"payment_intent", i>>, <<"admin", i>>,
                       IF convert THEN "GTQ" ELSE IntentCurrency[i],
                       denom[IntentUser[i]])
    /\ istatus' = [istatus EXCEPT ![i] = "captured"]
    /\ icapture' = [icapture EXCEPT ![i] = <<"admin", i>>]
    /\ UNCHANGED <<expired, old, pstatus, req>>

-----------------------------------------------------------------------------
(* Webhooks.                                                               *)

\* ResolveAndCreditRecurrenteIntent up to CaptureAndCredit.  The gate runs
\* on every delivery, and the reference is the idempotency key.
RecurrenteWebhook(h, i) ==
    /\ req[h] = Idle
    /\ IntentProvider[i] = "recurrente"
    /\ istatus[i] # "none"
    /\ CheckDeposit(IntentUser[i], IntentCents[i], IntentCurrency[i])
    /\ CheckDepositVelocity(IntentUser[i], IntentCents[i], IntentCurrency[i])
    /\ req' = [req EXCEPT ![h] =
            [pc |-> "capture", intent |-> i, ref |-> <<"token", i>>,
             checked |-> TRUE, cents |-> IntentCents[i],
             unit |-> IntentCurrency[i],
             src |-> IF IntentCurrency[i] = "USD" THEN "USD" ELSE ""]]
    /\ UNCHANGED <<accounts, istatus, icapture, expired, old, pstatus>>

\* fetchPendingAndCheckKYC: the gate runs only while the intent is pending.
PayPalWebhook(h, c) ==
    LET i == CaptureIntent[c]
        u == IntentUser[i]
    IN  /\ req[h] = Idle
        /\ IntentProvider[i] = "paypal"
        /\ istatus[i] # "none"
        /\ istatus[i] = "pending" =>
                /\ CheckDeposit(u, IntentCents[i], IntentCurrency[i])
                /\ CheckDepositVelocity(u, IntentCents[i], IntentCurrency[i])
        /\ req' = [req EXCEPT ![h] =
                [pc |-> "resolve", intent |-> i, ref |-> <<"capture", c>>,
                 checked |-> istatus[i] = "pending"]]
        /\ UNCHANGED <<accounts, istatus, icapture, expired, old, pstatus>>

\* resolvePayPalCredit: the balance currency is read here, before the credit,
\* and a failed read counts as GTQ.
ResolvePayPalCredit(h) ==
    LET i == req[h].intent
        Credit(cents, unit, src) ==
            req' = [req EXCEPT ![h] =
                [pc |-> "capture", intent |-> i, ref |-> req[h].ref,
                 checked |-> req[h].checked,
                 cents |-> cents, unit |-> unit, src |-> src]]
    IN  /\ req[h].pc = "resolve"
        /\ \/ /\ IntentCurrency[i] # "USD"
              /\ Credit(IntentCents[i], IntentCurrency[i], "")
           \/ /\ IntentCurrency[i] = "USD"
              /\ IntentUser[i] \notin deleted
              /\ denom[IntentUser[i]] = "USD"
              /\ Credit(IntentCents[i], "USD", "USD")
           \/ /\ IntentCurrency[i] = "USD"
              /\ \/ Credit(ConvertUSDToGTQ(IntentCents[i]), "GTQ", "")
                 \/ Credit(IntentCents[i], "USD", "")
        /\ UNCHANGED <<accounts, istatus, icapture, expired, old, pstatus>>

\* Mutant: captureIntentTx without its status condition.
Unexpired(i) == i \notin expired

Capturable(i) == istatus[i] = "pending" /\ i \notin expired

\* captureIntentTx and creditUserTx, in one transaction.
CaptureAndCredit(h) ==
    LET i == req[h].intent
        u == IntentUser[i]
    IN  /\ req[h].pc = "capture"
        /\ Capturable(i)
        /\ istatus' = [istatus EXCEPT ![i] = "captured"]
        /\ icapture' = [icapture EXCEPT ![i] = req[h].ref]
        /\ CreditUser(u, req[h].cents, Kind(i), <<"payment_intent", i>>,
                      req[h].ref, req[h].unit,
                      IF req[h].src = "" THEN denom[u] ELSE req[h].src)
        /\ req' = [req EXCEPT ![h] = Idle]
        /\ UNCHANGED <<expired, old, pstatus>>

\* resolveCaptureMissTx: already captured, captured by another transaction,
\* expired or closed; or the credit failed and everything rolled back.
CaptureMiss(h) ==
    /\ req[h].pc = "capture"
    /\ ~ /\ Capturable(req[h].intent)
         /\ CanCredit(IntentUser[req[h].intent], req[h].cents, req[h].ref)
    /\ req' = [req EXCEPT ![h] = Idle]
    /\ UNCHANGED <<accounts, istatus, icapture, expired, old, pstatus>>

-----------------------------------------------------------------------------
(* Bank transfers.                                                         *)

UploadProof(p) ==
    /\ pstatus[p] = "none"
    /\ ProofCents[p] > 0
    /\ CheckDeposit(ProofUser[p], ProofCents[p], ProofCurrency[p])
    /\ CheckDepositVelocity(ProofUser[p], ProofCents[p], ProofCurrency[p])
    /\ pstatus' = [pstatus EXCEPT ![p] = "pending"]
    /\ UNCHANGED <<accounts, istatus, icapture, expired, old, req>>

\* ApproveTransfer up to ApproveAndCredit: the proof is loaded whatever its
\* status, and the velocity check reads the ledger.
ApproveTransfer(h, p) ==
    /\ req[h] = Idle
    /\ pstatus[p] # "none"
    /\ \E cents \in {ProofCents[p]} \cup Overrides :
        /\ CheckDepositVelocity(ProofUser[p], cents, ProofCurrency[p])
        /\ req' = [req EXCEPT ![h] =
                        [pc |-> "approve", proof |-> p, cents |-> cents]]
    /\ UNCHANGED <<accounts, istatus, icapture, expired, old, pstatus>>

\* Mutant: ApproveAndCredit without its status condition.
AnyProof(p) == pstatus[p] # "none"

Approvable(p) == pstatus[p] = "pending"

ApproveAndCredit(h) ==
    LET p == req[h].proof
    IN  /\ req[h].pc = "approve"
        /\ Approvable(p)
        /\ pstatus' = [pstatus EXCEPT ![p] = "approved"]
        /\ CreditUser(ProofUser[p], req[h].cents, "bank_transfer",
                      <<"bank_transfer_proof", p>>, NoReference,
                      ProofCurrency[p], denom[ProofUser[p]])
        /\ req' = [req EXCEPT ![h] = Idle]
        /\ UNCHANGED <<istatus, icapture, expired, old>>

\* notFoundOrConflictBankTransfer, or a rolled back credit.
ApproveMiss(h) ==
    /\ req[h].pc = "approve"
    /\ ~ /\ Approvable(req[h].proof)
         /\ CanCredit(ProofUser[req[h].proof], req[h].cents, NoReference)
    /\ req' = [req EXCEPT ![h] = Idle]
    /\ UNCHANGED <<accounts, istatus, icapture, expired, old, pstatus>>

RejectProof(p) ==
    /\ pstatus[p] = "pending"
    /\ pstatus' = [pstatus EXCEPT ![p] = "rejected"]
    /\ UNCHANGED <<accounts, istatus, icapture, expired, old, req>>

\* The process dies, or the request's context times out, before the commit.
Abandon(h) ==
    /\ req[h] # Idle
    /\ req' = [req EXCEPT ![h] = Idle]
    /\ UNCHANGED <<accounts, istatus, icapture, expired, old, pstatus>>

-----------------------------------------------------------------------------

DepositsNext ==
    \/ \E i \in Intents :
        \/ CreateIntent(i) \/ CreateForRecurrente(i)
        \/ PassExpiry(i) \/ PassHour(i)
        \/ CancelByToken(i) \/ AdminReject(i) \/ SubmitForReview(i)
        \/ AdminCreditExpired(i)
    \/ CancelStalePendingCardIntents
    \/ \E p \in Proofs : UploadProof(p) \/ RejectProof(p)
    \/ \E h \in Handlers :
        \/ \E i \in Intents : RecurrenteWebhook(h, i)
        \/ \E c \in Captures : PayPalWebhook(h, c)
        \/ \E p \in Proofs : ApproveTransfer(h, p)
        \/ ResolvePayPalCredit(h) \/ CaptureAndCredit(h) \/ CaptureMiss(h)
        \/ ApproveAndCredit(h) \/ ApproveMiss(h) \/ Abandon(h)

\* What happens to an account without any of the components.
AccountsNext == \E u \in Users : DeleteUser(u) \/ AgeOut(u)

\* The worker runs the cancellation job on a schedule, and time passes.
DepositsFairness ==
    /\ \A i \in Intents : WF_depositVars(PassHour(i))
    /\ WF_depositVars(CancelStalePendingCardIntents)

DepositsStart == AccountsInit /\ DepositsInit

DepositsSpec ==
    /\ DepositsStart
    /\ [][DepositsNext \/ (AccountsNext /\ UNCHANGED deposits)]_depositVars
    /\ DepositsFairness

-----------------------------------------------------------------------------

DepositsTypeOK ==
    /\ AccountsTypeOK
    /\ istatus \in [Intents -> IntentStatuses]
    /\ icapture \in [Intents -> References]
    /\ expired \subseteq Intents
    /\ old \subseteq Intents
    /\ pstatus \in [Proofs -> ProofStatuses]
    /\ req \in [Handlers -> {Idle} \cup Resolving \cup Capturing \cup Approving]

\* However webhooks are duplicated, delayed or raced by an administrator
\* (CaptureAndCredit against AdminCreditExpired), an intent is captured
\* exactly when one ledger row credits its owner for it, and never two; the
\* same for a bank transfer proof that several admins approve.
SettledExactlyOnce ==
    /\ \A i \in Intents :
        IF istatus[i] = "captured"
        THEN OneRowFor(<<"payment_intent", i>>, IntentUser[i])
        ELSE NoRowFor(<<"payment_intent", i>>)
    /\ \A p \in Proofs :
        IF pstatus[p] = "approved"
        THEN OneRowFor(<<"bank_transfer_proof", p>>, ProofUser[p])
        ELSE NoRowFor(<<"bank_transfer_proof", p>>)

\* fetchPendingAndCheckKYC lets a delivery through without the gate when the
\* intent is not pending.  That is no way around the gate, because no intent
\* becomes pending again while such a delivery is under way.
UncheckedCannotCapture ==
    \A h \in Handlers :
        req[h].pc \in {"resolve", "capture"} /\ ~req[h].checked =>
            istatus[req[h].intent] # "pending"

\* A checkout that its user gave up on does not stay open: the job that
\* cancels stale card intents closes every pending intent that neither a
\* webhook nor an administrator has settled.
PendingIntentCloses ==
    \A i \in Intents : istatus[i] = "pending" ~> istatus[i] # "pending"

\* The items of the abstract specification and what they may be worth.  An
\* intent is credited for its own amount or for its value in quetzales.
DepositItems ==
    ({"payment_intent"} \X Intents) \cup ({"bank_transfer_proof"} \X Proofs)
DepositHolder == [x \in DepositItems |->
    IF x[1] = "payment_intent" THEN IntentUser[x[2]] ELSE ProofUser[x[2]]]
DepositWorth == [x \in DepositItems |->
    IF x[1] = "payment_intent"
    THEN {IntentCents[x[2]], ConvertUSDToGTQ(IntentCents[x[2]])}
    ELSE {ProofCents[x[2]]} \cup Overrides]
SettledDeposits ==
    {x \in DepositItems : IF x[1] = "payment_intent"
                          THEN istatus[x[2]] = "captured"
                          ELSE pstatus[x[2]] = "approved"}

Promise == INSTANCE Settlement WITH
    Parties <- Users, Items <- DepositItems, Holder <- DepositHolder,
    Worth <- DepositWorth, settled <- SettledDeposits, funds <- balance

\* Deposits implements Settlement: whatever the webhooks, the redeliveries
\* and the administrators do, a deposit moves its owner's balance at most
\* once, by an amount that it is worth, and is settled for good.
DepositsRefineSettlement == Promise!Spec
=============================================================================
