---------------------------- MODULE WalletProofs ----------------------------
(***************************************************************************)
(* Deposits for every set of users, intents, captures, proofs and          *)
(* concurrent requests, and then deposits, payouts and reviews together.   *)
(* Each lemma of the first part is about one step of DepositsNext, so that *)
(* it carries over to the composition: a payout writes ledger rows of its  *)
(* own origin only.  What is new in the second part is that a payout is    *)
(* debited once, that one request of a user is open, and that the two      *)
(* copies of a tier agree.  The third part is about the keys that guard    *)
(* the requests.                                                           *)
(***************************************************************************)
EXTENDS Wallet, Requests, AccountsProofs

\* What the lemmas take from the constants.
DepositsConstants == AccountsAssumption /\ GateAssumption /\ DepositsAssumption

\* The names that a money transaction of a deposit writes into the ledger.
LEMMA DepositNames ==
    ASSUME DepositsAssumption
    PROVE  /\ \A i \in Intents :
                /\ Kind(i) \in Kinds
                /\ <<"payment_intent", i>> \in Origins
                /\ <<"token", i>> \in References
                /\ <<"admin", i>> \in References
           /\ \A c \in Captures : <<"capture", c>> \in References
           /\ \A p \in Proofs : <<"bank_transfer_proof", p>> \in Origins
BY DEF DepositsAssumption, Kind, Kinds, Origins, References

\* Converting an amount at the live rate gives an amount.
LEMMA ConvertType ==
    ASSUME DepositsAssumption, NEW cents \in Nat
    PROVE  ConvertUSDToGTQ(cents) \in Nat
<1>1. cents * FxRate \in Nat
  BY DEF DepositsAssumption
<1> QED
  BY <1>1 DEF ConvertUSDToGTQ

\* The program counter of a request tells what the request holds.
LEMMA RequestCases ==
    ASSUME DepositsTypeOK, NEW h \in Handlers
    PROVE  /\ req[h].pc = "resolve" => req[h] \in Resolving
           /\ req[h].pc = "capture" => req[h] \in Capturing
           /\ req[h].pc = "approve" => req[h] \in Approving
           /\ req[h] # Idle =>
                req[h] \in Resolving \cup Capturing \cup Approving
<1>1. req[h] \in {Idle} \cup Resolving \cup Capturing \cup Approving
  BY DEF DepositsTypeOK
<1>2. Idle.pc = "idle"
  BY DEF Idle
<1>3. \A r \in Resolving : r.pc = "resolve"
  BY DEF Resolving
<1>4. \A r \in Capturing : r.pc = "capture"
  BY DEF Capturing
<1>5. \A r \in Approving : r.pc = "approve"
  BY DEF Approving
<1> QED
  BY <1>1, <1>2, <1>3, <1>4, <1>5

-----------------------------------------------------------------------------
(* The inductive invariant.                                                *)

\* A request that is about to credit holds an amount that its deposit is
\* worth: what makes the invariant inductive, because the amount is computed
\* before the transaction that credits it.
RequestsHoldWorth ==
    \A h \in Handlers :
        /\ req[h].pc = "capture" =>
                req[h].cents \in DepositWorth[<<"payment_intent", req[h].intent>>]
        /\ req[h].pc = "approve" =>
                req[h].cents \in DepositWorth[<<"bank_transfer_proof", req[h].proof>>]

\* A webhook that is under way found its intent in the table: without this
\* an intent could be created, and be pending, under a request that did not
\* see it pending.
RequestsFoundIntent ==
    \A h \in Handlers :
        req[h].pc \in {"resolve", "capture"} => istatus[req[h].intent] # "none"

DepositsInv ==
    /\ DepositsTypeOK
    /\ LedgerChain
    /\ RequestsHoldWorth
    /\ RequestsFoundIntent
    /\ SettledExactlyOnce
    /\ UncheckedCannotCapture

(* What a step of DepositsNext does to the money, in three cases.          *)

\* Nothing is settled.
QuietDeposit ==
    /\ UNCHANGED accounts
    /\ \A i \in Intents : istatus'[i] = "captured" <=> istatus[i] = "captured"
    /\ \A p \in Proofs : pstatus'[p] = "approved" <=> pstatus[p] = "approved"

\* An intent is captured, by a webhook or by an administrator.
IntentSettled(i) ==
    /\ istatus[i] # "captured"
    /\ istatus' = [istatus EXCEPT ![i] = "captured"]
    /\ UNCHANGED pstatus
    /\ \E cents \in DepositWorth[<<"payment_intent", i>>],
          reference \in References, unit \in Currencies, cur \in Currencies :
            CreditUser(IntentUser[i], cents, Kind(i), <<"payment_intent", i>>,
                       reference, unit, cur)

\* A bank transfer is approved.
ProofSettled(p) ==
    /\ pstatus[p] # "approved"
    /\ pstatus' = [pstatus EXCEPT ![p] = "approved"]
    /\ UNCHANGED istatus
    /\ \E cents \in DepositWorth[<<"bank_transfer_proof", p>>],
          unit \in Currencies, cur \in Currencies :
            CreditUser(ProofUser[p], cents, "bank_transfer",
                       <<"bank_transfer_proof", p>>, NoReference, unit, cur)

\* What a deposit is worth, spelled out.
LEMMA WorthOf ==
    ASSUME DepositsAssumption
    PROVE  /\ \A i \in Intents :
                /\ DepositWorth[<<"payment_intent", i>>]
                        = {IntentCents[i], ConvertUSDToGTQ(IntentCents[i])}
                /\ DepositWorth[<<"payment_intent", i>>] \subseteq Nat
           /\ \A p \in Proofs :
                /\ DepositWorth[<<"bank_transfer_proof", p>>]
                        = {ProofCents[p]} \cup Overrides
                /\ DepositWorth[<<"bank_transfer_proof", p>>] \subseteq Nat
<1>1. ASSUME NEW i \in Intents
      PROVE  /\ DepositWorth[<<"payment_intent", i>>]
                    = {IntentCents[i], ConvertUSDToGTQ(IntentCents[i])}
             /\ DepositWorth[<<"payment_intent", i>>] \subseteq Nat
  <2>1. <<"payment_intent", i>> \in DepositItems
    BY DEF DepositItems
  <2>2. IntentCents[i] \in Nat /\ ConvertUSDToGTQ(IntentCents[i]) \in Nat
    BY ConvertType DEF DepositsAssumption
  <2> QED
    BY <2>1, <2>2 DEF DepositWorth
<1>2. ASSUME NEW p \in Proofs
      PROVE  /\ DepositWorth[<<"bank_transfer_proof", p>>]
                    = {ProofCents[p]} \cup Overrides
             /\ DepositWorth[<<"bank_transfer_proof", p>>] \subseteq Nat
  <2>1. <<"bank_transfer_proof", p>> \in DepositItems
    BY DEF DepositItems
  <2> QED
    BY <2>1 DEF DepositWorth, DepositsAssumption
<1> QED
  BY <1>1, <1>2

\* An administrator's credit settles the intent, for its own amount or for
\* its value in quetzales.
LEMMA AdminCreditSettles ==
    ASSUME DepositsConstants, DepositsTypeOK, NEW i \in Intents,
           AdminCreditExpired(i)
    PROVE  IntentSettled(i)
<1>1. PICK converted \in BOOLEAN :
        LET convert == IntentCurrency[i] = "USD" /\ converted
        IN  CreditUser(IntentUser[i],
                       IF convert THEN ConvertUSDToGTQ(IntentCents[i])
                                  ELSE IntentCents[i],
                       Kind(i), <<"payment_intent", i>>, <<"admin", i>>,
                       IF convert THEN "GTQ" ELSE IntentCurrency[i],
                       denom[IntentUser[i]])
  BY DEF AdminCreditExpired
<1> DEFINE convert == IntentCurrency[i] = "USD" /\ converted
           cents == IF convert THEN ConvertUSDToGTQ(IntentCents[i])
                               ELSE IntentCents[i]
           unit == IF convert THEN "GTQ" ELSE IntentCurrency[i]
<1>2. /\ denom[IntentUser[i]] \in Currencies
      /\ unit \in Currencies
      /\ <<"admin", i>> \in References
  BY DepositNames DEF DepositsConstants, DepositsAssumption, DepositsTypeOK,
                      AccountsTypeOK, Currencies
<1>3. cents \in DepositWorth[<<"payment_intent", i>>]
  BY WorthOf DEF DepositsConstants
<1>4. /\ istatus[i] # "captured"
      /\ istatus' = [istatus EXCEPT ![i] = "captured"]
      /\ UNCHANGED pstatus
  BY DEF AdminCreditExpired, AdminCreditable
<1>5. CreditUser(IntentUser[i], cents, Kind(i), <<"payment_intent", i>>,
                 <<"admin", i>>, unit, denom[IntentUser[i]])
  BY <1>1
<1> HIDE DEF cents, unit
<1> QED
  BY <1>2, <1>3, <1>4, <1>5 DEF IntentSettled

\* The transaction behind a webhook settles the intent for the amount that
\* the request computed.
LEMMA CaptureSettles ==
    ASSUME DepositsConstants, DepositsTypeOK, RequestsHoldWorth,
           NEW h \in Handlers, CaptureAndCredit(h)
    PROVE  req[h].intent \in Intents /\ IntentSettled(req[h].intent)
<1>1. req[h].pc = "capture"
  BY DEF CaptureAndCredit
<1>2. req[h] \in Capturing
  BY <1>1, RequestCases
<1> DEFINE i == req[h].intent
           cur == IF req[h].src = "" THEN denom[IntentUser[i]] ELSE req[h].src
<1>3. /\ i \in Intents /\ req[h].ref \in References
      /\ req[h].unit \in Currencies
      /\ req[h].src \in Currencies \cup {""}
  BY <1>2 DEF Capturing
<1>4. cur \in Currencies
  BY <1>3 DEF DepositsTypeOK, AccountsTypeOK, DepositsConstants,
              DepositsAssumption
<1>5. req[h].cents \in DepositWorth[<<"payment_intent", i>>]
  BY <1>1 DEF RequestsHoldWorth
<1>6. /\ istatus[i] # "captured"
      /\ istatus' = [istatus EXCEPT ![i] = "captured"]
      /\ UNCHANGED pstatus
      /\ CreditUser(IntentUser[i], req[h].cents, Kind(i),
                    <<"payment_intent", i>>, req[h].ref, req[h].unit, cur)
  BY DEF CaptureAndCredit, Capturable
<1> HIDE DEF cur
<1> QED
  BY <1>3, <1>4, <1>5, <1>6 DEF IntentSettled

\* The transaction behind an approval settles the proof.
LEMMA ApprovalSettles ==
    ASSUME DepositsConstants, DepositsTypeOK, RequestsHoldWorth,
           NEW h \in Handlers, ApproveAndCredit(h)
    PROVE  req[h].proof \in Proofs /\ ProofSettled(req[h].proof)
<1>1. req[h].pc = "approve"
  BY DEF ApproveAndCredit
<1>2. req[h] \in Approving
  BY <1>1, RequestCases
<1> DEFINE p == req[h].proof
<1>3. p \in Proofs
  BY <1>2 DEF Approving
<1>4. ProofCurrency[p] \in Currencies /\ denom[ProofUser[p]] \in Currencies
  BY <1>3 DEF DepositsTypeOK, AccountsTypeOK, DepositsConstants,
              DepositsAssumption
<1>5. req[h].cents \in DepositWorth[<<"bank_transfer_proof", p>>]
  BY <1>1 DEF RequestsHoldWorth
<1>6. /\ pstatus[p] # "approved"
      /\ pstatus' = [pstatus EXCEPT ![p] = "approved"]
      /\ UNCHANGED istatus
      /\ CreditUser(ProofUser[p], req[h].cents, "bank_transfer",
                    <<"bank_transfer_proof", p>>, NoReference,
                    ProofCurrency[p], denom[ProofUser[p]])
  BY DEF ApproveAndCredit, Approvable
<1> QED
  BY <1>3, <1>4, <1>5, <1>6 DEF ProofSettled

\* Every step of DepositsNext settles nothing, one intent or one proof.
LEMMA DepositsStepCases ==
    ASSUME DepositsConstants, DepositsTypeOK, RequestsHoldWorth, DepositsNext
    PROVE  \/ QuietDeposit
           \/ \E i \in Intents : IntentSettled(i)
           \/ \E p \in Proofs : ProofSettled(p)
<1>1. ASSUME NEW i \in Intents,
             \/ CreateIntent(i) \/ CreateForRecurrente(i)
             \/ PassExpiry(i) \/ PassHour(i)
             \/ CancelByToken(i) \/ AdminReject(i) \/ SubmitForReview(i)
      PROVE  QuietDeposit
  BY <1>1 DEF CreateIntent, CreateForRecurrente, InsertIntent, PassExpiry,
              PassHour, CancelByToken, AdminReject, SubmitForReview,
              QuietDeposit, DepositsTypeOK
<1>2. ASSUME CancelStalePendingCardIntents
      PROVE  QuietDeposit
  BY <1>2 DEF CancelStalePendingCardIntents, Stale, QuietDeposit,
              DepositsTypeOK
<1>3. ASSUME NEW p \in Proofs, UploadProof(p) \/ RejectProof(p)
      PROVE  QuietDeposit
  BY <1>3 DEF UploadProof, RejectProof, QuietDeposit, DepositsTypeOK
<1>4. ASSUME NEW h \in Handlers,
             \/ \E i \in Intents : RecurrenteWebhook(h, i)
             \/ \E c \in Captures : PayPalWebhook(h, c)
             \/ \E p \in Proofs : ApproveTransfer(h, p)
             \/ ResolvePayPalCredit(h) \/ CaptureMiss(h)
             \/ ApproveMiss(h) \/ Abandon(h)
      PROVE  QuietDeposit
  <2>1. UNCHANGED <<accounts, istatus, pstatus>>
    BY <1>4 DEF RecurrenteWebhook, PayPalWebhook, ApproveTransfer,
                ResolvePayPalCredit, CaptureMiss, ApproveMiss, Abandon
  <2> QED
    BY <2>1 DEF QuietDeposit
<1> QED
  BY <1>1, <1>2, <1>3, <1>4, AdminCreditSettles, CaptureSettles,
     ApprovalSettles DEF DepositsNext

-----------------------------------------------------------------------------
(* One lemma per conjunct of the invariant.                                *)

\* A settlement keeps the accounts well formed and in step.
LEMMA DepositsKeepAccounts ==
    ASSUME DepositsConstants, DepositsTypeOK, LedgerChain, RequestsHoldWorth,
           DepositsNext
    PROVE  AccountsTypeOK' /\ LedgerChain'
<1> USE DEF DepositsConstants
<1>1. AccountsTypeOK
  BY DEF DepositsTypeOK
<1>2. CASE QuietDeposit
  BY <1>1, <1>2 DEF QuietDeposit, accounts, AccountsTypeOK, LedgerChain
<1>3. ASSUME NEW i \in Intents, IntentSettled(i)
      PROVE  AccountsTypeOK' /\ LedgerChain'
  <2>1. PICK cents \in DepositWorth[<<"payment_intent", i>>],
             reference \in References, unit \in Currencies,
             cur \in Currencies :
            CreditUser(IntentUser[i], cents, Kind(i), <<"payment_intent", i>>,
                       reference, unit, cur)
    BY <1>3 DEF IntentSettled
  <2>2. /\ cents \in Nat /\ IntentUser[i] \in Users
        /\ Kind(i) \in Kinds /\ <<"payment_intent", i>> \in Origins
    BY WorthOf, DepositNames DEF DepositsAssumption
  <2> QED
    BY <1>1, <2>1, <2>2, CreditUserType, CreditUserChain
<1>4. ASSUME NEW p \in Proofs, ProofSettled(p)
      PROVE  AccountsTypeOK' /\ LedgerChain'
  <2>1. PICK cents \in DepositWorth[<<"bank_transfer_proof", p>>],
             unit \in Currencies, cur \in Currencies :
            CreditUser(ProofUser[p], cents, "bank_transfer",
                       <<"bank_transfer_proof", p>>, NoReference, unit, cur)
    BY <1>4 DEF ProofSettled
  <2>2. /\ cents \in Nat /\ ProofUser[p] \in Users
        /\ "bank_transfer" \in Kinds /\ NoReference \in References
        /\ <<"bank_transfer_proof", p>> \in Origins
    BY WorthOf, DepositNames DEF DepositsAssumption, Kinds, References
  <2> QED
    BY <1>1, <2>1, <2>2, CreditUserType, CreditUserChain
<1> QED
  BY <1>2, <1>3, <1>4, DepositsStepCases

\* Settling one deposit writes its one row and no row of another deposit.
LEMMA DepositsKeepSettled ==
    ASSUME DepositsConstants, DepositsTypeOK, RequestsHoldWorth,
           SettledExactlyOnce, DepositsNext
    PROVE  SettledExactlyOnce'
<1> USE DEF DepositsConstants
<1>1. AccountsTypeOK
  BY DEF DepositsTypeOK
<1>2. CASE QuietDeposit
  <2>1. UNCHANGED ledger
    BY <1>2 DEF QuietDeposit, accounts
  <2>2. \A x : /\ NoRowFor(x) <=> NoRowFor(x)'
               /\ \A u \in Users : OneRowFor(x, u) <=> OneRowFor(x, u)'
    BY <2>1 DEF NoRowFor, OneRowFor
  <2> QED
    BY <1>2, <2>2 DEF QuietDeposit, SettledExactlyOnce, DepositsAssumption
<1>3. ASSUME NEW i \in Intents, IntentSettled(i)
      PROVE  SettledExactlyOnce'
  <2>1. PICK cents \in DepositWorth[<<"payment_intent", i>>],
             reference \in References, unit \in Currencies,
             cur \in Currencies :
            CreditUser(IntentUser[i], cents, Kind(i), <<"payment_intent", i>>,
                       reference, unit, cur)
    BY <1>3 DEF IntentSettled
  <2>2. IntentUser[i] \in Users
    BY DEF DepositsAssumption
  <2>3. /\ NoRowFor(<<"payment_intent", i>>) =>
               OneRowFor(<<"payment_intent", i>>, IntentUser[i])'
        /\ \A x : x # <<"payment_intent", i>> /\ NoRowFor(x) => NoRowFor(x)'
        /\ \A x : \A v \in Users :
               x # <<"payment_intent", i>> /\ OneRowFor(x, v) =>
                    OneRowFor(x, v)'
    BY <1>1, <2>1, <2>2, CreditUserOrigins
  <2>4. /\ istatus[i] # "captured" /\ istatus'[i] = "captured"
        /\ \A j \in Intents : j # i => istatus'[j] = istatus[j]
        /\ pstatus' = pstatus
    BY <1>3 DEF IntentSettled, DepositsTypeOK
  <2>5. ASSUME NEW j \in Intents
        PROVE  IF istatus'[j] = "captured"
               THEN OneRowFor(<<"payment_intent", j>>, IntentUser[j])'
               ELSE NoRowFor(<<"payment_intent", j>>)'
    <3>1. CASE j = i
      BY <2>3, <2>4, <3>1 DEF SettledExactlyOnce
    <3>2. CASE j # i
      <4>1. <<"payment_intent", j>> # <<"payment_intent", i>>
        BY <3>2
      <4>2. IntentUser[j] \in Users
        BY DEF DepositsAssumption
      <4> QED
        BY <2>3, <2>4, <3>2, <4>1, <4>2 DEF SettledExactlyOnce
    <3> QED
      BY <3>1, <3>2
  <2>6. ASSUME NEW q \in Proofs
        PROVE  IF pstatus'[q] = "approved"
               THEN OneRowFor(<<"bank_transfer_proof", q>>, ProofUser[q])'
               ELSE NoRowFor(<<"bank_transfer_proof", q>>)'
    <3>1. <<"bank_transfer_proof", q>> # <<"payment_intent", i>>
      OBVIOUS
    <3>2. ProofUser[q] \in Users
      BY DEF DepositsAssumption
    <3> QED
      BY <2>3, <2>4, <3>1, <3>2 DEF SettledExactlyOnce
  <2> QED
    BY <2>5, <2>6 DEF SettledExactlyOnce
<1>4. ASSUME NEW p \in Proofs, ProofSettled(p)
      PROVE  SettledExactlyOnce'
  <2>1. PICK cents \in DepositWorth[<<"bank_transfer_proof", p>>],
             unit \in Currencies, cur \in Currencies :
            CreditUser(ProofUser[p], cents, "bank_transfer",
                       <<"bank_transfer_proof", p>>, NoReference, unit, cur)
    BY <1>4 DEF ProofSettled
  <2>2. ProofUser[p] \in Users
    BY DEF DepositsAssumption
  <2>3. /\ NoRowFor(<<"bank_transfer_proof", p>>) =>
               OneRowFor(<<"bank_transfer_proof", p>>, ProofUser[p])'
        /\ \A x : x # <<"bank_transfer_proof", p>> /\ NoRowFor(x) =>
                NoRowFor(x)'
        /\ \A x : \A v \in Users :
               x # <<"bank_transfer_proof", p>> /\ OneRowFor(x, v) =>
                    OneRowFor(x, v)'
    BY <1>1, <2>1, <2>2, CreditUserOrigins
  <2>4. /\ pstatus[p] # "approved" /\ pstatus'[p] = "approved"
        /\ \A q \in Proofs : q # p => pstatus'[q] = pstatus[q]
        /\ istatus' = istatus
    BY <1>4 DEF ProofSettled, DepositsTypeOK
  <2>5. ASSUME NEW q \in Proofs
        PROVE  IF pstatus'[q] = "approved"
               THEN OneRowFor(<<"bank_transfer_proof", q>>, ProofUser[q])'
               ELSE NoRowFor(<<"bank_transfer_proof", q>>)'
    <3>1. CASE q = p
      BY <2>3, <2>4, <3>1 DEF SettledExactlyOnce
    <3>2. CASE q # p
      <4>1. <<"bank_transfer_proof", q>> # <<"bank_transfer_proof", p>>
        BY <3>2
      <4>2. ProofUser[q] \in Users
        BY DEF DepositsAssumption
      <4> QED
        BY <2>3, <2>4, <3>2, <4>1, <4>2 DEF SettledExactlyOnce
    <3> QED
      BY <3>1, <3>2
  <2>6. ASSUME NEW j \in Intents
        PROVE  IF istatus'[j] = "captured"
               THEN OneRowFor(<<"payment_intent", j>>, IntentUser[j])'
               ELSE NoRowFor(<<"payment_intent", j>>)'
    <3>1. <<"payment_intent", j>> # <<"bank_transfer_proof", p>>
      OBVIOUS
    <3>2. IntentUser[j] \in Users
      BY DEF DepositsAssumption
    <3> QED
      BY <2>3, <2>4, <3>1, <3>2 DEF SettledExactlyOnce
  <2> QED
    BY <2>5, <2>6 DEF SettledExactlyOnce
<1> QED
  BY <1>2, <1>3, <1>4, DepositsStepCases

\* The columns of the intents and the proofs keep their types.
LEMMA DepositsKeepColumns ==
    ASSUME DepositsConstants, DepositsTypeOK, DepositsNext
    PROVE  /\ istatus' \in [Intents -> IntentStatuses]
           /\ icapture' \in [Intents -> References]
           /\ expired' \subseteq Intents
           /\ old' \subseteq Intents
           /\ pstatus' \in [Proofs -> ProofStatuses]
<1> USE DEF DepositsTypeOK, IntentStatuses, ProofStatuses
<1>1. ASSUME NEW i \in Intents,
             \/ CreateIntent(i) \/ CreateForRecurrente(i)
             \/ PassExpiry(i) \/ PassHour(i)
             \/ CancelByToken(i) \/ AdminReject(i) \/ SubmitForReview(i)
      PROVE  /\ istatus' \in [Intents -> IntentStatuses]
             /\ expired' \subseteq Intents
             /\ old' \subseteq Intents
             /\ UNCHANGED <<icapture, pstatus>>
  BY <1>1 DEF CreateIntent, CreateForRecurrente, InsertIntent, PassExpiry,
              PassHour, CancelByToken, AdminReject, SubmitForReview
<1>2. ASSUME NEW i \in Intents, AdminCreditExpired(i)
      PROVE  /\ istatus' \in [Intents -> IntentStatuses]
             /\ icapture' \in [Intents -> References]
             /\ UNCHANGED <<expired, old, pstatus>>
  <2>1. <<"admin", i>> \in References
    BY DepositNames DEF DepositsConstants
  <2> QED
    BY <1>2, <2>1 DEF AdminCreditExpired
<1>3. ASSUME CancelStalePendingCardIntents
      PROVE  /\ istatus' \in [Intents -> IntentStatuses]
             /\ UNCHANGED <<icapture, expired, old, pstatus>>
  BY <1>3 DEF CancelStalePendingCardIntents
<1>4. ASSUME NEW p \in Proofs, UploadProof(p) \/ RejectProof(p)
      PROVE  /\ pstatus' \in [Proofs -> ProofStatuses]
             /\ UNCHANGED <<istatus, icapture, expired, old>>
  BY <1>4 DEF UploadProof, RejectProof
<1>5. ASSUME NEW h \in Handlers,
             \/ \E i \in Intents : RecurrenteWebhook(h, i)
             \/ \E c \in Captures : PayPalWebhook(h, c)
             \/ \E p \in Proofs : ApproveTransfer(h, p)
             \/ ResolvePayPalCredit(h) \/ CaptureMiss(h)
             \/ ApproveMiss(h) \/ Abandon(h)
      PROVE  UNCHANGED <<istatus, icapture, expired, old, pstatus>>
  BY <1>5 DEF RecurrenteWebhook, PayPalWebhook, ApproveTransfer,
              ResolvePayPalCredit, CaptureMiss, ApproveMiss, Abandon
<1>6. ASSUME NEW h \in Handlers, CaptureAndCredit(h)
      PROVE  /\ istatus' \in [Intents -> IntentStatuses]
             /\ icapture' \in [Intents -> References]
             /\ UNCHANGED <<expired, old, pstatus>>
  <2>1. req[h] \in Capturing
    BY <1>6, RequestCases DEF CaptureAndCredit
  <2>2. req[h].intent \in Intents /\ req[h].ref \in References
    BY <2>1 DEF Capturing
  <2> QED
    BY <1>6, <2>2 DEF CaptureAndCredit
<1>7. ASSUME NEW h \in Handlers, ApproveAndCredit(h)
      PROVE  /\ pstatus' \in [Proofs -> ProofStatuses]
             /\ UNCHANGED <<istatus, icapture, expired, old>>
  BY <1>7 DEF ApproveAndCredit
<1> QED
  BY <1>1, <1>2, <1>3, <1>4, <1>5, <1>6, <1>7 DEF DepositsNext

\* What each request holds after a step: what it held before, nothing, or a
\* record that one of the three reading steps built from the tables.
LEMMA DepositsRequests ==
    ASSUME DepositsConstants, DepositsTypeOK, DepositsNext
    PROVE  \/ UNCHANGED req
           \/ \E h \in Handlers, r \in {Idle} \cup Resolving \cup Capturing
                                        \cup Approving :
                /\ req' = [req EXCEPT ![h] = r]
                /\ r.pc = "capture" =>
                     r.cents \in DepositWorth[<<"payment_intent", r.intent>>]
                /\ r.pc = "approve" =>
                     r.cents \in DepositWorth[<<"bank_transfer_proof", r.proof>>]
                /\ r.pc \in {"resolve", "capture"} =>
                     /\ UNCHANGED istatus
                     /\ \/ /\ istatus[r.intent] # "none"
                           /\ ~r.checked => istatus[r.intent] # "pending"
                        \/ /\ req[h].pc = "resolve"
                           /\ r.intent = req[h].intent
                           /\ r.checked = req[h].checked
<1> USE DEF DepositsConstants
<1> DEFINE Written(h, r) ==
             /\ req' = [req EXCEPT ![h] = r]
             /\ r.pc = "capture" =>
                  r.cents \in DepositWorth[<<"payment_intent", r.intent>>]
             /\ r.pc = "approve" =>
                  r.cents \in DepositWorth[<<"bank_transfer_proof", r.proof>>]
             /\ r.pc \in {"resolve", "capture"} =>
                  /\ UNCHANGED istatus
                  /\ \/ /\ istatus[r.intent] # "none"
                        /\ ~r.checked => istatus[r.intent] # "pending"
                     \/ /\ req[h].pc = "resolve"
                        /\ r.intent = req[h].intent
                        /\ r.checked = req[h].checked
           Forms == {Idle} \cup Resolving \cup Capturing \cup Approving
<1>1. ASSUME NEW i \in Intents,
             \/ CreateIntent(i) \/ CreateForRecurrente(i)
             \/ PassExpiry(i) \/ PassHour(i)
             \/ CancelByToken(i) \/ AdminReject(i) \/ SubmitForReview(i)
             \/ AdminCreditExpired(i)
      PROVE  UNCHANGED req
  BY <1>1 DEF CreateIntent, CreateForRecurrente, InsertIntent, PassExpiry,
              PassHour, CancelByToken, AdminReject, SubmitForReview,
              AdminCreditExpired
<1>2. ASSUME \/ CancelStalePendingCardIntents
             \/ \E p \in Proofs : UploadProof(p) \/ RejectProof(p)
      PROVE  UNCHANGED req
  BY <1>2 DEF CancelStalePendingCardIntents, UploadProof, RejectProof
<1>3. ASSUME NEW h \in Handlers,
             \/ CaptureAndCredit(h) \/ CaptureMiss(h)
             \/ ApproveAndCredit(h) \/ ApproveMiss(h) \/ Abandon(h)
      PROVE  \E r \in Forms : Written(h, r)
  <2>1. req' = [req EXCEPT ![h] = Idle]
    BY <1>3 DEF CaptureAndCredit, CaptureMiss, ApproveAndCredit, ApproveMiss,
                Abandon
  <2>2. Idle \in Forms /\ Idle.pc = "idle"
    BY DEF Idle
  <2>3. Written(h, Idle)
    BY <2>1, <2>2
  <2> QED
    BY <2>2, <2>3
<1>4. ASSUME NEW h \in Handlers, NEW i \in Intents, RecurrenteWebhook(h, i)
      PROVE  \E r \in Forms : Written(h, r)
  <2> DEFINE r == [pc |-> "capture", intent |-> i, ref |-> <<"token", i>>,
                   checked |-> TRUE, cents |-> IntentCents[i],
                   unit |-> IntentCurrency[i],
                   src |-> IF IntentCurrency[i] = "USD" THEN "USD" ELSE ""]
  <2>1. /\ req' = [req EXCEPT ![h] = r]
        /\ UNCHANGED istatus /\ istatus[i] # "none"
    BY <1>4 DEF RecurrenteWebhook
  <2>2. r \in Capturing
    BY DepositNames DEF Capturing, DepositsAssumption, Currencies
  <2>3. r.cents \in DepositWorth[<<"payment_intent", r.intent>>]
    BY WorthOf
  <2>4. r.pc = "capture" /\ r.checked /\ r.intent = i
    OBVIOUS
  <2> HIDE DEF r
  <2> QED
    BY <2>1, <2>2, <2>3, <2>4
<1>5. ASSUME NEW h \in Handlers, NEW c \in Captures, PayPalWebhook(h, c)
      PROVE  \E r \in Forms : Written(h, r)
  <2> DEFINE i == CaptureIntent[c]
             r == [pc |-> "resolve", intent |-> i, ref |-> <<"capture", c>>,
                   checked |-> istatus[i] = "pending"]
  <2>1. /\ req' = [req EXCEPT ![h] = r]
        /\ UNCHANGED istatus /\ istatus[i] # "none"
    BY <1>5 DEF PayPalWebhook
  <2>2. (istatus[i] = "pending") \in BOOLEAN
    OBVIOUS
  <2>3. r \in Resolving
    BY DepositNames, <2>2 DEF Resolving, DepositsAssumption
  <2>4. /\ r.pc = "resolve" /\ r.intent = i
        /\ ~r.checked => istatus[r.intent] # "pending"
    OBVIOUS
  <2> HIDE DEF r
  <2> QED
    BY <2>1, <2>3, <2>4
<1>6. ASSUME NEW h \in Handlers, NEW p \in Proofs, ApproveTransfer(h, p)
      PROVE  \E r \in Forms : Written(h, r)
  <2>1. PICK cents \in {ProofCents[p]} \cup Overrides :
            req' = [req EXCEPT ![h] =
                        [pc |-> "approve", proof |-> p, cents |-> cents]]
    BY <1>6 DEF ApproveTransfer
  <2> DEFINE r == [pc |-> "approve", proof |-> p, cents |-> cents]
  <2>2. cents \in DepositWorth[<<"bank_transfer_proof", p>>] /\ cents \in Nat
    BY WorthOf
  <2>3. r \in Approving /\ r.pc = "approve" /\ r.proof = p /\ r.cents = cents
    BY <2>2 DEF Approving
  <2> HIDE DEF r
  <2> QED
    BY <2>1, <2>2, <2>3 DEF r
<1>7. ASSUME NEW h \in Handlers, ResolvePayPalCredit(h)
      PROVE  \E r \in Forms : Written(h, r)
  <2> DEFINE i == req[h].intent
  <2>1. req[h].pc = "resolve" /\ UNCHANGED istatus
    BY <1>7 DEF ResolvePayPalCredit
  <2>2. /\ req[h] \in Resolving
        /\ i \in Intents /\ req[h].ref \in References
        /\ req[h].checked \in BOOLEAN
    BY <2>1, RequestCases DEF Resolving
  <2>3. PICK cents \in DepositWorth[<<"payment_intent", i>>],
             unit \in Currencies, src \in Currencies \cup {""} :
            req' = [req EXCEPT ![h] =
                [pc |-> "capture", intent |-> i, ref |-> req[h].ref,
                 checked |-> req[h].checked,
                 cents |-> cents, unit |-> unit, src |-> src]]
    <3>1. /\ IntentCents[i] \in DepositWorth[<<"payment_intent", i>>]
          /\ ConvertUSDToGTQ(IntentCents[i])
                \in DepositWorth[<<"payment_intent", i>>]
          /\ IntentCurrency[i] \in Currencies
          /\ "USD" \in Currencies /\ "GTQ" \in Currencies
      BY <2>2, WorthOf DEF DepositsAssumption, Currencies
    <3> DEFINE R(cents, unit, src) == req' = [req EXCEPT ![h] =
                [pc |-> "capture", intent |-> i, ref |-> req[h].ref,
                 checked |-> req[h].checked,
                 cents |-> cents, unit |-> unit, src |-> src]]
    <3>2. \/ R(IntentCents[i], IntentCurrency[i], "")
          \/ R(IntentCents[i], "USD", "USD")
          \/ R(ConvertUSDToGTQ(IntentCents[i]), "GTQ", "")
          \/ R(IntentCents[i], "USD", "")
      BY <1>7 DEF ResolvePayPalCredit
    <3> HIDE DEF R, i
    <3>3. \E cents \in DepositWorth[<<"payment_intent", i>>],
             unit \in Currencies, src \in Currencies \cup {""} :
                R(cents, unit, src)
      BY <3>1, <3>2
    <3> QED
      BY <3>3 DEF R
  <2> DEFINE r == [pc |-> "capture", intent |-> i, ref |-> req[h].ref,
                   checked |-> req[h].checked,
                   cents |-> cents, unit |-> unit, src |-> src]
  <2>4. cents \in Nat
    BY <2>2, WorthOf
  <2>5. r \in Capturing
    BY <2>2, <2>4 DEF Capturing
  <2>6. /\ r.pc = "capture" /\ r.intent = i /\ r.cents = cents
        /\ r.checked = req[h].checked
    OBVIOUS
  <2>7. req' = [req EXCEPT ![h] = r]
    BY <2>3
  <2> HIDE DEF r
  <2> QED
    BY <2>1, <2>3, <2>5, <2>6, <2>7
<1> HIDE DEF Written
<1>8. UNCHANGED req \/ \E h \in Handlers, r \in Forms : Written(h, r)
  BY <1>1, <1>2, <1>3, <1>4, <1>5, <1>6, <1>7 DEF DepositsNext
<1> QED
  BY <1>8, Zenon DEF Written

\* The requests keep their type and hold what their deposit is worth.
LEMMA DepositsKeepRequests ==
    ASSUME DepositsConstants, DepositsTypeOK, RequestsHoldWorth, DepositsNext
    PROVE  /\ req' \in [Handlers -> {Idle} \cup Resolving \cup Capturing
                                        \cup Approving]
           /\ RequestsHoldWorth'
<1>1. CASE UNCHANGED req
  BY <1>1 DEF DepositsTypeOK, RequestsHoldWorth
<1>2. ASSUME NEW h \in Handlers,
             NEW r \in {Idle} \cup Resolving \cup Capturing \cup Approving,
             req' = [req EXCEPT ![h] = r],
             r.pc = "capture" =>
                r.cents \in DepositWorth[<<"payment_intent", r.intent>>],
             r.pc = "approve" =>
                r.cents \in DepositWorth[<<"bank_transfer_proof", r.proof>>]
      PROVE  /\ req' \in [Handlers -> {Idle} \cup Resolving \cup Capturing
                                          \cup Approving]
             /\ RequestsHoldWorth'
  <2>1. /\ req'[h] = r
        /\ \A g \in Handlers : g # h => req'[g] = req[g]
    BY <1>2 DEF DepositsTypeOK
  <2>2. \A g \in Handlers :
            /\ req'[g].pc = "capture" => req'[g].cents
                    \in DepositWorth[<<"payment_intent", req'[g].intent>>]
            /\ req'[g].pc = "approve" => req'[g].cents
                    \in DepositWorth[<<"bank_transfer_proof", req'[g].proof>>]
    BY <1>2, <2>1 DEF RequestsHoldWorth
  <2>3. DepositWorth' = DepositWorth
    BY DEF DepositWorth, DepositItems, ConvertUSDToGTQ
  <2>4. RequestsHoldWorth'
    BY <2>2, <2>3 DEF RequestsHoldWorth
  <2> QED
    BY <1>2, <2>4 DEF DepositsTypeOK
<1> QED
  BY <1>1, <1>2, DepositsRequests

\* No step makes an intent pending again: it becomes pending when it is
\* created and at no other time.
LEMMA PendingOnlyOnce ==
    ASSUME DepositsTypeOK, DepositsNext, NEW j \in Intents,
           istatus'[j] = "pending", istatus[j] # "pending"
    PROVE  istatus[j] = "none" /\ UNCHANGED req
<1>1. ASSUME NEW i \in Intents, CreateIntent(i) \/ CreateForRecurrente(i)
      PROVE  istatus[j] = "none" /\ UNCHANGED req
  BY <1>1 DEF CreateIntent, CreateForRecurrente, InsertIntent, DepositsTypeOK
<1>2. ASSUME NEW i \in Intents,
             \/ PassExpiry(i) \/ PassHour(i)
             \/ CancelByToken(i) \/ AdminReject(i) \/ SubmitForReview(i)
             \/ AdminCreditExpired(i)
      PROVE  FALSE
  BY <1>2 DEF PassExpiry, PassHour, CancelByToken, AdminReject,
              SubmitForReview, AdminCreditExpired, DepositsTypeOK
<1>3. ASSUME \/ CancelStalePendingCardIntents
             \/ \E p \in Proofs : UploadProof(p) \/ RejectProof(p)
      PROVE  FALSE
  BY <1>3 DEF CancelStalePendingCardIntents, UploadProof, RejectProof
<1>4. ASSUME NEW h \in Handlers,
             \/ \E i \in Intents : RecurrenteWebhook(h, i)
             \/ \E c \in Captures : PayPalWebhook(h, c)
             \/ \E p \in Proofs : ApproveTransfer(h, p)
             \/ ResolvePayPalCredit(h) \/ CaptureMiss(h)
             \/ ApproveAndCredit(h) \/ ApproveMiss(h) \/ Abandon(h)
      PROVE  FALSE
  <2>1. UNCHANGED istatus
    BY <1>4 DEF RecurrenteWebhook, PayPalWebhook, ApproveTransfer,
                ResolvePayPalCredit, CaptureMiss, ApproveAndCredit,
                ApproveMiss, Abandon
  <2> QED
    BY <2>1
<1>5. ASSUME NEW h \in Handlers, CaptureAndCredit(h)
      PROVE  FALSE
  BY <1>5 DEF CaptureAndCredit, DepositsTypeOK
<1> QED
  BY <1>1, <1>2, <1>3, <1>4, <1>5 DEF DepositsNext

\* No step takes an intent out of the table.
LEMMA IntentsStay ==
    ASSUME DepositsTypeOK, DepositsNext, NEW j \in Intents,
           istatus[j] # "none"
    PROVE  istatus'[j] # "none"
<1>1. ASSUME NEW i \in Intents,
             \/ CreateIntent(i) \/ CreateForRecurrente(i)
             \/ PassExpiry(i) \/ PassHour(i)
             \/ CancelByToken(i) \/ AdminReject(i) \/ SubmitForReview(i)
             \/ AdminCreditExpired(i)
      PROVE  istatus'[j] # "none"
  BY <1>1 DEF CreateIntent, CreateForRecurrente, InsertIntent, PassExpiry,
              PassHour, CancelByToken, AdminReject, SubmitForReview,
              AdminCreditExpired, DepositsTypeOK
<1>2. ASSUME \/ CancelStalePendingCardIntents
             \/ \E p \in Proofs : UploadProof(p) \/ RejectProof(p)
      PROVE  istatus'[j] # "none"
  BY <1>2 DEF CancelStalePendingCardIntents, UploadProof, RejectProof
<1>3. ASSUME NEW h \in Handlers,
             \/ \E i \in Intents : RecurrenteWebhook(h, i)
             \/ \E c \in Captures : PayPalWebhook(h, c)
             \/ \E p \in Proofs : ApproveTransfer(h, p)
             \/ ResolvePayPalCredit(h) \/ CaptureMiss(h)
             \/ ApproveAndCredit(h) \/ ApproveMiss(h) \/ Abandon(h)
      PROVE  istatus'[j] # "none"
  <2>1. UNCHANGED istatus
    BY <1>3 DEF RecurrenteWebhook, PayPalWebhook, ApproveTransfer,
                ResolvePayPalCredit, CaptureMiss, ApproveAndCredit,
                ApproveMiss, Abandon
  <2> QED
    BY <2>1
<1>4. ASSUME NEW h \in Handlers, CaptureAndCredit(h)
      PROVE  istatus'[j] # "none"
  BY <1>4 DEF CaptureAndCredit, DepositsTypeOK
<1> QED
  BY <1>1, <1>2, <1>3, <1>4 DEF DepositsNext

\* A delivery that passed without the gate still cannot capture.
LEMMA DepositsKeepUnchecked ==
    ASSUME DepositsConstants, DepositsTypeOK, RequestsFoundIntent,
           UncheckedCannotCapture, DepositsNext
    PROVE  RequestsFoundIntent' /\ UncheckedCannotCapture'
<1> DEFINE Sound(g) ==
        req'[g].pc \in {"resolve", "capture"} =>
            /\ istatus'[req'[g].intent] # "none"
            /\ ~req'[g].checked => istatus'[req'[g].intent] # "pending"
<1>1. ASSUME NEW g \in Handlers, req'[g] = req[g]
      PROVE  Sound(g)
  <2>1. SUFFICES ASSUME req[g].pc \in {"resolve", "capture"}
                 PROVE  /\ istatus'[req[g].intent] # "none"
                        /\ ~req[g].checked =>
                                istatus'[req[g].intent] # "pending"
    BY <1>1
  <2>2. req[g].intent \in Intents
    BY <2>1, RequestCases DEF Resolving, Capturing
  <2>3. istatus[req[g].intent] # "none"
    BY <2>1 DEF RequestsFoundIntent
  <2>4. ~req[g].checked => istatus[req[g].intent] # "pending"
    BY <2>1 DEF UncheckedCannotCapture
  <2> QED
    BY <2>2, <2>3, <2>4, IntentsStay, PendingOnlyOnce
<1>2. ASSUME NEW h \in Handlers, NEW r,
             req' = [req EXCEPT ![h] = r],
             r.pc \in {"resolve", "capture"} =>
                /\ UNCHANGED istatus
                /\ \/ /\ istatus[r.intent] # "none"
                      /\ ~r.checked => istatus[r.intent] # "pending"
                   \/ /\ req[h].pc = "resolve"
                      /\ r.intent = req[h].intent
                      /\ r.checked = req[h].checked
      PROVE  \A g \in Handlers : Sound(g)
  <2>1. /\ req'[h] = r
        /\ \A g \in Handlers : g # h => req'[g] = req[g]
    BY <1>2 DEF DepositsTypeOK
  <2>2. Sound(h)
    BY <1>2, <2>1 DEF RequestsFoundIntent, UncheckedCannotCapture
  <2> QED
    BY <1>1, <2>1, <2>2
<1>3. \A g \in Handlers : Sound(g)
  BY <1>1, <1>2, DepositsRequests
<1> QED
  BY <1>3 DEF RequestsFoundIntent, UncheckedCannotCapture

-----------------------------------------------------------------------------

\* Every deposit step keeps the invariant.
LEMMA DepositsStep ==
    ASSUME DepositsConstants, DepositsInv, DepositsNext
    PROVE  DepositsInv'
<1>1. AccountsTypeOK' /\ LedgerChain'
  BY DepositsKeepAccounts DEF DepositsInv
<1>2. DepositsTypeOK'
  BY <1>1, DepositsKeepColumns, DepositsKeepRequests
     DEF DepositsInv, DepositsTypeOK
<1>3. RequestsHoldWorth' /\ SettledExactlyOnce'
  BY DepositsKeepRequests, DepositsKeepSettled DEF DepositsInv
<1>4. RequestsFoundIntent' /\ UncheckedCannotCapture'
  BY DepositsKeepUnchecked DEF DepositsInv
<1> QED
  BY <1>1, <1>2, <1>3, <1>4 DEF DepositsInv

\* Deleting a user, or a row leaving the 24-hour window, moves no money.
LEMMA AccountsStepType ==
    ASSUME AccountsTypeOK, LedgerChain, AccountsNext
    PROVE  /\ AccountsTypeOK' /\ LedgerChain'
           /\ UNCHANGED ledger
<1> SUFFICES ASSUME NEW u \in Users, DeleteUser(u) \/ AgeOut(u)
             PROVE  AccountsTypeOK' /\ LedgerChain' /\ UNCHANGED ledger
  BY DEF AccountsNext
<1>1. UNCHANGED <<balance, denom, tier, ledger>>
  BY DEF DeleteUser, AgeOut
<1>2. deleted' \subseteq Users /\ aged' \in [Users -> Nat]
  BY DEF DeleteUser, AgeOut, AccountsTypeOK
<1>3. LedgerChain'
  BY <1>1 DEF LedgerChain
<1> QED
  BY <1>1, <1>2, <1>3 DEF AccountsTypeOK

\* Steps that leave the deposits and the ledger alone keep the invariant.
LEMMA DepositsFrame ==
    ASSUME DepositsInv, AccountsTypeOK', LedgerChain',
           UNCHANGED <<ledger, deposits>>
    PROVE  DepositsInv'
<1>1. UNCHANGED <<ledger, istatus, icapture, expired, old, pstatus, req>>
  BY DEF deposits
<1>2. DepositsTypeOK'
  BY <1>1 DEF DepositsInv, DepositsTypeOK
<1>3. RequestsHoldWorth' /\ RequestsFoundIntent'
  BY <1>1 DEF DepositsInv, RequestsHoldWorth, RequestsFoundIntent,
              DepositWorth, DepositItems, ConvertUSDToGTQ
<1>4. SettledExactlyOnce' /\ UncheckedCannotCapture'
  <2>1. \A x : /\ NoRowFor(x) <=> NoRowFor(x)'
               /\ \A u \in Users : OneRowFor(x, u) <=> OneRowFor(x, u)'
    BY <1>1 DEF NoRowFor, OneRowFor
  <2>2. SettledExactlyOnce'
    BY <1>1, <2>1, DepositsAssumption
       DEF DepositsInv, SettledExactlyOnce, DepositsAssumption
  <2> QED
    BY <1>1, <2>2 DEF DepositsInv, UncheckedCannotCapture
<1> QED
  BY <1>2, <1>3, <1>4 DEF DepositsInv

\* The initial state: no intent, no proof, and at most an opening row.
LEMMA DepositsInitially ==
    ASSUME DepositsConstants, AccountsInit, DepositsInit
    PROVE  DepositsInv
<1> USE DEF DepositsConstants
<1>1. AccountsTypeOK /\ LedgerChain
  BY AccountsInitially
<1>2. DepositsTypeOK
  BY <1>1 DEF DepositsInit, DepositsTypeOK, IntentStatuses, ProofStatuses,
              References
<1>3. \A h \in Handlers : req[h].pc = "idle"
  BY DEF DepositsInit, Idle
<1>4. \A u \in Users : \A k \in DOMAIN ledger[u] :
            ledger[u][k].origin = <<"opening">>
  BY DEF AccountsInit, OpeningRow
<1>5. SettledExactlyOnce
  <2>1. ASSUME NEW t, NEW x, t # "opening"
        PROVE  NoRowFor(<<t, x>>)
    <3>1. <<t, x>>[1] # <<"opening">>[1]
      BY <2>1
    <3> QED
      BY <1>4, <3>1 DEF NoRowFor
  <2> QED
    BY <2>1 DEF SettledExactlyOnce, DepositsInit
<1> QED
  BY <1>1, <1>2, <1>3, <1>5 DEF DepositsInv, RequestsHoldWorth,
                               RequestsFoundIntent, UncheckedCannotCapture

\* The invariant of the whole specification.
THEOREM DepositsInvariant == DepositsSpec => []DepositsInv
<1>1. DepositsConstants
  BY AccountsAssumption, GateAssumption, DepositsAssumption
     DEF DepositsConstants
<1>2. AccountsInit /\ DepositsInit => DepositsInv
  BY <1>1, DepositsInitially
<1>3. DepositsInv /\ [DepositsNext \/ (AccountsNext /\ UNCHANGED deposits)]_depositVars
        => DepositsInv'
  <2> SUFFICES ASSUME DepositsInv,
                      [DepositsNext \/ (AccountsNext /\ UNCHANGED deposits)]_depositVars
               PROVE  DepositsInv'
    OBVIOUS
  <2>1. CASE DepositsNext
    BY <1>1, <2>1, DepositsStep
  <2>2. CASE AccountsNext /\ UNCHANGED deposits
    BY <2>2, AccountsStepType, DepositsFrame DEF DepositsInv, DepositsTypeOK
  <2>3. CASE UNCHANGED depositVars
    <3>1. UNCHANGED <<balance, denom, tier, deleted, ledger, aged, deposits>>
      BY <2>3 DEF depositVars, accounts
    <3>2. AccountsTypeOK' /\ LedgerChain'
      BY <3>1 DEF DepositsInv, DepositsTypeOK, AccountsTypeOK, LedgerChain
    <3> QED
      BY <3>1, <3>2, DepositsFrame
  <2> QED
    BY <2>1, <2>2, <2>3
<1> QED
  BY <1>2, <1>3, PTL DEF DepositsSpec, DepositsStart

\* The tables keep their types: in particular no sum of webhooks, approvals
\* and administrators' credits overflows a balance column.
THEOREM DepositsTypeCorrect == DepositsSpec => []DepositsTypeOK
<1>1. DepositsInv => DepositsTypeOK
  BY DEF DepositsInv
<1> QED
  BY <1>1, DepositsInvariant, PTL

\* The stored balance is what the ledger says, however requests interleave.
THEOREM DepositsLedgerChain == DepositsSpec => []LedgerChain
<1>1. DepositsInv => LedgerChain
  BY DEF DepositsInv
<1> QED
  BY <1>1, DepositsInvariant, PTL

\* Every deposit is credited exactly once, to its owner, however often its
\* webhook is delivered and whoever races it.
THEOREM DepositsSettleOnce == DepositsSpec => []SettledExactlyOnce
<1>1. DepositsInv => SettledExactlyOnce
  BY DEF DepositsInv
<1> QED
  BY <1>1, DepositsInvariant, PTL

\* No delivery captures an intent without having passed the KYC gate.
THEOREM DepositsGateHolds == DepositsSpec => []UncheckedCannotCapture
<1>1. DepositsInv => UncheckedCannotCapture
  BY DEF DepositsInv
<1> QED
  BY <1>1, DepositsInvariant, PTL

-----------------------------------------------------------------------------
(* Deposits implements Settlement.                                         *)

\* An item of the abstract specification, and whether it is settled.
LEMMA ItemCases ==
    ASSUME NEW x \in DepositItems
    PROVE  \/ \E i \in Intents :
                x = <<"payment_intent", i>> /\ x[1] = "payment_intent"
                /\ x[2] = i
           \/ \E p \in Proofs :
                x = <<"bank_transfer_proof", p>> /\ x[1] = "bank_transfer_proof"
                /\ x[2] = p
BY DEF DepositItems

\* A settled intent is an abstract settlement of its item.
LEMMA IntentRefines ==
    ASSUME DepositsConstants, DepositsTypeOK, NEW i \in Intents,
           IntentSettled(i)
    PROVE  Promise!Settle(<<"payment_intent", i>>)
<1> USE DEF DepositsConstants
<1> DEFINE x == <<"payment_intent", i>>
<1>1. x \in DepositItems /\ x[1] = "payment_intent" /\ x[2] = i
  BY DEF DepositItems
<1>2. DepositHolder[x] = IntentUser[i] /\ IntentUser[i] \in Users
  BY <1>1 DEF DepositHolder, DepositsAssumption
<1>3. /\ istatus[i] # "captured" /\ istatus'[i] = "captured"
      /\ \A j \in Intents : j # i => istatus'[j] = istatus[j]
      /\ pstatus' = pstatus
  BY DEF IntentSettled, DepositsTypeOK
<1>4. x \notin SettledDeposits
  BY <1>1, <1>3 DEF SettledDeposits
<1>5. ASSUME NEW y \in DepositItems
      PROVE  y \in SettledDeposits' <=> y \in SettledDeposits \/ y = x
  BY <1>1, <1>3, ItemCases DEF SettledDeposits
<1>6. SettledDeposits' = SettledDeposits \cup {x}
  <2>1. SettledDeposits' \subseteq DepositItems
    BY DEF SettledDeposits, DepositItems
  <2>2. SettledDeposits \subseteq DepositItems
    BY DEF SettledDeposits
  <2> QED
    BY <1>1, <1>5, <2>1, <2>2
<1>7. PICK cents \in DepositWorth[x] :
        balance' = [balance EXCEPT ![IntentUser[i]] = @ + cents]
  BY DEF IntentSettled, CreditUser
<1>8. cents \in Nat /\ balance[IntentUser[i]] \in Nat
  <2>1. DepositWorth[x] \subseteq Nat
    BY WorthOf
  <2>2. balance[IntentUser[i]] \in Cents
    BY <1>2 DEF DepositsTypeOK, AccountsTypeOK
  <2> HIDE DEF x
  <2> QED
    BY <2>1, <2>2 DEF Cents
<1>9. balance[DepositHolder[x]] + cents >= 0
  BY <1>2, <1>8
<1> HIDE DEF x
<1> QED
  BY <1>2, <1>4, <1>6, <1>7, <1>9 DEF Promise!Settle, x

\* And so is an approved bank transfer.
LEMMA ProofRefines ==
    ASSUME DepositsConstants, DepositsTypeOK, NEW p \in Proofs,
           ProofSettled(p)
    PROVE  Promise!Settle(<<"bank_transfer_proof", p>>)
<1> USE DEF DepositsConstants
<1> DEFINE x == <<"bank_transfer_proof", p>>
<1>1. x \in DepositItems /\ x[1] = "bank_transfer_proof" /\ x[2] = p
  BY DEF DepositItems
<1>2. DepositHolder[x] = ProofUser[p] /\ ProofUser[p] \in Users
  BY <1>1 DEF DepositHolder, DepositsAssumption
<1>3. /\ pstatus[p] # "approved" /\ pstatus'[p] = "approved"
      /\ \A q \in Proofs : q # p => pstatus'[q] = pstatus[q]
      /\ istatus' = istatus
  BY DEF ProofSettled, DepositsTypeOK
<1>4. x \notin SettledDeposits
  BY <1>1, <1>3 DEF SettledDeposits
<1>5. ASSUME NEW y \in DepositItems
      PROVE  y \in SettledDeposits' <=> y \in SettledDeposits \/ y = x
  BY <1>1, <1>3, ItemCases DEF SettledDeposits
<1>6. SettledDeposits' = SettledDeposits \cup {x}
  <2>1. SettledDeposits' \subseteq DepositItems
    BY DEF SettledDeposits, DepositItems
  <2>2. SettledDeposits \subseteq DepositItems
    BY DEF SettledDeposits
  <2> QED
    BY <1>1, <1>5, <2>1, <2>2
<1>7. PICK cents \in DepositWorth[x] :
        balance' = [balance EXCEPT ![ProofUser[p]] = @ + cents]
  BY DEF ProofSettled, CreditUser
<1>8. cents \in Nat /\ balance[ProofUser[p]] \in Nat
  <2>1. DepositWorth[x] \subseteq Nat
    BY WorthOf
  <2>2. balance[ProofUser[p]] \in Cents
    BY <1>2 DEF DepositsTypeOK, AccountsTypeOK
  <2> HIDE DEF x
  <2> QED
    BY <2>1, <2>2 DEF Cents
<1>9. balance[DepositHolder[x]] + cents >= 0
  BY <1>2, <1>8
<1> HIDE DEF x
<1> QED
  BY <1>2, <1>4, <1>6, <1>7, <1>9 DEF Promise!Settle, x

\* A step that settles nothing is a stuttering step of the promise.
LEMMA QuietRefines ==
    ASSUME UNCHANGED balance,
           \A i \in Intents :
                istatus'[i] = "captured" <=> istatus[i] = "captured",
           \A p \in Proofs :
                pstatus'[p] = "approved" <=> pstatus[p] = "approved"
    PROVE  UNCHANGED <<SettledDeposits, balance>>
<1>1. ASSUME NEW x \in DepositItems
      PROVE  x \in SettledDeposits' <=> x \in SettledDeposits
  BY ItemCases DEF SettledDeposits
<1>2. SettledDeposits' \subseteq DepositItems
  BY DEF SettledDeposits, DepositItems
<1>3. SettledDeposits \subseteq DepositItems
  BY DEF SettledDeposits
<1> QED
  BY <1>1, <1>2, <1>3

\* Deposits implements the abstract promise of Settlement.
THEOREM DepositsImplementPromise == DepositsSpec => DepositsRefineSettlement
<1>1. DepositsConstants
  BY AccountsAssumption, GateAssumption, DepositsAssumption
     DEF DepositsConstants
<1>2. AccountsInit /\ DepositsInit => Promise!Init
  <2> SUFFICES ASSUME AccountsInit, DepositsInit PROVE Promise!Init
    OBVIOUS
  <2>1. SettledDeposits = {}
    BY ItemCases DEF SettledDeposits, DepositsInit
  <2>2. balance \in [Users -> Nat]
    BY <1>1 DEF DepositsConstants, AccountsAssumption, AccountsInit
  <2> QED
    BY <2>1, <2>2 DEF Promise!Init
<1>3. DepositsInv /\ [DepositsNext \/ (AccountsNext /\ UNCHANGED deposits)]_depositVars
        => [Promise!Next]_<<SettledDeposits, balance>>
  <2> SUFFICES ASSUME DepositsInv,
                      [DepositsNext \/ (AccountsNext /\ UNCHANGED deposits)]_depositVars
               PROVE  [Promise!Next]_<<SettledDeposits, balance>>
    OBVIOUS
  <2>1. CASE QuietDeposit
    BY <2>1, QuietRefines DEF QuietDeposit, accounts
  <2>2. ASSUME NEW i \in Intents, IntentSettled(i)
        PROVE  Promise!Next
    <3>1. <<"payment_intent", i>> \in DepositItems
      BY DEF DepositItems
    <3>2. Promise!Settle(<<"payment_intent", i>>)
      BY <1>1, <2>2, IntentRefines DEF DepositsInv
    <3> QED
      BY <3>1, <3>2 DEF Promise!Next
  <2>3. ASSUME NEW p \in Proofs, ProofSettled(p)
        PROVE  Promise!Next
    <3>1. <<"bank_transfer_proof", p>> \in DepositItems
      BY DEF DepositItems
    <3>2. Promise!Settle(<<"bank_transfer_proof", p>>)
      BY <1>1, <2>3, ProofRefines DEF DepositsInv
    <3> QED
      BY <3>1, <3>2 DEF Promise!Next
  <2>4. CASE DepositsNext
    BY <1>1, <2>1, <2>2, <2>3, <2>4, DepositsStepCases DEF DepositsInv
  <2>5. CASE AccountsNext /\ UNCHANGED deposits
    <3>1. UNCHANGED <<balance, istatus, pstatus>>
      BY <2>5 DEF AccountsNext, DeleteUser, AgeOut, deposits
    <3> QED
      BY <3>1, QuietRefines
  <2>6. CASE UNCHANGED depositVars
    <3>1. UNCHANGED <<balance, istatus, pstatus>>
      BY <2>6 DEF depositVars, accounts, deposits
    <3> QED
      BY <3>1, QuietRefines
  <2> QED
    BY <2>4, <2>5, <2>6
<1> QED
  BY <1>2, <1>3, DepositsInvariant, PTL
     DEF DepositsSpec, DepositsStart, DepositsRefineSettlement, Promise!Spec

-----------------------------------------------------------------------------
(***************************************************************************)
(* The wallet: deposits, payouts and reviews interleaved.                  *)
(***************************************************************************)

WalletInv ==
    /\ DepositsInv
    /\ WithdrawalsTypeOK
    /\ KycTypeOK
    /\ PaidOutExactlyOnce
    /\ OneOpenRequest
    /\ TierMatchesReview

\* What the lemmas take from the constants.
WalletConstants == DepositsConstants /\ WithdrawalsAssumption /\ KycAssumption

\* The ledger rows of an item are the ones it had.
RowsKept(origin) ==
    /\ NoRowFor(origin) => NoRowFor(origin)'
    /\ \A u \in Users : OneRowFor(origin, u) => OneRowFor(origin, u)'

-----------------------------------------------------------------------------

LEMMA ReservedType ==
    ASSUME WalletConstants, NEW w \in Withdrawals
    PROVE  GTQReservedCents(w) \in Nat
<1>1. WithdrawalCents[w] \in Nat /\ GateRate \in Nat
  BY DEF WalletConstants, DepositsConstants, WithdrawalsAssumption, GateAssumption
<1>2. WithdrawalCents[w] * GateRate \in Nat
  BY <1>1
<1>3. (WithdrawalCents[w] * GateRate) \div 100 \in Nat
  BY <1>2
<1> QED BY <1>1, <1>3 DEF GTQReservedCents, ToGTQCents

\* A step that leaves the ledger alone keeps the rows of every item.
LEMMA QuietRows ==
    ASSUME UNCHANGED ledger, NEW origin
    PROVE  RowsKept(origin)
BY DEF RowsKept, NoRowFor, OneRowFor

\* Payouts stay settled while their rows and statuses stay.
LEMMA PaidOutFrame ==
    ASSUME WalletConstants, PaidOutExactlyOnce, UNCHANGED wstatus,
           \A w \in Withdrawals : RowsKept(<<"withdrawal_request", w>>)
    PROVE  PaidOutExactlyOnce'
<1> SUFFICES ASSUME NEW w \in Withdrawals
             PROVE  IF Debited(w)'
                    THEN OneRowFor(<<"withdrawal_request", w>>, WithdrawalUser[w])'
                    ELSE NoRowFor(<<"withdrawal_request", w>>)'
  BY DEF PaidOutExactlyOnce
<1>1. Debited(w)' <=> Debited(w)
  BY DEF Debited
<1>2. WithdrawalUser[w] \in Users
  BY DEF WalletConstants, WithdrawalsAssumption
<1>3. RowsKept(<<"withdrawal_request", w>>)
  OBVIOUS
<1> QED BY <1>1, <1>2, <1>3 DEF PaidOutExactlyOnce, RowsKept

\* So do deposits, also when a payout has added a row.
LEMMA DepositsKept ==
    ASSUME DepositsConstants, DepositsInv, AccountsTypeOK', LedgerChain',
           UNCHANGED deposits,
           \A i \in Intents : RowsKept(<<"payment_intent", i>>),
           \A p \in Proofs : RowsKept(<<"bank_transfer_proof", p>>)
    PROVE  DepositsInv'
<1>1. UNCHANGED <<istatus, icapture, expired, old, pstatus, req>>
  BY DEF deposits
<1>2. DepositsTypeOK'
  BY <1>1 DEF DepositsInv, DepositsTypeOK
<1>3. RequestsHoldWorth' /\ RequestsFoundIntent'
  BY <1>1 DEF DepositsInv, RequestsHoldWorth, RequestsFoundIntent,
              DepositWorth, DepositItems, ConvertUSDToGTQ
<1>4. SettledExactlyOnce'
  <2>1. ASSUME NEW i \in Intents
        PROVE  IF istatus'[i] = "captured"
               THEN OneRowFor(<<"payment_intent", i>>, IntentUser[i])'
               ELSE NoRowFor(<<"payment_intent", i>>)'
    <3>1. IntentUser[i] \in Users
      BY DEF DepositsConstants, DepositsAssumption
    <3> QED BY <1>1, <3>1 DEF DepositsInv, SettledExactlyOnce, RowsKept
  <2>2. ASSUME NEW p \in Proofs
        PROVE  IF pstatus'[p] = "approved"
               THEN OneRowFor(<<"bank_transfer_proof", p>>, ProofUser[p])'
               ELSE NoRowFor(<<"bank_transfer_proof", p>>)'
    <3>1. ProofUser[p] \in Users
      BY DEF DepositsConstants, DepositsAssumption
    <3> QED BY <1>1, <3>1 DEF DepositsInv, SettledExactlyOnce, RowsKept
  <2> QED BY <2>1, <2>2 DEF SettledExactlyOnce
<1>5. UncheckedCannotCapture'
  BY <1>1 DEF DepositsInv, UncheckedCannotCapture
<1> QED BY <1>1, <1>2, <1>3, <1>4, <1>5 DEF DepositsInv

-----------------------------------------------------------------------------
(* Deposits.                                                               *)

LEMMA DepositSide ==
    ASSUME WalletConstants, WalletInv, DepositsNext,
           UNCHANGED <<withdrawals, kyc>>
    PROVE  WalletInv'
<1>1. DepositsInv'
  BY DepositsStep DEF WalletConstants, WalletInv
<1>2. UNCHANGED <<wstatus, kstatus, ktier, submitting>>
  BY DEF withdrawals, kyc
<1>3. DepositsAssumption /\ DepositsTypeOK /\ AccountsTypeOK
  BY DEF WalletConstants, DepositsConstants, WalletInv, DepositsInv, DepositsTypeOK
<1>4. /\ UNCHANGED tier
      /\ \A w \in Withdrawals : RowsKept(<<"withdrawal_request", w>>)
  <2>1. CASE QuietDeposit
    BY <2>1, QuietRows DEF QuietDeposit, accounts
  <2>2. ASSUME NEW i \in Intents, IntentSettled(i)
        PROVE  /\ UNCHANGED tier
               /\ \A w \in Withdrawals : RowsKept(<<"withdrawal_request", w>>)
    <3>1. PICK cents, reference, unit, cur :
            CreditUser(IntentUser[i], cents, Kind(i), <<"payment_intent", i>>,
                       reference, unit, cur)
      BY <2>2 DEF IntentSettled
    <3>2. IntentUser[i] \in Users
      BY <1>3 DEF DepositsAssumption
    <3>3. \A w : <<"withdrawal_request", w>> # <<"payment_intent", i>>
      OBVIOUS
    <3>4. \A w \in Withdrawals : RowsKept(<<"withdrawal_request", w>>)
      BY <1>3, <3>1, <3>2, <3>3, CreditUserOrigins DEF RowsKept
    <3> QED BY <3>1, <3>4 DEF CreditUser
  <2>3. ASSUME NEW p \in Proofs, ProofSettled(p)
        PROVE  /\ UNCHANGED tier
               /\ \A w \in Withdrawals : RowsKept(<<"withdrawal_request", w>>)
    <3>1. PICK cents, unit, cur :
            CreditUser(ProofUser[p], cents, "bank_transfer",
                       <<"bank_transfer_proof", p>>, NoReference, unit, cur)
      BY <2>3 DEF ProofSettled
    <3>2. ProofUser[p] \in Users
      BY <1>3 DEF DepositsAssumption
    <3>3. \A w : <<"withdrawal_request", w>> # <<"bank_transfer_proof", p>>
      OBVIOUS
    <3>4. \A w \in Withdrawals : RowsKept(<<"withdrawal_request", w>>)
      BY <1>3, <3>1, <3>2, <3>3, CreditUserOrigins DEF RowsKept
    <3> QED BY <3>1, <3>4 DEF CreditUser
  <2> QED
    BY <2>1, <2>2, <2>3, DepositsStepCases
       DEF WalletConstants, WalletInv, DepositsInv
<1>5. PaidOutExactlyOnce'
  BY <1>2, <1>4, PaidOutFrame DEF WalletInv
<1>6. WithdrawalsTypeOK' /\ KycTypeOK' /\ OneOpenRequest' /\ TierMatchesReview'
  BY <1>2, <1>4 DEF WalletInv, WithdrawalsTypeOK, KycTypeOK, OneOpenRequest,
     TierMatchesReview
<1> QED BY <1>1, <1>5, <1>6 DEF WalletInv

-----------------------------------------------------------------------------
(* Payouts.                                                                *)

\* Every payout step but the approval leaves the accounts alone and debits
\* nothing.
LEMMA QuietPayout ==
    ASSUME WithdrawalsTypeOK, NEW w \in Withdrawals,
           \/ CheckRequest(w) \/ InsertRequest(w)
           \/ RejectWithdrawal(w) \/ MarkProcessed(w)
    PROVE  /\ UNCHANGED accounts
           /\ wstatus' \in [Withdrawals -> WithdrawalStatuses]
           /\ \A v \in Withdrawals : Debited(v)' <=> Debited(v)
BY DEF CheckRequest, InsertRequest, RejectWithdrawal, MarkProcessed, Reviewable,
   WithdrawalsTypeOK, WithdrawalStatuses, Debited

\* A request becomes open only by InsertRequest, and only while no other
\* request of its user is.
LEMMA OneRequestOpens ==
    ASSUME WithdrawalsTypeOK, OneOpenRequest, NEW w \in Withdrawals,
           \/ CheckRequest(w) \/ InsertRequest(w) \/ ApproveAndDebit(w)
           \/ RejectWithdrawal(w) \/ MarkProcessed(w)
    PROVE  OneOpenRequest'
<1> DEFINE Open(v) == wstatus[v] \in {"pending", "approved"}
<1>1. \A v \in Withdrawals : v # w => wstatus'[v] = wstatus[v]
  BY DEF CheckRequest, InsertRequest, ApproveAndDebit, RejectWithdrawal,
         MarkProcessed, WithdrawalsTypeOK
<1>2. \/ Open(w)
      \/ wstatus'[w] \notin {"pending", "approved"}
      \/ \A v \in Withdrawals : WithdrawalUser[v] = WithdrawalUser[w] => ~Open(v)
  BY DEF CheckRequest, InsertRequest, ApproveAndDebit, RejectWithdrawal,
         MarkProcessed, Reviewable, NoOpenRequest, WithdrawalsTypeOK
<1>3. ASSUME NEW u \in Withdrawals, NEW v \in Withdrawals,
             WithdrawalUser[u] = WithdrawalUser[v],
             wstatus'[u] \in {"pending", "approved"},
             wstatus'[v] \in {"pending", "approved"}
      PROVE  u = v
  BY <1>1, <1>2, <1>3 DEF OneOpenRequest
<1> QED BY <1>3 DEF OneOpenRequest

LEMMA ApprovalPays ==
    ASSUME WalletConstants, WalletInv, NEW w \in Withdrawals,
           ApproveAndDebit(w), UNCHANGED <<deposits, kyc>>
    PROVE  DepositsInv' /\ PaidOutExactlyOnce'
<1> DEFINE u == WithdrawalUser[w]
           origin == <<"withdrawal_request", w>>
<1>1. /\ u \in Users /\ GTQReservedCents(w) \in Nat
      /\ origin \in Origins /\ "withdrawal_deduct" \in Kinds
      /\ "GTQ" \in Currencies
  BY ReservedType DEF WalletConstants, WithdrawalsAssumption, Origins, Kinds,
     Currencies
<1>2. AccountsAssumption /\ AccountsTypeOK /\ LedgerChain
  BY DEF WalletConstants, DepositsConstants, WalletInv, DepositsInv, DepositsTypeOK
<1>3. DebitUser(u, GTQReservedCents(w), "withdrawal_deduct", origin, "GTQ")
  BY DEF ApproveAndDebit
<1> HIDE DEF u, origin
<1>4. AccountsTypeOK' /\ LedgerChain'
  BY <1>1, <1>2, <1>3, DebitUserType, DebitUserChain
<1>5. /\ NoRowFor(origin) => OneRowFor(origin, u)'
      /\ \A x : x # origin => RowsKept(x)
  BY <1>1, <1>2, <1>3, DebitUserOrigins DEF RowsKept
<1>6. DepositsInv'
  <2>1. /\ \A i \in Intents : RowsKept(<<"payment_intent", i>>)
        /\ \A p \in Proofs : RowsKept(<<"bank_transfer_proof", p>>)
    BY <1>5 DEF origin
  <2> QED BY <1>4, <2>1, DepositsKept DEF WalletConstants, WalletInv
<1>7. ASSUME NEW v \in Withdrawals
      PROVE  IF Debited(v)'
             THEN OneRowFor(<<"withdrawal_request", v>>, WithdrawalUser[v])'
             ELSE NoRowFor(<<"withdrawal_request", v>>)'
  <2>1. CASE v = w
    <3>1. ~Debited(w) /\ Debited(w)'
      BY DEF ApproveAndDebit, Reviewable, Debited, WalletInv, WithdrawalsTypeOK
    <3>2. NoRowFor(origin)
      BY <3>1 DEF WalletInv, PaidOutExactlyOnce, origin
    <3> QED BY <1>5, <2>1, <3>1, <3>2 DEF origin, u
  <2>2. CASE v # w
    <3>1. Debited(v)' <=> Debited(v)
      BY <2>2 DEF ApproveAndDebit, Debited, WalletInv, WithdrawalsTypeOK
    <3>2. RowsKept(<<"withdrawal_request", v>>)
      BY <1>5, <2>2 DEF origin
    <3>3. WithdrawalUser[v] \in Users
      BY DEF WalletConstants, WithdrawalsAssumption
    <3> QED BY <3>1, <3>2, <3>3 DEF WalletInv, PaidOutExactlyOnce, RowsKept
  <2> QED BY <2>1, <2>2
<1> QED BY <1>6, <1>7 DEF PaidOutExactlyOnce

LEMMA PayoutSide ==
    ASSUME WalletConstants, WalletInv, WithdrawalsNext,
           UNCHANGED <<deposits, kyc>>
    PROVE  WalletInv'
<1> PICK w \in Withdrawals :
        \/ CheckRequest(w) \/ InsertRequest(w) \/ ApproveAndDebit(w)
        \/ RejectWithdrawal(w) \/ MarkProcessed(w)
  BY DEF WithdrawalsNext
<1>1. UNCHANGED <<kstatus, ktier, submitting>>
  BY DEF kyc
<1>2. OneOpenRequest'
  BY OneRequestOpens DEF WalletInv
<1>3. CASE ApproveAndDebit(w)
  <2>1. UNCHANGED tier /\ WithdrawalsTypeOK'
    BY <1>3 DEF ApproveAndDebit, DebitUser, WalletInv, WithdrawalsTypeOK,
       WithdrawalStatuses
  <2>2. KycTypeOK' /\ TierMatchesReview'
    BY <1>1, <2>1 DEF WalletInv, KycTypeOK, TierMatchesReview
  <2> QED BY <1>2, <1>3, <2>1, <2>2, ApprovalPays DEF WalletInv
<1>4. CASE ~ApproveAndDebit(w)
  <2>1. /\ UNCHANGED accounts
        /\ WithdrawalsTypeOK'
        /\ \A v \in Withdrawals : Debited(v)' <=> Debited(v)
    BY <1>4, QuietPayout DEF WalletInv, WithdrawalsTypeOK
  <2>2. UNCHANGED <<balance, denom, tier, deleted, ledger, aged>>
    BY <2>1 DEF accounts
  <2>3. AccountsTypeOK' /\ LedgerChain'
    BY <2>2 DEF WalletInv, DepositsInv, DepositsTypeOK, AccountsTypeOK, LedgerChain
  <2>4. DepositsInv'
    BY <2>2, <2>3, DepositsFrame DEF WalletInv
  <2>5. ASSUME NEW v \in Withdrawals
        PROVE  IF Debited(v)'
               THEN OneRowFor(<<"withdrawal_request", v>>, WithdrawalUser[v])'
               ELSE NoRowFor(<<"withdrawal_request", v>>)'
    <3>1. RowsKept(<<"withdrawal_request", v>>)
      BY <2>2, QuietRows
    <3>2. WithdrawalUser[v] \in Users
      BY DEF WalletConstants, WithdrawalsAssumption
    <3> QED BY <2>1, <3>1, <3>2 DEF WalletInv, PaidOutExactlyOnce, RowsKept
  <2>6. KycTypeOK' /\ TierMatchesReview'
    BY <1>1, <2>2 DEF WalletInv, KycTypeOK, TierMatchesReview
  <2>7. PaidOutExactlyOnce'
    BY <2>5 DEF PaidOutExactlyOnce
  <2> QED BY <1>2, <2>1, <2>4, <2>6, <2>7 DEF WalletInv
<1> QED BY <1>3, <1>4

-----------------------------------------------------------------------------
(* Reviews, and what happens to an account by itself.                      *)

\* A review moves both copies of the tier together.
LEMMA ReviewStep ==
    ASSUME WalletConstants, AccountsTypeOK, KycTypeOK, TierMatchesReview, KycNext
    PROVE  /\ UNCHANGED <<balance, denom, deleted, ledger, aged>>
           /\ tier' \in [Users -> 0 .. 3]
           /\ KycTypeOK' /\ TierMatchesReview'
<1> PICK u \in Reviewed :
        \/ CheckSubmission(u) \/ UpsertSubmission(u)
        \/ \E t \in Grants : ApproveAndSetTier(u, t)
        \/ RejectProfile(u) \/ EscalateProfile(u)
  BY DEF KycNext
<1>1. u \in Users /\ Grants \subseteq 1 .. 3
  BY DEF WalletConstants, KycAssumption
<1>2. CASE CheckSubmission(u)
  BY <1>1, <1>2 DEF CheckSubmission, accounts, AccountsTypeOK, KycTypeOK,
     TierMatchesReview
<1>3. CASE UpsertSubmission(u)
  BY <1>1, <1>3 DEF UpsertSubmission, accounts, AccountsTypeOK, KycTypeOK,
     TierMatchesReview, KycStatuses
<1>4. ASSUME NEW t \in Grants, ApproveAndSetTier(u, t)
      PROVE  /\ UNCHANGED <<balance, denom, deleted, ledger, aged>>
             /\ tier' \in [Users -> 0 .. 3]
             /\ KycTypeOK' /\ TierMatchesReview'
  <2>1. t \in 0 .. 3
    BY <1>1
  <2> QED BY <1>1, <1>4, <2>1 DEF ApproveAndSetTier, SetTier, AccountsTypeOK,
          KycTypeOK, TierMatchesReview, KycStatuses
<1>5. CASE RejectProfile(u)
  BY <1>1, <1>5 DEF RejectProfile, SetTier, AccountsTypeOK, KycTypeOK,
     TierMatchesReview, KycStatuses
<1>6. CASE EscalateProfile(u)
  BY <1>1, <1>6 DEF EscalateProfile, SetTier, AccountsTypeOK, KycTypeOK,
     TierMatchesReview, KycStatuses
<1> QED BY <1>2, <1>3, <1>4, <1>5, <1>6

\* A step that writes neither the ledger nor the deposits and the payouts.
LEMMA NoMoneySide ==
    ASSUME WalletConstants, WalletInv, AccountsTypeOK', LedgerChain',
           KycTypeOK', TierMatchesReview',
           UNCHANGED <<ledger, deposits, wstatus>>
    PROVE  WalletInv'
<1>1. DepositsInv'
  BY DepositsFrame DEF WalletInv
<1>2. PaidOutExactlyOnce'
  BY PaidOutFrame, QuietRows DEF WalletInv
<1>3. WithdrawalsTypeOK' /\ OneOpenRequest'
  BY DEF WalletInv, WithdrawalsTypeOK, OneOpenRequest
<1> QED BY <1>1, <1>2, <1>3 DEF WalletInv

LEMMA ReviewSide ==
    ASSUME WalletConstants, WalletInv, KycNext,
           UNCHANGED <<deposits, withdrawals>>
    PROVE  WalletInv'
<1>1. AccountsTypeOK /\ LedgerChain
  BY DEF WalletInv, DepositsInv, DepositsTypeOK
<1>2. /\ UNCHANGED <<balance, denom, deleted, ledger, aged>>
      /\ tier' \in [Users -> 0 .. 3]
      /\ KycTypeOK' /\ TierMatchesReview'
  BY <1>1, ReviewStep DEF WalletInv
<1>3. AccountsTypeOK' /\ LedgerChain'
  BY <1>1, <1>2 DEF AccountsTypeOK, LedgerChain
<1> QED BY <1>2, <1>3, NoMoneySide DEF withdrawals

LEMMA AccountSide ==
    ASSUME WalletConstants, WalletInv, AccountsNext,
           UNCHANGED <<deposits, withdrawals, kyc>>
    PROVE  WalletInv'
<1>1. AccountsTypeOK /\ LedgerChain
  BY DEF WalletInv, DepositsInv, DepositsTypeOK
<1>2. AccountsTypeOK' /\ LedgerChain' /\ UNCHANGED ledger
  BY <1>1, AccountsStepType
<1>3. UNCHANGED tier
  BY DEF AccountsNext, DeleteUser, AgeOut
<1>4. KycTypeOK' /\ TierMatchesReview'
  BY <1>3 DEF WalletInv, KycTypeOK, TierMatchesReview, kyc
<1> QED BY <1>2, <1>4, NoMoneySide DEF withdrawals

-----------------------------------------------------------------------------

LEMMA WalletInitially ==
    ASSUME WalletConstants, WalletInit
    PROVE  WalletInv
<1>1. DepositsInv
  BY DepositsInitially DEF WalletConstants, WalletInit
<1>2. tier \in [Users -> 0 .. 3]
  BY <1>1 DEF DepositsInv, DepositsTypeOK, AccountsTypeOK
<1>3. KycTypeOK /\ TierMatchesReview
  <2>1. /\ kstatus \in [Users -> {"none", "unverified", "approved"}]
        /\ \A u \in Users : kstatus[u] = "approved" <=> tier[u] > 0
        /\ ktier = tier
        /\ submitting = {}
    BY DEF WalletInit, KycInit
  <2>2. KycTypeOK
    BY <1>2, <2>1 DEF KycTypeOK, KycStatuses
  <2>3. TierMatchesReview
    BY <1>2, <2>1 DEF TierMatchesReview
  <2> QED BY <2>2, <2>3
<1>4. WithdrawalsTypeOK /\ OneOpenRequest
  BY DEF WalletInit, WithdrawalsInit, WithdrawalsTypeOK, WithdrawalStatuses,
     OneOpenRequest
<1>5. PaidOutExactlyOnce
  <2>1. \A u \in Users : \A k \in DOMAIN ledger[u] :
            ledger[u][k].origin = <<"opening">>
    BY DEF WalletInit, AccountsInit, OpeningRow
  <2>2. ASSUME NEW w \in Withdrawals PROVE NoRowFor(<<"withdrawal_request", w>>)
    <3>1. <<"withdrawal_request", w>>[1] # <<"opening">>[1]
      OBVIOUS
    <3> QED BY <2>1, <3>1 DEF NoRowFor
  <2>3. \A w \in Withdrawals : ~Debited(w)
    BY DEF WalletInit, WithdrawalsInit, Debited
  <2> QED BY <2>2, <2>3 DEF PaidOutExactlyOnce
<1> QED BY <1>1, <1>3, <1>4, <1>5 DEF WalletInv

LEMMA WalletStep ==
    ASSUME WalletConstants, WalletInv, [WalletNext]_walletVars
    PROVE  WalletInv'
<1>1. CASE UNCHANGED walletVars
  <2>1. UNCHANGED <<balance, denom, tier, deleted, ledger, aged, deposits,
                    wstatus, kstatus, ktier, submitting>>
    BY <1>1 DEF walletVars, accounts, withdrawals, kyc
  <2>2. AccountsTypeOK' /\ LedgerChain'
    BY <2>1 DEF WalletInv, DepositsInv, DepositsTypeOK, AccountsTypeOK, LedgerChain
  <2>3. KycTypeOK' /\ TierMatchesReview'
    BY <2>1 DEF WalletInv, KycTypeOK, TierMatchesReview
  <2> QED BY <2>1, <2>2, <2>3, NoMoneySide
<1> QED BY <1>1, DepositSide, PayoutSide, ReviewSide, AccountSide DEF WalletNext

\* The invariant of the composition: every component keeps its own, and the
\* others', because each writes ledger rows of its own items only.
THEOREM WalletInvariant == WalletSpec => []WalletInv
<1>1. WalletConstants
  BY AccountsAssumption, GateAssumption, DepositsAssumption,
     WithdrawalsAssumption, KycAssumption DEF WalletConstants, DepositsConstants
<1>2. WalletInit => WalletInv
  BY <1>1, WalletInitially
<1>3. WalletInv /\ [WalletNext]_walletVars => WalletInv'
  BY <1>1, WalletStep
<1> QED BY <1>2, <1>3, PTL DEF WalletSpec

\* The tables keep their types: whatever deposits and payouts interleave, a
\* balance is neither negative nor too large for its column.
THEOREM WalletTypeCorrect == WalletSpec => []WalletTypeOK
<1>1. WalletInv => WalletTypeOK
  BY DEF WalletInv, WalletTypeOK, DepositsInv
<1> QED BY <1>1, WalletInvariant, PTL

\* ApproveAndDebit debits a payout exactly once, and nothing else does.
THEOREM WalletPaysOnce == WalletSpec => []PaidOutExactlyOnce
<1>1. WalletInv => PaidOutExactlyOnce
  BY DEF WalletInv
<1> QED BY <1>1, WalletInvariant, PTL

\* The partial unique index keeps one request of a user open, although the
\* gate is consulted before the transaction that inserts the row.
THEOREM WalletOneOpen == WalletSpec => []OneOpenRequest
<1>1. WalletInv => OneOpenRequest
  BY DEF WalletInv
<1> QED BY <1>1, WalletInvariant, PTL

\* The tier of a profile and the tier of its user agree, and a rejected or
\* escalated user has none.
THEOREM WalletTiersAgree == WalletSpec => []TierMatchesReview
<1>1. WalletInv => TierMatchesReview
  BY DEF WalletInv
<1> QED BY <1>1, WalletInvariant, PTL

-----------------------------------------------------------------------------
(* The wallet implements Settlement.                                       *)

\* A settlement of the deposits is one of the wallet.
LEMMA DepositLifts ==
    ASSUME NEW x \in DepositItems, Promise!Settle(x), UNCHANGED wstatus
    PROVE  WalletPromise!Settle(x)
<1>1. x[1] # "withdrawal_request" /\ x \in WalletItems
  BY DEF DepositItems, WalletItems
<1>2. WalletHolder[x] = DepositHolder[x] /\ WalletWorth[x] = DepositWorth[x]
  BY <1>1 DEF WalletHolder, WalletWorth
<1>3. /\ x \notin SettledDeposits
      /\ SettledDeposits' = SettledDeposits \cup {x}
      /\ \E amount \in DepositWorth[x] :
            /\ balance[DepositHolder[x]] + amount >= 0
            /\ balance' = [balance EXCEPT ![DepositHolder[x]] = @ + amount]
  BY DEF Promise!Settle
<1>4. x \notin SettledItems /\ SettledItems' = SettledItems \cup {x}
  BY <1>1, <1>3 DEF SettledItems, Debited
<1> QED BY <1>2, <1>3, <1>4 DEF WalletPromise!Settle

\* An approved payout settles its item, by a negative amount.
LEMMA PayoutRefines ==
    ASSUME WalletConstants, WalletInv, NEW w \in Withdrawals,
           ApproveAndDebit(w), UNCHANGED deposits
    PROVE  WalletPromise!Settle(<<"withdrawal_request", w>>)
<1> DEFINE x == <<"withdrawal_request", w>>
<1>1. x \in WalletItems /\ x[1] = "withdrawal_request" /\ x[2] = w
  BY DEF WalletItems
<1>2. WalletHolder[x] = WithdrawalUser[w] /\ WithdrawalUser[w] \in Users
  BY <1>1 DEF WalletHolder, WalletConstants, WithdrawalsAssumption
<1>3. WalletWorth[x] = {-GTQReservedCents(w)}
  BY <1>1 DEF WalletWorth
<1>4. GTQReservedCents(w) \in Nat
  BY ReservedType
<1>5. /\ ~Debited(w) /\ Debited(w)'
      /\ \A v \in Withdrawals : v # w => (Debited(v)' <=> Debited(v))
  BY DEF ApproveAndDebit, Reviewable, Debited, WalletInv, WithdrawalsTypeOK
<1>6. SettledDeposits' = SettledDeposits
  BY DEF SettledDeposits, deposits, DepositItems
<1>7. x \notin SettledItems
  <2>1. x \notin DepositItems
    BY DEF DepositItems
  <2> QED BY <1>1, <1>5, <2>1 DEF SettledItems, SettledDeposits
<1>8. SettledItems' = SettledItems \cup {x}
  <2>1. {y \in {"withdrawal_request"} \X Withdrawals : Debited(y[2])'}
            = {y \in {"withdrawal_request"} \X Withdrawals : Debited(y[2])} \cup {x}
    BY <1>1, <1>5
  <2> QED BY <1>6, <2>1 DEF SettledItems
<1>9. balance[WithdrawalUser[w]] \in Nat
  BY <1>2 DEF WalletInv, DepositsInv, DepositsTypeOK, AccountsTypeOK, Cents
<1>10. /\ balance[WithdrawalUser[w]] >= GTQReservedCents(w)
       /\ balance' = [balance EXCEPT ![WithdrawalUser[w]] = @ - GTQReservedCents(w)]
  BY DEF ApproveAndDebit, DebitUser, CanDebit
<1>11. /\ balance[WithdrawalUser[w]] + (-GTQReservedCents(w)) >= 0
       /\ balance[WithdrawalUser[w]] - GTQReservedCents(w)
            = balance[WithdrawalUser[w]] + (-GTQReservedCents(w))
  BY <1>4, <1>9, <1>10
<1>12. balance' = [balance EXCEPT ![WithdrawalUser[w]] = @ + (-GTQReservedCents(w))]
  BY <1>10, <1>11
<1> HIDE DEF x
<1> QED BY <1>2, <1>3, <1>7, <1>8, <1>11, <1>12 DEF WalletPromise!Settle, x

\* A step that settles no deposit and debits no payout stutters.
LEMMA WalletStutters ==
    ASSUME UNCHANGED balance,
           \A i \in Intents :
                istatus'[i] = "captured" <=> istatus[i] = "captured",
           \A p \in Proofs :
                pstatus'[p] = "approved" <=> pstatus[p] = "approved",
           \A w \in Withdrawals : Debited(w)' <=> Debited(w)
    PROVE  UNCHANGED <<SettledItems, balance>>
<1>1. UNCHANGED SettledDeposits
  BY QuietRefines
<1>2. {y \in {"withdrawal_request"} \X Withdrawals : Debited(y[2])'}
        = {y \in {"withdrawal_request"} \X Withdrawals : Debited(y[2])}
  OBVIOUS
<1> QED BY <1>1, <1>2 DEF SettledItems

LEMMA WalletRefines ==
    ASSUME WalletConstants, WalletInv, [WalletNext]_walletVars
    PROVE  [WalletPromise!Next]_<<SettledItems, balance>>
<1>1. CASE DepositsNext /\ UNCHANGED <<withdrawals, kyc>>
  <2>1. UNCHANGED wstatus
    BY <1>1 DEF withdrawals
  <2>2. CASE QuietDeposit
    BY <2>1, <2>2, WalletStutters DEF QuietDeposit, accounts, Debited
  <2>3. ASSUME NEW i \in Intents, IntentSettled(i)
        PROVE  WalletPromise!Next
    <3>1. <<"payment_intent", i>> \in DepositItems /\ <<"payment_intent", i>> \in WalletItems
      BY DEF DepositItems, WalletItems
    <3>2. Promise!Settle(<<"payment_intent", i>>)
      BY <2>3, IntentRefines DEF WalletConstants, WalletInv, DepositsInv
    <3>3. WalletPromise!Settle(<<"payment_intent", i>>)
      BY <2>1, <3>1, <3>2, DepositLifts
    <3> QED BY <3>1, <3>3 DEF WalletPromise!Next
  <2>4. ASSUME NEW p \in Proofs, ProofSettled(p)
        PROVE  WalletPromise!Next
    <3>1. <<"bank_transfer_proof", p>> \in DepositItems /\ <<"bank_transfer_proof", p>> \in WalletItems
      BY DEF DepositItems, WalletItems
    <3>2. Promise!Settle(<<"bank_transfer_proof", p>>)
      BY <2>4, ProofRefines DEF WalletConstants, WalletInv, DepositsInv
    <3>3. WalletPromise!Settle(<<"bank_transfer_proof", p>>)
      BY <2>1, <3>1, <3>2, DepositLifts
    <3> QED BY <3>1, <3>3 DEF WalletPromise!Next
  <2> QED
    BY <1>1, <2>2, <2>3, <2>4, DepositsStepCases
       DEF WalletConstants, WalletInv, DepositsInv
<1>2. CASE WithdrawalsNext /\ UNCHANGED <<deposits, kyc>>
  <2> PICK w \in Withdrawals :
        \/ CheckRequest(w) \/ InsertRequest(w) \/ ApproveAndDebit(w)
        \/ RejectWithdrawal(w) \/ MarkProcessed(w)
    BY <1>2 DEF WithdrawalsNext
  <2>1. CASE ApproveAndDebit(w)
    <3>1. WalletPromise!Settle(<<"withdrawal_request", w>>)
      BY <1>2, <2>1, PayoutRefines
    <3>2. <<"withdrawal_request", w>> \in WalletItems
      BY DEF WalletItems
    <3> QED BY <3>1, <3>2 DEF WalletPromise!Next
  <2>2. CASE ~ApproveAndDebit(w)
    <3>1. /\ UNCHANGED accounts
          /\ \A v \in Withdrawals : Debited(v)' <=> Debited(v)
      BY <2>2, QuietPayout DEF WalletInv
    <3>2. UNCHANGED <<balance, istatus, pstatus>>
      BY <1>2, <3>1 DEF accounts, deposits
    <3> QED BY <3>1, <3>2, WalletStutters
  <2> QED BY <2>1, <2>2
<1>3. CASE /\ UNCHANGED <<deposits, withdrawals>>
           /\ KycNext \/ AccountsNext \/ UNCHANGED accounts
  <2>1. UNCHANGED <<balance, istatus, pstatus, wstatus>>
    BY <1>3 DEF KycNext, CheckSubmission, UpsertSubmission, ApproveAndSetTier,
       RejectProfile, EscalateProfile, SetTier, AccountsNext, DeleteUser, AgeOut,
       accounts, deposits, withdrawals
  <2> QED BY <2>1, WalletStutters DEF Debited
<1> QED BY <1>1, <1>2, <1>3 DEF WalletNext, walletVars

\* Deposits, payouts and reviews together implement the abstract promise.
THEOREM WalletImplementsPromise == WalletSpec => WalletRefinesSettlement
<1>1. WalletConstants
  BY AccountsAssumption, GateAssumption, DepositsAssumption,
     WithdrawalsAssumption, KycAssumption DEF WalletConstants, DepositsConstants
<1>2. WalletInit => WalletPromise!Init
  <2> SUFFICES ASSUME WalletInit PROVE WalletPromise!Init
    OBVIOUS
  <2>1. SettledDeposits = {}
    BY ItemCases DEF SettledDeposits, WalletInit, DepositsInit
  <2>2. \A w \in Withdrawals : ~Debited(w)
    BY DEF WalletInit, WithdrawalsInit, Debited
  <2>3. SettledItems = {}
    BY <2>1, <2>2 DEF SettledItems
  <2>4. balance \in [Users -> Nat]
    BY <1>1 DEF WalletConstants, DepositsConstants, AccountsAssumption,
       WalletInit, AccountsInit
  <2> QED BY <2>3, <2>4 DEF WalletPromise!Init
<1>3. WalletInv /\ [WalletNext]_walletVars
        => [WalletPromise!Next]_<<SettledItems, balance>>
  BY <1>1, WalletRefines
<1> QED
  BY <1>2, <1>3, WalletInvariant, PTL
     DEF WalletSpec, WalletRefinesSettlement, WalletPromise!Spec

-----------------------------------------------------------------------------
(***************************************************************************)
(* The idempotency keys in front of the payment endpoints (Requests): a    *)
(* key's work is done once and its answer replayed as it was, for any set  *)
(* of requests and keys.                                                   *)
(*                                                                         *)
(* EffectOnce is not inductive.  What carries it is that a request behind  *)
(* the reservation owns the entry of its key, as long as none of the gaps  *)
(* befell the key, and that whoever did the work is named by the entry     *)
(* from then on.  For ReplayIsOriginal, a committed entry and a replayed   *)
(* answer name a request that is over, and a request that is over never    *)
(* changes.                                                                *)
(***************************************************************************)

\* The handler has not run yet: nothing was done.
NotYetDone ==
    \A r \in Requests :
        request[r] \in {"unsent", "load", "reserve", "handle", "unguarded"}
        => effects[r] = 0

\* Outside the gaps, the entry of a key belongs to the request that is behind
\* the reservation, and to the one that did the work.
OwnsEntry ==
    \A r \in Requests : KeyOf[r] \notin excused =>
        /\ request[r] # "unguarded"
        /\ request[r] \in {"handle", "commit", "release"}
           => store[KeyOf[r]] = InFlight(r)
        /\ request[r] = "release" => effects[r] = 0
        /\ effects[r] = 1 => store[KeyOf[r]].by = r

\* q is over, and its answer was a success.
Succeeded(q) ==
    /\ q \in Requests
    /\ request[q] = "over" /\ effects[q] = 1 /\ answer[q].said = "done"

\* What is committed and what is replayed is the success of a request with
\* the same key.
AnswersBacked ==
    /\ \A r \in Requests :
        request[r] = "commit" => effects[r] = 1 /\ answer[r].said = "done"
    /\ \A k \in Keys : store[k].state = "committed" =>
        Succeeded(store[k].by) /\ KeyOf[store[k].by] = k
    /\ \A r \in Requests : answer[r].said = "replayed" =>
        Succeeded(answer[r].of) /\ KeyOf[answer[r].of] = KeyOf[r]

RequestsInv == RequestsTypeOK /\ NotYetDone /\ OwnsEntry /\ AnswersBacked

-----------------------------------------------------------------------------

LEMMA EntryFacts ==
    /\ Missing \in Entries /\ Missing.state = "missing"
    /\ Missing.by = NoRequest
    /\ \A r \in Requests :
        /\ InFlight(r) \in Entries /\ Committed(r) \in Entries
        /\ InFlight(r).state = "in flight" /\ InFlight(r).by = r
        /\ Committed(r).state = "committed" /\ Committed(r).by = r
BY DEF Entries, Missing, InFlight, Committed

LEMMA CommittedBy ==
    ASSUME NEW e \in Entries, e.state = "committed" PROVE e.by \in Requests
<1>1. CASE e = Missing
    BY <1>1 DEF Missing
<1>2. CASE e # Missing
    BY <1>2 DEF Entries
<1> QED BY <1>1, <1>2

\* The effect of the small steps, at the request or key that they change and
\* elsewhere.
LEMMA GotoFacts ==
    ASSUME RequestsTypeOK, NEW r \in Requests, NEW pc \in Steps, Goto(r, pc)
    PROVE  /\ request' \in [Requests -> Steps] /\ request'[r] = pc
           /\ \A s \in Requests : s # r => request'[s] = request[s]
BY DEF RequestsTypeOK, Goto

LEMMA AnsweredFacts ==
    ASSUME RequestsTypeOK, NEW r \in Requests,
           NEW said \in {"conflict", "replayed", "done", "error"},
           NEW of \in Requests \cup {NoRequest}, Answered(r, said, of)
    PROVE  /\ answer' \in [Requests -> Answers]
           /\ answer'[r].said = said /\ answer'[r].of = of
           /\ \A s \in Requests : s # r => answer'[s] = answer[s]
<1>1. [said |-> said, of |-> of] \in Answers
    BY DEF Answers
<1> QED BY <1>1 DEF RequestsTypeOK, Answered

LEMMA EffectFacts ==
    ASSUME RequestsTypeOK, NEW r \in Requests, effects[r] = 0, TakesEffect(r)
    PROVE  /\ effects' \in [Requests -> {0, 1}] /\ effects'[r] = 1
           /\ \A s \in Requests : s # r => effects'[s] = effects[s]
BY DEF RequestsTypeOK, TakesEffect

LEMMA StoreFacts ==
    ASSUME RequestsTypeOK, NEW k \in Keys, NEW e \in Entries,
           store' = [store EXCEPT ![k] = e]
    PROVE  /\ store' \in [Keys -> Entries] /\ store'[k] = e
           /\ \A j \in Keys : j # k => store'[j] = store[j]
BY DEF RequestsTypeOK

LEMMA FaultFacts ==
    ASSUME RequestsTypeOK, Fault PROVE faults' \in 0 .. MaxFaults
BY RequestsAssumption DEF RequestsTypeOK, Fault

LEMMA KeyOfType == ASSUME NEW r \in Requests PROVE KeyOf[r] \in Keys
BY RequestsAssumption

LEMMA RequestsInitially == RequestsInit => RequestsInv
<1> SUFFICES ASSUME RequestsInit PROVE RequestsInv
    OBVIOUS
<1>1. Unanswered \in Answers /\ Unanswered.said = "nothing"
    BY DEF Answers, Unanswered
<1>2. RequestsTypeOK
    <2>1. store \in [Keys -> Entries] /\ answer \in [Requests -> Answers]
        BY <1>1, EntryFacts DEF RequestsInit
    <2>2. /\ request \in [Requests -> Steps] /\ effects \in [Requests -> {0, 1}]
          /\ excused \subseteq Keys /\ faults \in 0 .. MaxFaults
        BY RequestsAssumption DEF RequestsInit, Steps
    <2> QED BY <2>1, <2>2 DEF RequestsTypeOK
<1>3. NotYetDone /\ OwnsEntry
    BY DEF RequestsInit, NotYetDone, OwnsEntry
<1>4. AnswersBacked
    BY <1>1, EntryFacts DEF RequestsInit, AnswersBacked
<1> QED BY <1>2, <1>3, <1>4 DEF RequestsInv

\* A request whose step takes no effect and does not touch the store: what it
\* owns stays owned.
LEMMA MoveKeeps ==
    ASSUME RequestsInv, NEW r \in Requests, NEW pc \in Steps,
           request[r] # "over", Goto(r, pc), UNCHANGED <<store, effects, answer>>,
           excused \subseteq excused', excused' \subseteq Keys,
           faults' \in 0 .. MaxFaults,
           pc = "unguarded" => KeyOf[r] \in excused',
           pc \in {"load", "reserve", "unguarded"} =>
                request[r] \in {"unsent", "load", "reserve"},
           pc \in {"load", "reserve", "unguarded", "over"}
    PROVE  RequestsInv'
<1>1. RequestsTypeOK'
    BY GotoFacts DEF RequestsInv, RequestsTypeOK
<1>2. /\ request'[r] = pc
      /\ \A s \in Requests : s # r => request'[s] = request[s]
    BY GotoFacts DEF RequestsInv
<1>3. NotYetDone'
    BY <1>2 DEF RequestsInv, NotYetDone
<1>4. OwnsEntry'
    BY <1>2 DEF RequestsInv, OwnsEntry
<1>5. AnswersBacked'
    BY <1>2 DEF RequestsInv, AnswersBacked, Succeeded
<1> QED BY <1>1, <1>3, <1>4, <1>5 DEF RequestsInv

LEMMA SendKeeps ==
    ASSUME RequestsInv, NEW r \in Requests, Send(r)
    PROVE  RequestsInv'
BY MoveKeeps DEF Send, Steps, RequestsInv, RequestsTypeOK

LEMMA LoadFailsKeeps ==
    ASSUME RequestsInv, NEW r \in Requests, LoadFails(r)
    PROVE  RequestsInv'
BY MoveKeeps, FaultFacts, KeyOfType
DEF LoadFails, Excuse, Steps, RequestsInv, RequestsTypeOK

LEMMA CommitOrReleaseFailsKeeps ==
    ASSUME RequestsInv, NEW r \in Requests, CommitOrReleaseFails(r)
    PROVE  RequestsInv'
BY MoveKeeps, FaultFacts
DEF CommitOrReleaseFails, Steps, RequestsInv, RequestsTypeOK

\* A request that is not over may do what it does: the others, and what they
\* succeeded in, are as they were.
LEMMA OthersSucceeded ==
    ASSUME NEW r \in Requests, request[r] # "over",
           \A s \in Requests : s # r =>
                /\ request'[s] = request[s] /\ effects'[s] = effects[s]
                /\ answer'[s] = answer[s]
    PROVE  \A q : Succeeded(q) => Succeeded(q)'
BY DEF Succeeded

\* A request that is turned away is over, with a conflict or a replay.
LEMMA TurnAwayKeeps ==
    ASSUME RequestsInv, NEW r \in Requests, request[r] # "over",
           NEW said \in {"conflict", "replayed"},
           NEW of \in Requests \cup {NoRequest},
           said = "replayed" => Succeeded(of) /\ KeyOf[of] = KeyOf[r],
           Goto(r, "over"), Answered(r, said, of),
           UNCHANGED <<store, effects, excused, faults>>
    PROVE  RequestsInv'
<1> "over" \in Steps BY DEF Steps
<1>1. RequestsTypeOK'
    BY GotoFacts, AnsweredFacts DEF RequestsInv, RequestsTypeOK
<1>2. /\ request'[r] = "over" /\ answer'[r].said = said /\ answer'[r].of = of
      /\ \A s \in Requests : s # r =>
            request'[s] = request[s] /\ answer'[s] = answer[s]
    BY GotoFacts, AnsweredFacts DEF RequestsInv
<1>3. NotYetDone'
    BY <1>2 DEF RequestsInv, NotYetDone
<1>4. OwnsEntry'
    BY <1>2 DEF RequestsInv, OwnsEntry
<1>5. \A q : Succeeded(q) => Succeeded(q)'
    BY <1>2, OthersSucceeded
<1>6. AnswersBacked'
    BY <1>2, <1>5 DEF RequestsInv, AnswersBacked
<1> QED BY <1>1, <1>3, <1>4, <1>6 DEF RequestsInv

LEMMA LoadKeeps ==
    ASSUME RequestsInv, NEW r \in Requests, Load(r)
    PROVE  RequestsInv'
<1>0. request[r] = "load" /\ KeyOf[r] \in Keys
    BY KeyOfType DEF Load
<1>1. CASE Goto(r, "reserve") /\ UNCHANGED answer
    BY <1>0, <1>1, MoveKeeps
    DEF Load, Steps, RequestsInv, RequestsTypeOK
<1>2. CASE Goto(r, "over") /\ Answered(r, "conflict", NoRequest)
    BY <1>0, <1>2, TurnAwayKeeps DEF Load
<1>3. CASE /\ store[KeyOf[r]].state = "committed"
           /\ Goto(r, "over") /\ Answered(r, "replayed", store[KeyOf[r]].by)
    <2>1. /\ Succeeded(store[KeyOf[r]].by)
          /\ KeyOf[store[KeyOf[r]].by] = KeyOf[r]
        BY <1>0, <1>3 DEF RequestsInv, AnswersBacked
    <2>2. store[KeyOf[r]].by \in Requests
        BY <2>1 DEF Succeeded
    <2> QED BY <1>0, <1>3, <2>1, <2>2, TurnAwayKeeps DEF Load
<1> QED BY <1>1, <1>2, <1>3 DEF Load

\* A reservation is made where there is no entry: nobody owned one.
LEMMA ReservationKeeps ==
    ASSUME RequestsInv, NEW r \in Requests, request[r] = "reserve",
           NEW pc \in {"handle", "unguarded"},
           Reservable(r), Reserve(r), Goto(r, pc), UNCHANGED <<effects, answer>>,
           excused \subseteq excused', excused' \subseteq Keys,
           faults' \in 0 .. MaxFaults,
           pc = "unguarded" => KeyOf[r] \in excused'
    PROVE  RequestsInv'
<1> pc \in Steps BY DEF Steps
<1>1. /\ KeyOf[r] \in Keys /\ store[KeyOf[r]] = Missing
      /\ store' \in [Keys -> Entries] /\ store'[KeyOf[r]] = InFlight(r)
      /\ \A j \in Keys : j # KeyOf[r] => store'[j] = store[j]
    BY KeyOfType, EntryFacts, StoreFacts DEF Reservable, Reserve, RequestsInv
<1>2. /\ request'[r] = pc
      /\ \A s \in Requests : s # r => request'[s] = request[s]
    BY GotoFacts DEF RequestsInv
<1>3. RequestsTypeOK'
    BY <1>1, GotoFacts DEF RequestsInv, RequestsTypeOK
<1>4. NotYetDone'
    BY <1>2 DEF RequestsInv, NotYetDone
<1>5. OwnsEntry'
    <2> SUFFICES ASSUME NEW s \in Requests, KeyOf[s] \notin excused'
        PROVE  /\ request'[s] # "unguarded"
               /\ request'[s] \in {"handle", "commit", "release"}
                  => store'[KeyOf[s]] = InFlight(s)
               /\ request'[s] = "release" => effects'[s] = 0
               /\ effects'[s] = 1 => store'[KeyOf[s]].by = s
        BY DEF OwnsEntry
    <2>1. CASE s = r
        BY <1>1, <1>2, <2>1, EntryFacts DEF RequestsInv, NotYetDone
    <2>2. CASE s # r /\ KeyOf[s] = KeyOf[r]
        <3>1. Missing # InFlight(s) /\ Missing.by # s
            BY EntryFacts, RequestsAssumption
        <3> QED BY <1>1, <1>2, <2>2, <3>1 DEF RequestsInv, OwnsEntry
    <2>3. CASE KeyOf[s] # KeyOf[r]
        BY <1>1, <1>2, <2>3, KeyOfType DEF RequestsInv, OwnsEntry
    <2> QED BY <2>1, <2>2, <2>3
<1>6. \A q : Succeeded(q) => Succeeded(q)'
    BY <1>2, OthersSucceeded
<1>7. \A k \in Keys : store'[k].state = "committed" => store'[k] = store[k]
    BY <1>1, EntryFacts
<1>8. AnswersBacked'
    BY <1>2, <1>6, <1>7 DEF RequestsInv, AnswersBacked
<1> QED BY <1>3, <1>4, <1>5, <1>8 DEF RequestsInv

LEMMA TryReserveKeeps ==
    ASSUME RequestsInv, NEW r \in Requests, TryReserve(r)
    PROVE  RequestsInv'
<1>1. CASE Reservable(r) /\ Reserve(r) /\ Goto(r, "handle") /\ UNCHANGED answer
    BY <1>1, ReservationKeeps DEF TryReserve, RequestsInv, RequestsTypeOK
<1>2. CASE Goto(r, "over") /\ Answered(r, "conflict", NoRequest) /\ UNCHANGED store
    BY <1>2, TurnAwayKeeps DEF TryReserve
<1> QED BY <1>1, <1>2 DEF TryReserve

LEMMA ReserveFailsKeeps ==
    ASSUME RequestsInv, NEW r \in Requests, ReserveFails(r)
    PROVE  RequestsInv'
<1>1. /\ excused \subseteq excused' /\ excused' \subseteq Keys
      /\ KeyOf[r] \in excused' /\ faults' \in 0 .. MaxFaults
    BY FaultFacts, KeyOfType
    DEF ReserveFails, Excuse, RequestsInv, RequestsTypeOK
<1>2. CASE Reservable(r) /\ Reserve(r)
    BY <1>1, <1>2, ReservationKeeps DEF ReserveFails
<1>3. CASE UNCHANGED store
    BY <1>1, <1>3, MoveKeeps DEF ReserveFails, Steps
<1> QED BY <1>2, <1>3 DEF ReserveFails

\* The handler's work, wherever it is done from: an answer of its own, and
\* the store as it was.
LEMMA WorkKeeps ==
    ASSUME RequestsInv, NEW r \in Requests,
           request[r] \in {"handle", "unguarded"},
           NEW pc \in {"commit", "release", "over"}, Goto(r, pc),
           TakesEffect(r) \/ UNCHANGED effects,
           NEW said \in {"done", "error"},
           Answered(r, said, r) \/ (UNCHANGED answer /\ pc = "over"),
           pc = "commit" => TakesEffect(r) /\ said = "done",
           pc = "release" => UNCHANGED effects \/ KeyOf[r] \in excused',
           pc # "over" => request[r] = "handle",
           UNCHANGED store, excused \subseteq excused', excused' \subseteq Keys,
           faults' \in 0 .. MaxFaults
    PROVE  RequestsInv'
<1> pc \in Steps BY DEF Steps
<1>1. effects[r] = 0
    BY DEF RequestsInv, NotYetDone
<1>2. /\ request'[r] = pc
      /\ \A s \in Requests : s # r => request'[s] = request[s]
    BY GotoFacts DEF RequestsInv
<1>3. /\ effects' \in [Requests -> {0, 1}]
      /\ pc = "commit" => effects'[r] = 1
      /\ pc = "release" => effects'[r] = 0 \/ KeyOf[r] \in excused'
      /\ \A s \in Requests : s # r => effects'[s] = effects[s]
    BY <1>1, EffectFacts DEF RequestsInv, RequestsTypeOK
<1>4. /\ answer' \in [Requests -> Answers]
      /\ answer'[r].said = "replayed" => answer'[r] = answer[r]
      /\ pc = "commit" => answer'[r].said = "done"
      /\ \A s \in Requests : s # r => answer'[s] = answer[s]
    BY AnsweredFacts DEF RequestsInv, RequestsTypeOK
<1>5. RequestsTypeOK'
    BY <1>3, <1>4, GotoFacts DEF RequestsInv, RequestsTypeOK
<1>6. NotYetDone'
    BY <1>2, <1>3 DEF RequestsInv, NotYetDone
<1>7. OwnsEntry'
    <2> SUFFICES ASSUME NEW s \in Requests, KeyOf[s] \notin excused'
        PROVE  /\ request'[s] # "unguarded"
               /\ request'[s] \in {"handle", "commit", "release"}
                  => store[KeyOf[s]] = InFlight(s)
               /\ request'[s] = "release" => effects'[s] = 0
               /\ effects'[s] = 1 => store[KeyOf[s]].by = s
        BY DEF OwnsEntry
    <2>1. CASE s = r
        <3>1. request[r] = "handle" /\ store[KeyOf[r]] = InFlight(r)
            BY <2>1 DEF RequestsInv, OwnsEntry
        <3>2. InFlight(r).by = r
            BY EntryFacts
        <3> QED BY <1>2, <1>3, <2>1, <3>1, <3>2
    <2>2. CASE s # r
        BY <1>2, <1>3, <2>2 DEF RequestsInv, OwnsEntry
    <2> QED BY <2>1, <2>2
<1>8. \A q : Succeeded(q) => Succeeded(q)'
    BY <1>2, <1>3, <1>4, OthersSucceeded
<1>9. AnswersBacked'
    BY <1>2, <1>3, <1>4, <1>8 DEF RequestsInv, AnswersBacked
<1> QED BY <1>5, <1>6, <1>7, <1>9 DEF RequestsInv

LEMMA HandleKeeps ==
    ASSUME RequestsInv, NEW r \in Requests, Handle(r)
    PROVE  RequestsInv'
<1>1. CASE TakesEffect(r) /\ Answered(r, "done", r) /\ Goto(r, "commit")
    BY <1>1, WorkKeeps DEF Handle, RequestsInv, RequestsTypeOK
<1>2. CASE UNCHANGED effects /\ Answered(r, "error", r) /\ Goto(r, "release")
    BY <1>2, WorkKeeps DEF Handle, RequestsInv, RequestsTypeOK
<1> QED BY <1>1, <1>2 DEF Handle, ToStore

LEMMA HandleErrsLateKeeps ==
    ASSUME RequestsInv, NEW r \in Requests, HandleErrsLate(r)
    PROVE  RequestsInv'
<1>1. /\ excused \subseteq excused' /\ excused' \subseteq Keys
      /\ KeyOf[r] \in excused' /\ faults' \in 0 .. MaxFaults
    BY FaultFacts, KeyOfType
    DEF HandleErrsLate, Excuse, RequestsInv, RequestsTypeOK
<1> QED BY <1>1, WorkKeeps DEF HandleErrsLate, ToStore

\* Only a key that is excused has a request without a reservation.
LEMMA HandleUnguardedKeeps ==
    ASSUME RequestsInv, NEW r \in Requests, HandleUnguarded(r)
    PROVE  RequestsInv'
<1>1. CASE TakesEffect(r) /\ Answered(r, "done", r)
    BY <1>1, WorkKeeps DEF HandleUnguarded, RequestsInv, RequestsTypeOK
<1>2. CASE UNCHANGED effects /\ Answered(r, "error", r)
    BY <1>2, WorkKeeps DEF HandleUnguarded, RequestsInv, RequestsTypeOK
<1> QED BY <1>1, <1>2 DEF HandleUnguarded

LEMMA CrashKeeps ==
    ASSUME RequestsInv, NEW r \in Requests, Crash(r)
    PROVE  RequestsInv'
<1>1. /\ excused \subseteq excused' /\ excused' \subseteq Keys
      /\ faults' \in 0 .. MaxFaults
    BY FaultFacts DEF Crash, RequestsInv, RequestsTypeOK
<1>2. CASE UNCHANGED effects
    BY <1>1, <1>2, MoveKeeps DEF Crash, Steps
<1>3. CASE request[r] \in {"handle", "unguarded"} /\ TakesEffect(r)
    BY <1>1, <1>3, WorkKeeps DEF Crash
<1> QED BY <1>2, <1>3 DEF Crash

LEMMA CommitOrReleaseKeeps ==
    ASSUME RequestsInv, NEW r \in Requests, CommitOrRelease(r)
    PROVE  RequestsInv'
<1> "over" \in Steps BY DEF Steps
<1>1. PICK e \in Entries :
        /\ store' = [store EXCEPT ![KeyOf[r]] = e]
        /\ \/ request[r] = "commit" /\ e.by = r
           \/ request[r] = "release" /\ e.state # "committed"
    <2>1. CASE request[r] = "commit" /\ Commit(r)
        BY <2>1, EntryFacts DEF Commit
    <2>2. CASE request[r] = "release" /\ Release(r)
        BY <2>2, EntryFacts DEF Release
    <2> QED BY <2>1, <2>2 DEF CommitOrRelease
<1>2. KeyOf[r] \in Keys
    BY KeyOfType
<1>3. /\ store' \in [Keys -> Entries] /\ store'[KeyOf[r]] = e
      /\ \A j \in Keys : j # KeyOf[r] => store'[j] = store[j]
    BY <1>1, <1>2, StoreFacts DEF RequestsInv
<1>4. /\ request'[r] = "over"
      /\ \A s \in Requests : s # r => request'[s] = request[s]
    BY GotoFacts DEF CommitOrRelease, RequestsInv
<1>5. UNCHANGED <<effects, answer, excused, faults>> /\ request[r] # "over"
    BY <1>1 DEF CommitOrRelease
<1>6. RequestsTypeOK'
    BY <1>3, <1>5, GotoFacts DEF CommitOrRelease, RequestsInv, RequestsTypeOK
<1>7. NotYetDone'
    BY <1>4, <1>5 DEF RequestsInv, NotYetDone
<1>8. OwnsEntry'
    <2> SUFFICES ASSUME NEW s \in Requests, KeyOf[s] \notin excused
        PROVE  /\ request'[s] # "unguarded"
               /\ request'[s] \in {"handle", "commit", "release"}
                  => store'[KeyOf[s]] = InFlight(s)
               /\ request'[s] = "release" => effects[s] = 0
               /\ effects[s] = 1 => store'[KeyOf[s]].by = s
        BY <1>5 DEF OwnsEntry
    <2>1. CASE s = r
        <3>1. request[r] = "release" => effects[r] = 0
            BY <2>1 DEF RequestsInv, OwnsEntry
        <3> QED BY <1>1, <1>3, <1>4, <2>1, <3>1
    <2>2. CASE s # r /\ KeyOf[s] = KeyOf[r]
        \* r owns the entry, so s owns nothing.
        <3>1. store[KeyOf[r]] = InFlight(r) /\ InFlight(r).by = r
              /\ InFlight(s).by = s
            BY <1>1, <2>2, EntryFacts DEF RequestsInv, OwnsEntry
        <3> QED BY <1>4, <2>2, <3>1 DEF RequestsInv, OwnsEntry
    <2>3. CASE KeyOf[s] # KeyOf[r]
        BY <1>3, <1>4, <2>3, KeyOfType DEF RequestsInv, OwnsEntry
    <2> QED BY <2>1, <2>2, <2>3
<1>9. \A q : Succeeded(q) => Succeeded(q)'
    BY <1>4, <1>5, OthersSucceeded
<1>10. request[r] = "commit" => Succeeded(r)'
    BY <1>4, <1>5 DEF RequestsInv, AnswersBacked, Succeeded
<1>11. \A k \in Keys : store'[k].state = "committed" =>
            \/ store'[k] = store[k]
            \/ store'[k].by = r /\ k = KeyOf[r] /\ Succeeded(r)'
    BY <1>1, <1>3, <1>10
<1>12. AnswersBacked'
    BY <1>4, <1>5, <1>9, <1>11 DEF RequestsInv, AnswersBacked
<1> QED BY <1>6, <1>7, <1>8, <1>12 DEF RequestsInv

\* Whatever an entry that expires would have prevented is excused.
LEMMA ExpireKeeps ==
    ASSUME RequestsInv, NEW k \in Keys, Expire(k)
    PROVE  RequestsInv'
<1>1. /\ store' \in [Keys -> Entries] /\ store'[k] = Missing
      /\ \A j \in Keys : j # k => store'[j] = store[j]
    BY StoreFacts, EntryFacts DEF Expire, RequestsInv
<1>2. UNCHANGED <<request, effects, answer, faults>> /\ excused' = excused \cup {k}
    BY DEF Expire
<1>3. RequestsTypeOK'
    BY <1>1, <1>2 DEF RequestsInv, RequestsTypeOK
<1>4. NotYetDone'
    BY <1>2 DEF RequestsInv, NotYetDone
<1>5. OwnsEntry'
    BY <1>1, <1>2, KeyOfType DEF RequestsInv, OwnsEntry
<1>6. \A j \in Keys : store'[j].state = "committed" => store'[j] = store[j]
    BY <1>1, EntryFacts
<1>7. AnswersBacked'
    BY <1>2, <1>6 DEF RequestsInv, AnswersBacked, Succeeded
<1> QED BY <1>3, <1>4, <1>5, <1>7 DEF RequestsInv

LEMMA RequestsStep == RequestsInv /\ [RequestsNext]_requestVars => RequestsInv'
<1> SUFFICES ASSUME RequestsInv, [RequestsNext]_requestVars PROVE RequestsInv'
    OBVIOUS
<1>1. CASE \E k \in Keys : Expire(k)
    BY <1>1, ExpireKeeps
<1>2. CASE UNCHANGED requestVars
    BY <1>2 DEF requestVars, RequestsInv, RequestsTypeOK, NotYetDone,
                OwnsEntry, AnswersBacked, Succeeded
<1>3. ASSUME NEW r \in Requests,
             \/ Send(r) \/ Load(r) \/ LoadFails(r) \/ TryReserve(r)
             \/ ReserveFails(r) \/ Handle(r) \/ HandleErrsLate(r)
             \/ HandleUnguarded(r) \/ CommitOrRelease(r)
             \/ CommitOrReleaseFails(r) \/ Crash(r)
      PROVE  RequestsInv'
    BY <1>3, SendKeeps, LoadKeeps, LoadFailsKeeps, TryReserveKeeps,
       ReserveFailsKeeps, HandleKeeps, HandleErrsLateKeeps,
       HandleUnguardedKeeps, CommitOrReleaseKeeps, CommitOrReleaseFailsKeeps,
       CrashKeeps
<1> QED BY <1>1, <1>2, <1>3 DEF RequestsNext

\* The inductive invariant: types, who owns the entry of a key, and which
\* request an answer comes from.
THEOREM RequestsInvariant == RequestsSpec => []RequestsInv
BY RequestsInitially, RequestsStep, PTL DEF RequestsSpec

\* Entries, requests, effects and answers keep their types: in particular no
\* request takes effect twice, whatever fails around serveIdempotent.
THEOREM RequestsTypeCorrect == RequestsSpec => []RequestsTypeOK
<1>1. RequestsInv => RequestsTypeOK BY DEF RequestsInv
<1> QED BY <1>1, RequestsInvariant, PTL

\* The work of a key is done at most once outside the documented gaps, for
\* any number of requests and keys (Reserve is SET NX, and the entry is kept
\* until Commit or an answer that is an error).
THEOREM RequestsTakeEffectOnce == RequestsSpec => []EffectOnce
<1>1. RequestsInv => EffectOnce
    BY RequestsAssumption DEF RequestsInv, OwnsEntry, EffectOnce
<1> QED BY <1>1, RequestsInvariant, PTL

\* replayResponse repeats the success of a request with the same key, for any
\* number of requests and keys.
THEOREM RequestsReplayOriginal == RequestsSpec => []ReplayIsOriginal
<1>1. RequestsInv => ReplayIsOriginal
    BY DEF RequestsInv, AnswersBacked, Succeeded, ReplayIsOriginal
<1> QED BY <1>1, RequestsInvariant, PTL

=============================================================================
