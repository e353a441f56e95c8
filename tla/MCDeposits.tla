----------------------------- MODULE MCDeposits -----------------------------
(***************************************************************************)
(* One user and two concurrent requests, a checkout of Recurrente, a       *)
(* PayPal order and a bank transfer.  The caps let every deposit through,  *)
(* and refuse all of them together.                                        *)
(***************************************************************************)
EXTENDS Deposits, TLC

MCUsers == {"u1"}
MCIntents == {"i1", "i2"}
MCCaptures == {"c1"}
MCProofs == {"p1"}
MCIds == MCIntents \cup MCCaptures \cup MCProofs

MCOpening == "u1" :> 0
MCStartTiers == {1}

MCIntentUser == [i \in Intents |-> "u1"]
MCIntentCents == [i \in Intents |-> IF i = "i1" THEN 3 ELSE 1]
MCIntentCurrency == [i \in Intents |-> IF i = "i1" THEN "GTQ" ELSE "USD"]
MCIntentProvider ==
    [i \in Intents |-> IF i = "i1" THEN "recurrente" ELSE "paypal"]
MCCaptureIntent == [c \in Captures |-> "i2"]
MCProofUser == [p \in Proofs |-> "u1"]
MCProofCents == [p \in Proofs |-> 6]
MCProofCurrency == [p \in Proofs |-> "GTQ"]

MCDepositLimit == <<8, 9>>
MCDepositVelocity == <<10, 20>>
MCWithdrawalVelocity == <<0, 8>>
=============================================================================
