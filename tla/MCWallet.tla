------------------------------ MODULE MCWallet ------------------------------
(***************************************************************************)
(* One user with an old deposit of 6 who opens two withdrawals that do not *)
(* both fit, while two administrators approve a bank transfer of 3, also   *)
(* for 1 cent instead, and a third reviews the profile.                    *)
(***************************************************************************)
EXTENDS Wallet, TLC

MCUsers == {"u1"}
MCProofs == {"p1"}
MCWithdrawals == {"w1", "w2"}
MCIds == MCProofs \cup MCWithdrawals

MCOpening == "u1" :> 6
MCStartTiers == {0, 2}

MCProofUser == "p1" :> "u1"
MCProofCents == "p1" :> 3
MCProofCurrency == "p1" :> "GTQ"
MCNothing == <<>>

MCWithdrawalUser == [w \in MCWithdrawals |-> "u1"]
MCWithdrawalCents == "w1" :> 4 @@ "w2" :> 1
MCWithdrawalCurrency == "w1" :> "GTQ" @@ "w2" :> "USD"

MCDepositLimit == <<8, 12>>
MCDepositVelocity == <<10, 20>>
MCWithdrawalVelocity == <<0, 12>>
=============================================================================
