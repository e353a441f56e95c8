------------------------------- MODULE Wallet -------------------------------
(***************************************************************************)
(* Deposits, withdrawals and KYC reviews of the same users, interleaved.   *)
(* They meet in the users row: the balance that deposits raise and payouts *)
(* lower, and the tier that reviews change while requests are under way.   *)
(***************************************************************************)
EXTENDS Deposits, Withdrawals, Kyc

walletVars == <<accounts, deposits, withdrawals, kyc>>

WalletInit == AccountsInit /\ DepositsInit /\ WithdrawalsInit /\ KycInit

WalletNext ==
    \/ DepositsNext /\ UNCHANGED <<withdrawals, kyc>>
    \/ WithdrawalsNext /\ UNCHANGED <<deposits, kyc>>
    \/ KycNext /\ UNCHANGED <<deposits, withdrawals>>
    \/ AccountsNext /\ UNCHANGED <<deposits, withdrawals, kyc>>

WalletSpec == WalletInit /\ [][WalletNext]_walletVars

-----------------------------------------------------------------------------

WalletTypeOK == DepositsTypeOK /\ WithdrawalsTypeOK /\ KycTypeOK

WalletItems == DepositItems \cup ({"withdrawal_request"} \X Withdrawals)
WalletHolder == [x \in WalletItems |->
    IF x[1] = "withdrawal_request" THEN WithdrawalUser[x[2]]
                                   ELSE DepositHolder[x]]
WalletWorth == [x \in WalletItems |->
    IF x[1] = "withdrawal_request" THEN {-GTQReservedCents(x[2])}
                                   ELSE DepositWorth[x]]
SettledItems ==
    SettledDeposits \cup {x \in {"withdrawal_request"} \X Withdrawals :
                            Debited(x[2])}

WalletPromise == INSTANCE Settlement WITH
    Parties <- Users, Items <- WalletItems, Holder <- WalletHolder,
    Worth <- WalletWorth, settled <- SettledItems, funds <- balance

\* The whole wallet implements Settlement: deposits, payouts and reviews
\* interleaved in any order move a balance once per item, by what the item
\* is worth, and never below zero.
WalletRefinesSettlement == WalletPromise!Spec
=============================================================================
