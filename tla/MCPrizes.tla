------------------------------ MODULE MCPrizes ------------------------------
(***************************************************************************)
(* A group needs two members for two prizes here (the code needs five).    *)
(* One quiniela with two members, two administrators and a fee that        *)
(* changes.                                                                *)
(***************************************************************************)
EXTENDS Prizes, TLC

MCIds == Users \cup Quinielas
MCOpening == [u \in Users |-> 0]
MCStartTiers == {0, 2}

MCScore ==
    [q \in Quinielas |->
        [u \in Users |-> Standing(IF u = 1 THEN 5 ELSE 2, 1, 1, 0, Farthest)]]

MCDepositLimit == <<8, 12>>
MCDepositVelocity == <<10, 20>>
MCWithdrawalVelocity == <<0, 12>>
=============================================================================
