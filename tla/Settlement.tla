----------------------------- MODULE Settlement -----------------------------
(***************************************************************************)
(* What every money flow of the platform promises, without saying how: an  *)
(* item (a deposit, a payout, a prize ...) moves the balance of its holder *)
(* at most once, by one of the amounts it is worth, and no balance ever    *)
(* becomes negative.                                                       *)
(***************************************************************************)
EXTENDS Integers

CONSTANTS Parties,   \* holders of a balance
          Items,     \* things that may be settled
          Holder,    \* Holder[x]: whose balance x moves
          Worth      \* Worth[x]: the signed amounts x may be settled for

VARIABLES settled,   \* items already settled
          funds      \* balance of each party

Init ==
    /\ settled = {}
    /\ funds \in [Parties -> Nat]

Settle(x) ==
    /\ x \notin settled
    /\ settled' = settled \cup {x}
    /\ \E amount \in Worth[x] :
        /\ funds[Holder[x]] + amount >= 0
        /\ funds' = [funds EXCEPT ![Holder[x]] = @ + amount]

Next == \E x \in Items : Settle(x)

Spec == Init /\ [][Next]_<<settled, funds>>
=============================================================================
