------------------------------ MODULE MCOutbox ------------------------------
(***************************************************************************)
(* Two replicas, an alert for the administrators, a broadcast to two users *)
(* and one reminder.                                                       *)
(***************************************************************************)
EXTENDS Outbox, TLC

CONSTANTS alert, notice, x, k1, u1, u2

MCTypes == {alert, notice}
MCRecipients == notice :> {u1, u2}
MCKeyEvent == k1 :> [type |-> notice, about |-> x]
=============================================================================
