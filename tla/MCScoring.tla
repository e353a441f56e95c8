------------------------------ MODULE MCScoring -----------------------------
(***************************************************************************)
(* One match, the prediction of one user, one administrator and one worker;*)
(* the administrator is a second scorer whenever an event could not be     *)
(* published.  The rules change between two sets that value an exact score *)
(* differently.                                                            *)
(***************************************************************************)
EXTENDS Scoring

Score(h, a) == [home |-> h, away |-> a, method |-> "none", winner |-> "none"]
Rules(e, o, g) == [exactScore |-> e, correctOutcome |-> o, goalDifference |-> g,
                   extraTimeBonus |-> 0, penaltiesBonus |-> 0]

MCResults == {Score(1, 0), Score(0, 1)}
MCForecasts == {Score(1, 0), Score(2, 0)}
MCConfigs == {Rules(5, 2, 1), Rules(3, 2, 1)}
=============================================================================
