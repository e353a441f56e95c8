----------------------------- MODULE MCKnockout -----------------------------
(***************************************************************************)
(* Two groups of three teams.  Group B is over, and the last two matches   *)
(* of group A are open.  Its winner takes the place of 9 in the final; ko  *)
(* has been played and decides about 10, but the event was lost.  A        *)
(* correction turns the table of A upside down.  Only group A may fill the *)
(* second of the slots for thirds, so the matcher has to move the third of *)
(* A out of the first one.                                                 *)
(***************************************************************************)
EXTENDS Knockout

CONSTANTS A, B, a12, a13, a23, b45, b46, b56, ko, final

TheMatches == {a12, a13, a23, b45, b46, b56, ko, final}
TheGroupOf == [m \in TheMatches |-> CASE m \in {a12, a13, a23} -> A
                                      [] m \in {b45, b46, b56} -> B
                                      [] OTHER -> NoGroup]

TheSlots == 1 .. 5
TheSource == << [kind |-> "first", of |-> A], [kind |-> "second", of |-> A],
                [kind |-> "third", of |-> {A, B}], [kind |-> "third", of |-> {A}],
                [kind |-> "winner", of |-> ko] >>
TheHomeSlot == [m \in TheMatches |-> IF m = final THEN 1 ELSE NoSlot]
TheAwaySlot == [m \in TheMatches |-> IF m = final THEN 5 ELSE NoSlot]

Open(h, w) == [home |-> h, away |-> w, status |-> "scheduled",
               score |-> NoScore, penalties |-> "none"]
Live(h, w) == [Open(h, w) EXCEPT !.status = "live"]
Played(h, w, goals) ==
    [Open(h, w) EXCEPT !.status = "finished", !.score = goals]
TheFixtures == [m \in TheMatches |->
    CASE m = a12 -> Played(1, 2, <<0, 1>>)
      [] m = a13 -> Live(1, 3)
      [] m = a23 -> Open(2, 3)
      [] m = b45 -> Played(4, 5, <<1, 0>>)
      [] m = b46 -> Played(4, 6, <<2, 0>>)
      [] m = b56 -> Played(5, 6, <<0, 0>>)
      [] m = ko -> Played(7, 8, <<1, 0>>)
      [] OTHER -> Open(9, 10)]

Request(op, m, goals, side) ==
    [op |-> op, match |-> m, result |-> [score |-> goals, penalties |-> side]]
TheCalls == {Request("result", a13, <<4, 0>>, "none"),
             Request("correct", a13, <<0, 4>>, "none"),
             Request("live", a13, <<0, 0>>, "none"),
             Request("start", a23, <<0, 0>>, "none"),
             Request("result", a23, <<0, 1>>, "none"),
             Request("cancel", a23, <<0, 0>>, "none"),
             Request("correct", ko, <<1, 1>>, "away")}

\* The administrator knows better than the table of group A.
TheTyped == [s \in TheSlots |-> IF s = 1 THEN {4} ELSE {}]

=============================================================================
