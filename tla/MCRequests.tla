----------------------------- MODULE MCRequests -----------------------------
(* A call that is delivered three times and another one with its own key.  *)
EXTENDS Requests

CONSTANTS first, again, oncemore, other, key, otherKey

TheRequests == {first, again, oncemore, other}
TheKeys == {key, otherKey}
TheKeyOf == [r \in TheRequests |-> IF r = other THEN otherKey ELSE key]

=============================================================================
