------------------------------- MODULE Memory -------------------------------
(***************************************************************************)
(* What a search may rely on of a bounded memory of positions' values.     *)
(* What is remembered of a position is the meet of the intervals, each     *)
(* holding its value, told since it was last forgotten.  A lesson may push *)
(* one other position out, and one may be forgotten at any time, but       *)
(* nothing is ever widened, invented or confused with another position.    *)
(* The abstract specification of TranspositionTable.                       *)
(***************************************************************************)
EXTENDS Integers

CONSTANTS
  Keys,         \* the positions asked of
  Value,        \* the values a position may have
  Val           \* the value each position has

Interval == [lo : Value, hi : Value]

VARIABLE known  \* what is remembered of each position, none or one interval

Larger(x, y) == IF x >= y THEN x ELSE y
Smaller(x, y) == IF x <= y THEN x ELSE y

\* Both intervals hold the value, so their meet does.
Meet(known_k, i) ==
  IF known_k = {} THEN {i}
  ELSE {[lo |-> Larger(i.lo, j.lo), hi |-> Smaller(i.hi, j.hi)] : j \in known_k}

Init == known = [k \in Keys |-> {}]

Learn(k, i) ==
  /\ i.lo <= Val[k] /\ Val[k] <= i.hi
  /\ known'[k] = Meet(known[k], i)
  /\ \E out \in Keys : known' = [known EXCEPT ![out] = {}, ![k] = known'[k]]

Forget(k) == known' = [known EXCEPT ![k] = {}]

Next == \E k \in Keys : Forget(k) \/ \E i \in Interval : Learn(k, i)

Spec == Init /\ [][Next]_known

=============================================================================
