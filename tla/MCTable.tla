------------------------------- MODULE MCTable -------------------------------
(***************************************************************************)
(* TranspositionTable on a table of seven entries: buckets of two slots,   *)
(* one at the start, then two, then three (the seventh entry finds none).  *)
(* Mark 1 is two keys, one per engine, of different values.  While there   *)
(* are two buckets the keys share them out unevenly; the third, which does *)
(* not double them, sends the keys of both halves to one bucket, so a key  *)
(* may find no room while the table grows and two growths may be wanted in *)
(* a row.                                                                  *)
(***************************************************************************)
EXTENDS TranspositionTable

K(m, c) == [mark |-> m, counts |-> c]

MCMark == 1 .. 4
MCKeys == {K(m, FALSE) : m \in MCMark} \cup {K(1, TRUE)}
MCValue == 0 .. 1
MCBooked == {K(1, FALSE), K(2, FALSE)}

MCVal == [k \in MCKeys |-> IF k.counts THEN 0 ELSE k.mark % 2]

\* The whole range by no work, the exact value by some, and of one key by none too.
MCShown ==
  {[k |-> k, lo |-> 0, hi |-> 1, work |-> 0] : k \in MCKeys}
    \cup {[k |-> k, lo |-> MCVal[k], hi |-> MCVal[k], work |-> 1] : k \in MCKeys}
    \cup {[k |-> K(3, FALSE), lo |-> 1, hi |-> 1, work |-> 0]}

H(x, y) == [a |-> x, b |-> y]

MCHashes == {<<H(2, 2), H(0, 3), H(3, 0), H(0, 3)>>}

=============================================================================
