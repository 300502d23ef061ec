------------------------------ MODULE MCReplay ------------------------------
(***************************************************************************)
(* Replay on logs of up to two groups of cases over four activities, with  *)
(* choices, joins, both orders, repeats and loops of one and two, mined by *)
(* every method or replayed on two nets brought along: "gated", with       *)
(* weights, an inhibitor and a read arc, and "ragged", with an arc drawn   *)
(* twice, a label two transitions have, a place that is not declared and   *)
(* an activity no transition is for.                                       *)
(***************************************************************************)
EXTENDS Replay

MCActivity == <<"a", "a2", "b", "c", "d">>
MCPlaceName == <<"p1", "p2", "p3", "p4", "p5", "p6", "p7", "p8">>
MCPlace == {"p1", "p2", "p3", "p4", "p5", "p6", "p7", "p8", "start", "end"}
MCTransition == {"a", "a2", "b", "c", "d"}

MCTraces ==
  {<<"a">>, <<"b", "a">>, <<"a", "b">>, <<"a", "a">>, <<"a", "b", "c">>, <<"a", "c", "b">>, <<"b", "c">>,
   <<"a", "b", "d">>, <<"a", "c", "d">>, <<"b", "c", "d">>, <<"a", "b", "b", "c">>, <<"a", "b", "a", "c">>,
   <<"a", "d">>, <<"a", "a", "d", "b", "c">>}

Arc1(x, y, weight, inhibit) == [source |-> x, target |-> y, weight |-> weight, inhibit |-> inhibit]

Gated ==
  [places |-> [p \in {"start", "p1", "p2", "p3", "end"} |-> IF p = "start" THEN 2 ELSE 0],
   labels |-> [t \in {"a", "b", "c", "d"} |-> t],
   arcs |-> <<Arc1("start", "a", 1, FALSE), Arc1("a", "p1", 1, FALSE), Arc1("a", "p3", 1, FALSE), Arc1("p1", "b", 2, FALSE),
              Arc1("b", "p2", 0, FALSE), Arc1("p2", "b", 1, TRUE), Arc1("p2", "c", 1, FALSE), Arc1("c", "end", 1, FALSE),
              Arc1("p1", "d", 1, FALSE), Arc1("d", "p1", 1, FALSE), Arc1("d", "p3", 2, TRUE), Arc1("end", "a", 1, TRUE)>>]

Ragged ==
  [places |-> [p \in {"start", "p1", "end"} |-> IF p = "start" THEN 1 ELSE 0],
   labels |-> [t \in {"a", "a2", "b", "c"} |-> IF t = "a2" THEN "a" ELSE t],
   arcs |-> <<Arc1("start", "a", 1, FALSE), Arc1("start", "a2", 2, FALSE), Arc1("a2", "p1", 3, FALSE), Arc1("a2", "p1", 1, FALSE),
              Arc1("start", "a2", 1, FALSE), Arc1("p1", "b", 1, FALSE), Arc1("b", "p2", 1, FALSE), Arc1("p2", "c", 1, FALSE),
              Arc1("c", "end", 1, FALSE), Arc1("p1", "p2", 1, FALSE), Arc1("b", "c", 1, FALSE)>>]

MCGivenNets == {Gated, Ragged}

=============================================================================
