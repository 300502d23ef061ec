-------------------------------- MODULE Walk --------------------------------
(***************************************************************************)
(* What a search that walks a net promises, whatever engine it walks with: *)
(* every step forward is a firing the rule enables at the marking it       *)
(* leaves, and a step back returns to the marking that firing left.  The   *)
(* rule is a parameter, so an engine states the promise about the          *)
(* reference rule and not about its own tables.                            *)
(***************************************************************************)
EXTENDS Naturals, Sequences

CONSTANTS
  Nets,            \* the nets walked
  Transition,
  Marking,
  Start,           \* the markings a walk starts from
  MaxDepth,        \* bound: the firings a walk may be ahead of its start
  Enabled(_, _, _),
  Fire(_, _, _),
  Exact(_, _, _)   \* the firing saturates no count

VARIABLES
  net,             \* the net walked, fixed at the start
  mk,              \* the marking
  trail            \* the firings to walk back over: transition, marking left, exactness

vars == <<net, mk, trail>>

\* The firings s, none of which can be walked back over exactly any more.
Inexact(s) == [k \in 1 .. Len(s) |-> [s[k] EXCEPT !.exact = FALSE]]

Init ==
  /\ net \in Nets
  /\ mk \in Start
  /\ trail = <<>>

Step(t) ==
  /\ Len(trail) < MaxDepth
  /\ Enabled(net, t, mk)
  /\ mk' = Fire(net, t, mk)
  /\ trail' = Append(trail, [t |-> t, from |-> mk, exact |-> Exact(net, t, mk)])
  /\ UNCHANGED net

\* A firing that saturated a count cannot be undone exactly: then the walk only
\* promises to come back to some marking, and nothing of the firings before it.
Back ==
  /\ trail # <<>>
  /\ IF trail[Len(trail)].exact
     THEN /\ mk' = trail[Len(trail)].from
          /\ trail' = SubSeq(trail, 1, Len(trail) - 1)
     ELSE /\ mk' \in Marking
          /\ trail' = Inexact(SubSeq(trail, 1, Len(trail) - 1))
  /\ UNCHANGED net

Next == (\E t \in Transition : Step(t)) \/ Back

Spec == Init /\ [][Next]_vars

=============================================================================
