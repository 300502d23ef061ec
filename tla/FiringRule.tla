----------------------------- MODULE FiringRule -----------------------------
(***************************************************************************)
(* The firing rule of pflow-metamodel (firing.rs), as operators over one   *)
(* net.  Four rules hold together: a consuming arc needs its weight, a     *)
(* read arc needs its weight and takes nothing, an inhibitor arc blocks at *)
(* its weight, and a capacity bounds what a place holds after the firing,  *)
(* net of what the same firing takes out.  Arcs are a sequence, because    *)
(* two arcs may join the same place and transition and each is tested on   *)
(* its own.  Counts are i64 with saturating arithmetic.                    *)
(***************************************************************************)
EXTENDS Integers, Sequences, FiniteSets, FiniteSetsExt

CONSTANTS
  Place,        \* the token places
  DataPlace,    \* places that hold data: arcs on them move no tokens
  Transition,
  MaxInt,       \* the greatest count, i64::MAX in the code
  Nets          \* the nets considered

ArcType == {"normal", "read", "inhibitor"}
Node == Place \cup DataPlace \cup Transition

MinInt == -MaxInt - 1
Count == MinInt .. MaxInt

Arc == [from : Node, to : Node, weight : Count, typ : ArcType]
Net == [arcs : Seq(Arc), cap : [Place -> Count]]
Marking == [Place -> Count]

ASSUME MaxIntAssumption == MaxInt \in Nat \ {0}
ASSUME NodeAssumption ==
  /\ IsFiniteSet(Place) /\ IsFiniteSet(Transition)
  /\ Transition \cap (Place \cup DataPlace) = {}
  /\ Place \cap DataPlace = {}
ASSUME NetsAssumption == Nets \subseteq Net

\* saturating_add and saturating_sub: the exact result where it is an i64, else
\* the bound on the side it leaves by.
Clamp(x) == IF x \in Count THEN x ELSE IF x > MaxInt THEN MaxInt ELSE MinInt

-----------------------------------------------------------------------------
\* An undeclared weight (0) reads as 1.
Weight(a) == IF a.weight = 0 THEN 1 ELSE a.weight

ReadOnly(a) == a.typ # "normal"

\* The arcs of transition t, by their place in the declaration order.
Inputs(n, t) ==
  {i \in DOMAIN n.arcs : /\ n.arcs[i].to = t
                         /\ ~ ReadOnly(n.arcs[i])
                         /\ n.arcs[i].from \in Place}

Outputs(n, t) ==
  {i \in DOMAIN n.arcs : /\ n.arcs[i].from = t
                         /\ ~ ReadOnly(n.arcs[i])
                         /\ n.arcs[i].to \in Place}

Tests(n, t) ==
  {i \in DOMAIN n.arcs : /\ n.arcs[i].to = t
                         /\ ReadOnly(n.arcs[i])
                         /\ n.arcs[i].from \in Place}

\* The weight the arcs S carry together; nothing when there are none.
Total(n, S) == IF S = {} THEN 0 ELSE SumFunction([i \in S |-> Weight(n.arcs[i])])

Taken(n, t, p) == Total(n, {i \in Inputs(n, t) : n.arcs[i].from = p})
Given(n, t, p) == Total(n, {i \in Outputs(n, t) : n.arcs[i].to = p})

\* What one firing adds to p, net: all that is taken, then all that is given.
\* Weights are not negative where this is read, so the order within each half
\* does not matter even where it saturates.
NetEffect(n, t, p) == Clamp(Clamp(0 - Taken(n, t, p)) + Given(n, t, p))

Invalid(n, t) ==
  \E i \in Inputs(n, t) \cup Outputs(n, t) \cup Tests(n, t) : Weight(n.arcs[i]) < 0

\* The capacities a firing of t can break: those on places it raises.
Raised(n, t) == {p \in Place : n.cap[p] > 0 /\ NetEffect(n, t, p) > 0}

\* A gate arc's threshold, on the count v of its place.
Passes(a, v) == IF a.typ = "inhibitor" THEN v < Weight(a) ELSE v >= Weight(a)

Enabled(n, t, mk) ==
  /\ ~ Invalid(n, t)
  /\ \A i \in Inputs(n, t) \cup Tests(n, t) : Passes(n.arcs[i], mk[n.arcs[i].from])
  /\ \A p \in Raised(n, t) : Clamp(mk[p] + NetEffect(n, t, p)) <= n.cap[p]

\* The marking after t fires.  It does not look at enablement.
Fire(n, t, mk) ==
  [p \in Place |-> Clamp(Clamp(mk[p] - Taken(n, t, p)) + Given(n, t, p))]

\* The firing of t at mk saturates no count.
Exact(n, t, mk) ==
  \A p \in Place : /\ mk[p] - Taken(n, t, p) \in Count
                   /\ mk[p] - Taken(n, t, p) + Given(n, t, p) \in Count

=============================================================================
