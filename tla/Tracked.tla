------------------------------ MODULE Tracked ------------------------------
(***************************************************************************)
(* IndexedModel (pflow-metamodel indexed.rs): the enabled set of a walk,   *)
(* kept up to date instead of recomputed.  For each transition the engine  *)
(* counts the conditions its marking fails and keeps the set of those that *)
(* fail none.  A firing takes the verdicts on the places it touches out of *)
(* the counts, changes the marking, and puts the new verdicts in; undoing  *)
(* a firing does the same around the reverse change.  The loops over the   *)
(* touched places are separate steps here, one per place, so that the      *)
(* counts in the middle of an update are states too.                       *)
(***************************************************************************)
EXTENDS FiringRule

CONSTANTS Starts, MaxDepth

ASSUME StartsAssumption == Starts \subseteq Count
ASSUME MaxDepthAssumption == MaxDepth \in Nat

VARIABLES
  net,          \* the net, indexed once
  mk,           \* the dense marking
  failing,      \* per transition, how many of its conditions fail (u32)
  set,          \* the transitions failing none
  phase,        \* where retrack is: at rest, taking out, or putting in
  op,           \* the transition retrack works for, and whether it undoes it
  pending,      \* the touched places the current loop has still to visit
  trail         \* the firings a search can undo, as in Walk

vars == <<net, mk, failing, set, phase, op, pending, trail>>

Op == [t : Transition, undo : BOOLEAN]

-----------------------------------------------------------------------------
\* A condition, by the arc it comes from, or by arc 0 for a capacity, and the
\* place it looks at.  A transition with a negative weight has none: its count
\* starts at one and never falls.
Conds(n, u) ==
  IF Invalid(n, u) THEN {}
  ELSE {[arc |-> i, place |-> n.arcs[i].from] : i \in Inputs(n, u) \cup Tests(n, u)}
         \cup {[arc |-> 0, place |-> p] : p \in Raised(n, u)}

Holds(n, u, c, v) ==
  IF c.arc = 0 THEN Clamp(v + NetEffect(n, u, c.place)) <= n.cap[c.place]
  ELSE Passes(n.arcs[c.arc], v)

CondsAt(n, u, p) == {c \in Conds(n, u) : c.place = p}

FailingAt(n, u, p, m) == {c \in CondsAt(n, u, p) : ~ Holds(n, u, c, m[p])}

\* Mutant: only the places t takes from.
TouchedByInputs(n, t) == {n.arcs[i].from : i \in Inputs(n, t)}

\* The places a firing of t changes: those on its inputs and outputs.
Touched(n, t) ==
  {n.arcs[i].from : i \in Inputs(n, t)} \cup {n.arcs[i].to : i \in Outputs(n, t)}

\* Mutant: a recount that forgets the capacities.
RecountArcs(n, u, m) ==
  Cardinality({c \in Conds(n, u) : c.arc # 0 /\ ~ Holds(n, u, c, m[c.place])})
    + (IF Invalid(n, u) THEN 1 ELSE 0)

\* enabled_set: the counts from scratch, over every condition.
Recount(n, u, m) ==
  Cardinality({c \in Conds(n, u) : ~ Holds(n, u, c, m[c.place])})
    + (IF Invalid(n, u) THEN 1 ELSE 0)

\* Mutant: the inputs returned before the outputs are taken back.
UnfireInputsFirst(n, t, m) ==
  [p \in Place |-> Clamp(Clamp(m[p] + Taken(n, t, p)) - Given(n, t, p))]

\* unfire_in_place: outputs taken back first, inputs returned after.
Unfire(n, t, m) ==
  [p \in Place |-> Clamp(Clamp(m[p] - Given(n, t, p)) + Taken(n, t, p))]

\* The firings s, none of which can be undone exactly any more.
Inexact(s) == [k \in 1 .. Len(s) |-> [s[k] EXCEPT !.exact = FALSE]]

\* deficit: how many tokens m is short of enabling t, the greatest u64 standing
\* for never.
Never == 2 * MaxInt + 1

Short(x) == IF x > 0 THEN x ELSE 0

\* Mutant: an inhibitor short of nothing when its place holds the weight.
LackAtThreshold(n, t, c, v) ==
  IF c.arc = 0 THEN Short(Clamp(Clamp(v + NetEffect(n, t, c.place)) - n.cap[c.place]))
  ELSE LET a == n.arcs[c.arc]
       IN  IF a.typ = "inhibitor" THEN Short(Clamp(v - Weight(a)))
           ELSE Short(Clamp(Weight(a) - v))

Lack(n, t, c, v) ==
  IF c.arc = 0 THEN Short(Clamp(Clamp(v + NetEffect(n, t, c.place)) - n.cap[c.place]))
  ELSE LET a == n.arcs[c.arc]
       IN  IF a.typ = "inhibitor" THEN Short(Clamp(Clamp(v - Weight(a)) + 1))
           ELSE Short(Clamp(Weight(a) - v))

Deficit(n, t, m) ==
  IF Invalid(n, t) THEN Never
  ELSE LET d == SumFunction([c \in Conds(n, t) |-> Lack(n, t, c, m[c.place])])
       IN  IF d > Never THEN Never ELSE d

-----------------------------------------------------------------------------
Init ==
  /\ net \in Nets
  /\ mk \in [Place -> Starts]
  /\ failing = [u \in Transition |-> Recount(net, u, mk)]
  /\ set = {u \in Transition : failing[u] = 0}
  /\ phase = "rest"
  /\ op \in [t : Transition, undo : {FALSE}]
  /\ pending = {}
  /\ trail = <<>>

\* A search fires what the tracked set holds.
BeginFire(t) ==
  /\ phase = "rest"
  /\ Len(trail) < MaxDepth
  /\ t \in set
  /\ op' = [t |-> t, undo |-> FALSE]
  /\ phase' = "out"
  /\ pending' = Touched(net, t)
  /\ UNCHANGED <<net, mk, failing, set, trail>>

BeginUndo ==
  /\ phase = "rest"
  /\ trail # <<>>
  /\ op' = [t |-> trail[Len(trail)].t, undo |-> TRUE]
  /\ phase' = "out"
  /\ pending' = Touched(net, op'.t)
  /\ UNCHANGED <<net, mk, failing, set, trail>>

\* The verdicts at p come out of every count.
TakeOut(p) ==
  /\ phase = "out"
  /\ p \in pending
  /\ failing' = [u \in Transition |-> failing[u] - Cardinality(FailingAt(net, u, p, mk))]
  /\ pending' = pending \ {p}
  /\ UNCHANGED <<net, mk, set, phase, op, trail>>

\* change(mk): the firing, or its reverse.
Apply ==
  /\ phase = "out"
  /\ pending = {}
  /\ IF op.undo
     THEN /\ mk' = Unfire(net, op.t, mk)
          /\ trail' = LET rest == SubSeq(trail, 1, Len(trail) - 1)
                      IN  IF trail[Len(trail)].exact THEN rest ELSE Inexact(rest)
     ELSE /\ mk' = Fire(net, op.t, mk)
          /\ trail' = Append(trail, [t |-> op.t, from |-> mk, exact |-> Exact(net, op.t, mk)])
  /\ phase' = "in"
  /\ pending' = Touched(net, op.t)
  /\ UNCHANGED <<net, failing, set, op>>

\* The verdicts at p go back in; a bit is rewritten each time its count is.
PutIn(p) ==
  /\ phase = "in"
  /\ p \in pending
  /\ failing' = [u \in Transition |-> failing[u] + Cardinality(FailingAt(net, u, p, mk))]
  /\ set' = {u \in Transition : IF CondsAt(net, u, p) = {} THEN u \in set ELSE failing'[u] = 0}
  /\ pending' = pending \ {p}
  /\ UNCHANGED <<net, mk, phase, op, trail>>

Finish ==
  /\ phase = "in"
  /\ pending = {}
  /\ phase' = "rest"
  /\ UNCHANGED <<net, mk, failing, set, op, pending, trail>>

Next ==
  \/ \E t \in Transition : BeginFire(t)
  \/ BeginUndo
  \/ \E p \in Place : TakeOut(p) \/ PutIn(p)
  \/ Apply
  \/ Finish

Spec == Init /\ [][Next]_vars

-----------------------------------------------------------------------------
\* Counts are u32: no subtraction in the middle of an update goes below zero.
TypeOK ==
  /\ net \in Nets
  /\ mk \in Marking
  /\ failing \in [Transition -> Nat]
  /\ set \subseteq Transition
  /\ phase \in {"rest", "out", "in"}
  /\ op \in Op
  /\ pending \subseteq Place
  /\ trail \in Seq([t : Transition, from : Marking, exact : BOOLEAN])

\* deficit's promise: zero exactly when the transition is enabled, saturation
\* included.
DeficitZeroIffEnabled ==
  \A t \in Transition : Deficit(net, t, mk) = 0 <=> Enabled(net, t, mk)

\* At rest the counts are those a full recheck would give, and the tracked set
\* is what the reference rule (firing.rs) enables: the shortcut of revisiting
\* only the touched places loses nothing, whatever was fired or undone before.
\* deficit, which sums what each condition lacks, agrees with both.
TrackedExact ==
  phase = "rest" =>
    /\ failing = [u \in Transition |-> Recount(net, u, mk)]
    /\ set = {u \in Transition : Enabled(net, u, mk)}
    /\ DeficitZeroIffEnabled

\* The engine walks: each firing it makes is one the reference rule allows, and
\* undoing one that saturated nothing returns exactly to the marking before it.
W == INSTANCE Walk WITH Start <- [Place -> Starts]
WalkSpec == W!Spec

=============================================================================
