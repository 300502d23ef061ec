------------------------------ MODULE Together ------------------------------
(***************************************************************************)
(* What a bundle of linked subnets means, on their own terms: places       *)
(* joined by token and data links are one place, transitions joined by     *)
(* event links fire as one, and a guard link lets a transition fire only   *)
(* while its condition holds.  No net is built and nothing has a name; the *)
(* links are a set, without an order.  What can happen is part of the      *)
(* state, so that what implements this offers just that.                   *)
(***************************************************************************)
EXTENDS Bundle

CONSTANTS Bundles   \* the bundles: [subnets, candidates, max_merge]

VARIABLES bundle,   \* the bundle being built
          linked,   \* the links it has
          phase,    \* "linking", then "running" or "refused"
          held,     \* what each class of joined token places holds, when running
          ready     \* the classes of fused transitions that can happen, when running

tvars == <<bundle, linked, phase, held, ready>>

-----------------------------------------------------------------------------
\* All that links of these kinds join x with, directly or through others.
Near(S, kinds) == S \cup UNION {e \in {Ends(bundle.subnets, l) : l \in {k \in linked : k.kind \in kinds}} : e \cap S # {}}

ClassOf(x, kinds) ==
  FoldLeft(LAMBDA S, i : Near(S, kinds), {x}, [i \in 1 .. Cardinality(linked) |-> i])

PlaceClasses == {ClassOf(p, {"token", "data"}) : p \in AllPlaces(bundle.subnets)}
EventClasses == {ClassOf(t, {"event"}) : t \in AllTransitions(bundle.subnets)}

Cells(c) == {CellOf(bundle.subnets, p) : p \in c}
CountClasses == {c \in PlaceClasses : \A x \in Cells(c) : x.token}

\* A class starts with what its members start with, under the tightest of their
\* capacities.
Starts(c) == MapThenSumSet(LAMBDA x : x.initial, Cells(c))
Limit(c) == LET set == {x.capacity : x \in Cells(c)} \ {0} IN IF set = {} THEN 0 ELSE Min(set)

\* The members of a class have one type and one value, when they have any.
Agree(c) == \A x, y \in Cells(c) : PairFits(x, y) /\ ("" \in {x.value, y.value} \/ x.value = y.value)

\* No two links that fuse the same transitions name them differently.
OneName(e) ==
  \A l, k \in {x \in linked : x.kind = "event" /\ x.id # Unnamed /\ Ends(bundle.subnets, x) \cap e # {}} : l.id = k.id

Lone == Len(bundle.subnets) = 1 /\ linked = {}

Sensible ==
  \/ Lone
  \/ /\ SubnetsValid(bundle.subnets)
     /\ \A l \in linked : LinkValid(bundle.subnets, l)
     /\ \A c \in PlaceClasses : Agree(c)
     /\ \A e \in EventClasses : OneName(e)

-----------------------------------------------------------------------------
\* The arcs from one class to another that act as one: those of one kind, all
\* of them together; but for each by itself in a lone net.
ArcsBetween(x, y) ==
  UNION {{[no |-> <<s.id, i>>, arc |-> s.arcs[i]] : i \in {k \in DOMAIN s.arcs : s.arcs[k].from \in x /\ s.arcs[k].to \in y}} :
           s \in Range(bundle.subnets)}
Alike(a, b) == IF Lone THEN a = b ELSE a.arc.typ = b.arc.typ /\ a.arc.kinetic = b.arc.kinetic
Bunches(x, y) == LET all == ArcsBetween(x, y) IN {{b \in all : Alike(a, b)} : a \in all}

TypeIn(g) == (CHOOSE a \in g : TRUE).arc.typ
WeightsIn(g) == {Weight(a.arc) : a \in g}
Moved(g) == IF bundle.max_merge THEN Max(WeightsIn(g)) ELSE MapThenSumSet(LAMBDA a : Weight(a.arc), g)

Flow(x, y) == MapThenSumSet(Moved, {g \in Bunches(x, y) : TypeIn(g) = "normal"})
NetFlow(e, c) == Flow(e, c) - Flow(c, e)

Meets(v, op, n) ==
  CASE op = ">=" -> v >= n [] op = ">" -> v > n [] op = "<" -> v < n
    [] op = "<=" -> v <= n [] op = "==" -> v = n

Judges(l) == l.lowering # "expr" /\ StructuralArcs(l.op, l.n) # {}

\* Everybody's part of event e can happen where classes hold h.
CanHappen(e, h) ==
  \A c \in DOMAIN h :
    /\ \A g \in Bunches(c, e) :
         CASE TypeIn(g) = "normal" -> h[c] >= Moved(g)
           [] TypeIn(g) = "read" -> \A w \in WeightsIn(g) : h[c] >= w
           [] TypeIn(g) = "inhibitor" -> \A w \in WeightsIn(g) : h[c] < w
    /\ LET more == NetFlow(e, c) IN more > 0 /\ Limit(c) > 0 => h[c] + more <= Limit(c)
    /\ \A l \in linked :
         l.kind = "guard" /\ Judges(l) /\ End(bundle.subnets, l.from) \in e /\ End(bundle.subnets, l.to) \in c
           => Meets(h[c], l.op, l.n)

-----------------------------------------------------------------------------
TInit ==
  /\ bundle \in Bundles
  /\ linked = {} /\ phase = "linking" /\ held = <<>> /\ ready = {}

Join(l) ==
  /\ phase = "linking"
  /\ linked' = linked \cup {l}
  /\ UNCHANGED <<bundle, phase, held, ready>>

\* The classes hold h from now on, and what can happen then is ready.
Hold(h) ==
  /\ held' = h
  /\ ready' = {e \in EventClasses : CanHappen(e, h)}

Compose ==
  /\ phase = "linking"
  /\ \/ Sensible /\ phase' = "running" /\ \E h \in {[c \in CountClasses |-> Starts(c)]} : Hold(h)
     \/ ~ Sensible /\ phase' = "refused" /\ UNCHANGED <<held, ready>>
  /\ UNCHANGED <<bundle, linked>>

Happen(e) ==
  /\ \E h \in {[c \in DOMAIN held |-> held[c] + NetFlow(e, c)]} : Hold(h)
  /\ UNCHANGED <<bundle, linked, phase>>

TNext == (\E l \in bundle.candidates : Join(l)) \/ Compose \/ (\E e \in ready : Happen(e))

TSpec == TInit /\ [][TNext]_tvars

=============================================================================
