------------------------------ MODULE Flatten ------------------------------
(***************************************************************************)
(* Bundle::flatten (pflow-compose flatten.rs, unionfind.rs, fuse.rs): a    *)
(* bundle is given links one by one, in any order, and lowered to one net, *)
(* which then runs by the firing rule.  Joined places and transitions are  *)
(* classes of a union-find whose representative is the least member; arcs  *)
(* are retargeted and merged one after the other.  A fused class of        *)
(* transitions takes the name its event link gives it, or one made of its  *)
(* members', here that of the least.                                       *)
(***************************************************************************)
EXTENDS Bundle

CONSTANTS
  Bundles,     \* the bundles: [subnets, candidates, max_merge]
  Names,       \* all elements, in the order of their names
  MaxLinks     \* bound: links of a bundle

VARIABLES
  bundle,      \* the bundle being built
  links,       \* its links, in the order they were added
  stage,       \* "linking", then "running" or "refused"
  fm,          \* the flat name of each element
  flat,        \* the flat net
  mk           \* its marking

vars == <<bundle, links, stage, fm, flat, mk>>

-----------------------------------------------------------------------------
\* unionfind.rs: each element's parent; a root is its own.
Position == [x \in Range(Names) |-> CHOOSE i \in DOMAIN Names : Names[i] = x]
Elements == DOMAIN Position
Least(S) == CHOOSE x \in S : \A y \in S : Position[x] <= Position[y]

Find(parent, x) == LET up[y \in DOMAIN parent] == IF parent[y] = y THEN y ELSE up[parent[y]] IN up[x]
Path(parent, x) == LET way[y \in DOMAIN parent] == {y} \cup (IF parent[y] = y THEN {} ELSE way[parent[y]]) IN way[x]

\* Find, with every element on the way pointed at the root.
Compress(parent, x) == [y \in DOMAIN parent |-> IF y \in Path(parent, x) THEN Find(parent, x) ELSE parent[y]]

\* Mutant: the second root wins, whichever it is.
UniteLast(parent, x, y) ==
  [parent EXCEPT ![Find(parent, x)] = Find(parent, y)]

\* union: the lesser root wins.
Unite(parent, x, y) ==
  LET roots == {Find(parent, x), Find(parent, y)}
      flatter == Compress(Compress(parent, x), y)
  IN  [z \in DOMAIN parent |-> IF z \in roots THEN Least(roots) ELSE flatter[z]]

Singletons == [x \in Elements |-> x]

\* The classes after the links of these kinds, as each element's root.
Roots(kinds) ==
  LET joining == SelectSeq(links, LAMBDA l : l.kind \in kinds)
      after[k \in 0 .. Len(joining)] ==
        IF k = 0 THEN Singletons
        ELSE Unite(after[k - 1], End(bundle.subnets, joining[k].from), End(bundle.subnets, joining[k].to))
      root[x \in Elements] == Find(after[Len(joining)], x)
  IN  root

-----------------------------------------------------------------------------
\* The names event links give the class of root r.
Given1(r, roots) ==
  {l.id : l \in {x \in Range(links) : x.kind = "event" /\ x.id # Unnamed /\ roots[End(bundle.subnets, x.from)] = r}}

Alone(x, roots) == \A y \in DOMAIN roots : roots[y] = roots[x] => y = x

\* A place goes by its root, a transition alone by itself, a fused one by the
\* name its link gives it.
FlatName(x, places, events) ==
  IF x \in AllPlaces(bundle.subnets) THEN places[x]
  ELSE IF Alone(x, events) \/ Given1(events[x], events) = {} THEN events[x]
  ELSE CHOOSE id \in Given1(events[x], events) : TRUE

FlatNames(places, events) ==
  [x \in AllPlaces(bundle.subnets) \cup AllTransitions(bundle.subnets) |-> FlatName(x, places, events)]

\* min_non_zero over a class.
Tightest(bounds) == IF bounds \subseteq {0} THEN 0 ELSE Min(bounds \ {0})

\* The places folded into flat place p.
Folded(p, names) == {c \in Range(AllCells(bundle.subnets)) : names[c.id] = p}

\* merge_places refuses a class of two kinds, two types or two values.
Mergeable(cells) ==
  /\ Cardinality({c.token : c \in cells}) = 1
  /\ Cardinality({c.typ : c \in cells} \ {""}) <= 1
  /\ Cardinality({c.value : c \in cells} \ {""}) <= 1

Capacities(names) == [p \in Place |-> Tightest({c.capacity : c \in Folded(p, names)})]
Initial(names) == [p \in Place |-> MapThenSumSet(LAMBDA c : c.initial, Folded(p, names))]

-----------------------------------------------------------------------------
\* merge_arcs: an arc, retargeted; what decides whether two are one; and their
\* weight then.
Retarget(a, names) == [a EXCEPT !.from = names[a.from], !.to = names[a.to], !.weight = Weight(a)]
KeyOfArc(a) == <<a.from, a.to, a.typ, a.kinetic>>

\* Mutant: a later arc of the same key is dropped.
TogetherFirst(x, y, typ) == x

TogetherWeigh(x, y, typ) ==
  CASE typ = "read" -> Max({x, y})
    [] typ = "inhibitor" -> Min({x, y})
    [] typ = "normal" -> IF bundle.max_merge THEN Max({x, y}) ELSE x + y

MergeArc(arcs, a) ==
  LET same == {i \in DOMAIN arcs : KeyOfArc(arcs[i]) = KeyOfArc(a)}
  IN  IF same = {} THEN Append(arcs, a)
      ELSE [i \in DOMAIN arcs |-> IF i \in same THEN [arcs[i] EXCEPT !.weight = TogetherWeigh(@, a.weight, a.typ)] ELSE arcs[i]]

MergeArcs(names) == FoldLeft(LAMBDA arcs, a : MergeArc(arcs, Retarget(a, names)), <<>>, AllArcs(bundle.subnets))

\* Mutant: a guard asks for one token more.
GateStrict(p, t, weight, typ) ==
  IF weight > 0 THEN <<[from |-> p, to |-> t, weight |-> weight + 1, typ |-> typ, kinetic |-> TRUE]>> ELSE <<>>

\* apply_guard_links: after the merging, and beside what is there.
Gate(p, t, weight, typ) == IF weight > 0 THEN <<[from |-> p, to |-> t, weight |-> weight, typ |-> typ, kinetic |-> TRUE]>> ELSE <<>>

GuardArcs(l, names) ==
  LET low == CHOOSE a \in Lowered(l) : TRUE
      t == names[End(bundle.subnets, l.from)]
      p == names[End(bundle.subnets, l.to)]
  IN  Gate(p, t, low.read, "read") \o Gate(p, t, low.inhibit, "inhibitor")

AllGuardArcs(names) ==
  FlattenSeq([i \in DOMAIN links |-> IF links[i].kind = "guard" THEN GuardArcs(links[i], names) ELSE <<>>])

-----------------------------------------------------------------------------
\* What a lone subnet without links is: itself, its arcs as they are.
IsLone == Len(bundle.subnets) = 1 /\ links = <<>>
OwnNames == [x \in AllPlaces(bundle.subnets) \cup AllTransitions(bundle.subnets) |-> x]

Valid == SubnetsValid(bundle.subnets) /\ \A l \in Range(links) : LinkValid(bundle.subnets, l)

Flattens(names, events) ==
  /\ \A p \in Range(names) : Folded(p, names) # {} => Mergeable(Folded(p, names))
  /\ \A t \in AllTransitions(bundle.subnets) : Cardinality(Given1(events[t], events)) <= 1

NetOf(names) ==
  [arcs |-> IF IsLone THEN AllArcs(bundle.subnets) ELSE MergeArcs(names) \o AllGuardArcs(names), cap |-> Capacities(names)]

Init ==
  /\ bundle \in Bundles
  /\ links = <<>> /\ stage = "linking"
  /\ fm = <<>> /\ flat = <<>> /\ mk = <<>>

AddLink(l) ==
  /\ stage = "linking" /\ Len(links) < MaxLinks
  /\ links' = Append(links, l)
  /\ UNCHANGED <<bundle, stage, fm, flat, mk>>

Lower(names) ==
  /\ fm' = names /\ flat' = NetOf(names) /\ mk' = Initial(names)
  /\ stage' = "running"
  /\ UNCHANGED <<bundle, links>>

Refuse == stage' = "refused" /\ UNCHANGED <<bundle, links, fm, flat, mk>>

\* What a bundle flattens to, as the names its elements get: as it is, or
\* validated, classed and named; none where it is refused.
Outcome ==
  IF IsLone THEN {OwnNames}
  ELSE IF ~ Valid THEN {}
  ELSE UNION {{names \in {FlatNames(Roots({"token", "data"}), events)} : Flattens(names, events)} : events \in {Roots({"event"})}}

FlattenBundle ==
  /\ stage = "linking"
  /\ \E made \in {Outcome} : IF made = {} THEN Refuse ELSE \E names \in made : Lower(names)

FireFlat(t) ==
  /\ stage = "running" /\ Enabled(flat, t, mk)
  /\ mk' = Fire(flat, t, mk)
  /\ UNCHANGED <<bundle, links, stage, fm, flat>>

Next ==
  \/ \E l \in bundle.candidates : l \notin Range(links) /\ AddLink(l)
  \/ FlattenBundle
  \/ stage = "running" /\ \E t \in {fm[x] : x \in AllTransitions(bundle.subnets)} : FireFlat(t)

Spec == Init /\ [][Next]_vars

-----------------------------------------------------------------------------
\* A flat net does what the linked subnets do together, in whatever order they
\* were linked ("linking A->B and B->C must produce one three-element class
\* regardless of the order the links appear in", unionfind.rs): it is refused
\* just where they make no sense together, starts with what they start with, and
\* fires a transition just where all who take part can, with what it moves for
\* them. What is enabled is part of what is compared: no gate, merged arc or
\* capacity lets it do more, or less. A joined place goes by its least member.
Fused(S) == {{x \in S : fm[x] = fm[y]} : y \in S}

T == INSTANCE Together WITH
       linked <- Range(links), phase <- stage,
       held <- IF stage = "running" THEN [c \in Fused(AllPlaces(bundle.subnets) \cap Place) |-> mk[Least(c)]] ELSE <<>>,
       ready <- IF stage = "running"
                THEN {e \in Fused(AllTransitions(bundle.subnets)) : \E x \in e : Enabled(flat, fm[x], mk)} ELSE {}

TogetherSpec == T!TSpec

\* The conservation laws queues and pools come with (queue.rs 4-7,
\* resource_pool.rs 26-28) hold of every marking of the flat net, however their
\* transitions are fused with others and gated, as long as no place of theirs
\* is shared and arcs add up.
LawsKept ==
  stage = "running" /\ ~ bundle.max_merge =>
    \A s \in Range(bundle.subnets) : \A law \in s.laws :
      (\A p \in law.places : T!ClassOf(p, {"token", "data"}) = {p}) =>
        MapThenSumSet(LAMBDA p : mk[fm[p]], law.places) = law.total

=============================================================================
