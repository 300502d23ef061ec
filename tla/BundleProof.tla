----------------------------- MODULE BundleProof -----------------------------
(***************************************************************************)
(* bundle_prove and bundle_check_proof (pflow-hosted bundle/proof.rs): what *)
(* linking does to the parts, as a record that a later call checks against *)
(* the bundle as it is by then.  A record says of each part's laws what    *)
(* became of them, of the composite whether it is bounded, deadlock-free   *)
(* and quasi-live, and of each link what it brought, by searching without  *)
(* it.  Sentences, warnings, and the caps on laws and links are left out.  *)
(***************************************************************************)
EXTENDS Flatten, Invariants, StateSpace

CONSTANT Horizon   \* bound: the greatest count runs come to and properties look at

VARIABLES
  record,          \* the last proof record, none before
  answer           \* what checking it said: "valid", "invalid" or "", not asked

pvars == <<vars, record, answer>>

-----------------------------------------------------------------------------
\* Bundle b with links ls: its flat net, the flat transitions in order, the flat
\* places, and how its elements are called there.
Of(b, ls) == INSTANCE Flatten WITH bundle <- b, links <- ls

Fresh(s, x) == IF x \in Range(s) THEN s ELSE Append(s, x)

Models(b, ls) ==
  {[names |-> names, net |-> Of(b, ls)!NetOf(names), opening |-> Of(b, ls)!Initial(names),
    trs |-> FoldLeft(Fresh, <<>>, FlattenSeq([i \in DOMAIN b.subnets |-> [j \in DOMAIN b.subnets[i].transitions |-> names[b.subnets[i].transitions[j]]]])),
    places |-> {names[p] : p \in AllPlaces(b.subnets)}] : names \in Of(b, ls)!Outcome}

The(S) == CHOOSE x \in S : TRUE

\* A part by itself.
CellsAt(s, p) == {c \in Range(s.places) : c.id = p}
PartModel(s) ==
  [names |-> [x \in PlacesOf(s) \cup TransitionsOf(s) |-> x],
   net |-> [arcs |-> s.arcs, cap |-> [p \in Place |-> Tightest({c.capacity : c \in CellsAt(s, p)})]],
   opening |-> [p \in Place |-> MapThenSumSet(LAMBDA c : c.initial, CellsAt(s, p))],
   trs |-> s.transitions, places |-> PlacesOf(s)]
PartCalled(id) == The({x \in Range(bundle.subnets) : x.id = id})

-----------------------------------------------------------------------------
\* build_graph in one call: a graph, and the next of its markings to look at.
Visit(m, tokens, g) ==
  LET at == g.found[g.next]
      fire(h, t) ==
        LET new == Fire(m.net, t, at)
        IN  IF h.over \/ ~ Enabled(m.net, t, at) THEN h
            ELSE IF \E p \in Place : new[p] > tokens THEN [h EXCEPT !.over = TRUE]
            ELSE [h EXCEPT !.found = Fresh(@, new), !.edges = Append(@, [from |-> at, tr |-> t, to |-> new])]
  IN  FoldLeft(fire, [g EXCEPT !.next = @ + 1], m.trs)

Graph(m, states, tokens) ==
  LET RECURSIVE build(_)
      build(g) == IF g.over \/ g.next > Len(g.found) \/ Len(g.found) >= states THEN g ELSE build(Visit(m, tokens, g))
  IN  build([found |-> <<m.opening>>, edges |-> <<>>, next |-> 1, over |-> FALSE])

IsDeadAt(m, at) == \A i \in DOMAIN m.trs : ~ Enabled(m.net, m.trs[i], at)

\* A shortest way to a marking of the graph, by the edges that led to each first.
Way(g, at) ==
  LET back[x \in Range(g.found)] ==
        IF x = g.found[1] THEN <<>>
        ELSE LET e == g.edges[Min({i \in DOMAIN g.edges : g.edges[i].to = x})] IN Append(back[e.from], e.tr)
  IN  back[at]

\* trace_to: the graph is built again, without a token limit; nothing where that
\* stops before the marking's turn.
TraceTo(m, states, at) ==
  LET g == Graph(m, states, MaxInt)
  IN  {Way(g, at) : k \in {j \in DOMAIN g.found : j < g.next /\ g.found[j] = at}}

\* search: what graph g says, where it is complete or not, of its dead markings,
\* nearest first, and of the transitions fired.
Answers(m, g, complete, dead, fired) ==
  [found |-> g.found, complete |-> complete, fired |-> fired,
   dead |-> dead, way |-> IF dead = <<>> THEN <<>> ELSE Way(g, dead[1]),
   bounded |-> IF ~ complete THEN "unknown" ELSE IF g.over THEN "refuted" ELSE "proved",
   deadlock_free |-> IF dead # <<>> THEN "refuted" ELSE IF complete THEN "proved" ELSE "unknown",
   quasi_live |-> IF ~ complete THEN "unknown" ELSE IF Range(m.trs) \subseteq fired THEN "proved" ELSE "refuted"]

AnswersOf(m, states, g) ==
  Answers(m, g, ~ g.over /\ Len(g.found) < states, SelectSeq(g.found, LAMBDA at : IsDeadAt(m, at)),
          {g.edges[i].tr : i \in DOMAIN g.edges})

SearchOf(m, o) == AnswersOf(m, o.states, Graph(m, o.states, o.tokens))

-----------------------------------------------------------------------------
\* Laws over a part's own places: those it declares, and its least invariants
\* that are not among them.
TokensOf(s) == PlacesOf(s) \cap Place

Declares(s) ==
  {[part |-> s.id, declared |-> TRUE, n |-> law.total, y |-> [p \in TokensOf(s) |-> IF p \in law.places THEN 1 ELSE 0]] : law \in s.laws}

Derives(s, m) ==
  {[part |-> s.id, declared |-> FALSE, n |-> Value(y, m.opening), y |-> y] : y \in Farkas(m.net, TokensOf(s), s.transitions)}

PartLaws(s) == Declares(s) \cup {l \in Derives(s, PartModel(s)) : \A d \in Declares(s) : d.y # l.y}

\* lift: onto the composite's places; what is not zero of it.
Lift(m, y) == [q \in {m.names[p] : p \in Support(y)} |-> MapThenSumSet(LAMBDA p : y[p], {p \in Support(y) : m.names[p] = q})]

\* The transitions that move y, and by how much.
Residual(m, y) == [t \in {x \in Range(m.trs) : MovedBy(m.net, y, x) # 0} |-> MovedBy(m.net, y, t)]

At0(y, p) == IF p \in DOMAIN y THEN y[p] ELSE 0

\* extension: z is y up to a ratio wherever the part has a place.
Extends(z, y, places) == \E p \in DOMAIN y : At0(z, p) # 0 /\ \A q \in places : At0(z, q) * y[p] = At0(y, q) * At0(z, p)

\* A vector of the basis, or else a sum of two of them.
Larger(basis, y, places) ==
  LET ones == {z \in basis : Extends(z, y, places)}
      sums == {[p \in DOMAIN x[1] |-> x[1][p] + x[2][p]] : x \in {u \in basis \X basis : u[1] # u[2]}}
      twos == {z \in sums : Extends(z, y, places)}
      pick(S) == IF S = {} THEN {} ELSE {The(S)}
  IN  IF ones # {} THEN pick(ones) ELSE pick(twos)

\* Mutant: the markings found are taken for all there are.
HoldsOnFound(l, y, s) ==
  IF ~ l.declared THEN "not declared"
  ELSE IF \E k \in DOMAIN s.found : Value(y, s.found[k]) # l.n THEN "refuted" ELSE "proved"

\* A declared law tried on the markings found.
HoldsOnReachable(l, y, s) ==
  IF ~ l.declared THEN "not declared"
  ELSE IF \E k \in DOMAIN s.found : Value(y, s.found[k]) # l.n THEN "refuted"
  ELSE IF s.complete THEN "proved" ELSE "unknown"

\* The first marking that breaks it, and a way there if one is found.
Breach(m, o, l, y, s) ==
  LET at == s.found[Min({k \in DOMAIN s.found : Value(y, s.found[k]) # l.n})]
  IN  [trace |-> TraceTo(m, o.states, at), marking |-> at]

PlacesIn(m, id) == {m.names[p] : p \in PlacesOf(PartCalled(id))}

LawView(m, o, s, l, y, residual, larger, holds) ==
  [part |-> l.part, declared |-> l.declared, y |-> l.y, value |-> l.n, lifted |-> y,
   initial |-> Value(y, m.opening), residual |-> residual, larger |-> larger,
   status |-> IF DOMAIN residual = {} THEN "preserved" ELSE IF larger # {} THEN "extended" ELSE "changed",
   holds |-> holds,
   breach |-> IF holds = "refuted" THEN {Breach(m, o, l, y, s)} ELSE {}]

Lifted(m, o, s, basis, l, y, residual) ==
  LawView(m, o, s, l, y, residual,
          IF DOMAIN residual = {} THEN {} ELSE Larger(basis, y, PlacesIn(m, l.part)), HoldsOnReachable(l, y, s))

LawViews(m, o, s, basis) ==
  LET view(l, y) == Lifted(m, o, s, basis, l, y, Residual(m, y))
  IN  {view(l, Lift(m, l.y)) : l \in UNION {PartLaws(part) : part \in Range(bundle.subnets)}}

-----------------------------------------------------------------------------
\* bounded_claim: each place by the sum z of the least invariants, where that
\* counts it, or by its capacity; where neither holds it, by the search.
CapacityOf(m, q) == Tightest({c.capacity : c \in {x \in Range(AllCells(bundle.subnets)) : m.names[x.id] = q}})

BoundedClaim(m, s, basis) ==
  LET z == [p \in m.places \cap Place |-> MapThenSumSet(LAMBDA y : y[p], basis)]
      total == Value(z, m.opening)
      byLaw == {p \in DOMAIN z : z[p] > 0}
      byCap == {p \in m.places \ byLaw : CapacityOf(m, p) > 0}
      open == m.places \ (byLaw \cup byCap)
  IN  [status |-> IF open = {} THEN "proved" ELSE s.bounded, z |-> z, total |-> total, open |-> open,
       bound |-> [p \in byLaw \cup byCap |-> IF p \in byLaw THEN total \div z[p] ELSE CapacityOf(m, p)],
       byLaw |-> byLaw]

\* deadlock_claim, live_claim.
Claims(m, s, basis) ==
  [bounded |-> BoundedClaim(m, s, basis),
   deadlock_free |-> [status |-> s.deadlock_free, trace |-> s.way, at |-> {s.dead[1] : k \in DOMAIN s.dead}],
   quasi_live |-> [status |-> s.quasi_live, never |-> IF s.complete THEN Range(m.trs) \ s.fired ELSE {}]]

-----------------------------------------------------------------------------
\* The laws a link has to do with: those of a place it joins, and those that a
\* transition it joins moves.
Touches(m, l, view) ==
  \E x \in Ends(bundle.subnets, l) : m.names[x] \in DOMAIN view.lifted \/ m.names[x] \in DOMAIN view.residual

\* How grave it is what became of a law: 0 nothing, 1 explained, 2 a warning, 3
\* a failure.
Gravity(view) ==
  CASE view.status = "preserved" /\ view.holds # "refuted" -> 0
    [] ~ view.declared -> 1
    [] view.declared /\ view.holds = "refuted" -> IF view.status = "extended" THEN 2 ELSE 3
    [] view.declared /\ view.holds # "refuted" /\ view.status = "extended" -> 1
    [] view.declared /\ view.holds # "refuted" /\ view.status = "changed" -> IF view.holds = "proved" THEN 1 ELSE 2

\* A part that ends on its own.
Terminating(o, id) == SearchOf(PartModel(PartCalled(id)), o).deadlock_free = "refuted"

Members(m, fired) == {t \in AllTransitions(bundle.subnets) : m.names[t] \in fired}

Without(ls, i) == RemoveAt(ls, i)

\* What the composite does with the link that it does not do without it, where
\* what is left still flattens.
Effect(o, l, m, s, m0, s0, introduces) ==
  [deadlock |-> introduces,
   finishing |-> IF introduces THEN {id \in {l.from.subnet, l.to.subnet} : Terminating(o, id)} ELSE {},
   unbounded |-> s.bounded = "refuted" /\ s0.bounded = "proved",
   blocked |-> Members(m0, s0.fired) \ Members(m, s.fired), complete |-> s.complete]

Effects(o, ls, i, m, s) ==
  LET judged(m0, s0) == Effect(o, ls[i], m, s, m0, s0, s.deadlock_free = "refuted" /\ s0.deadlock_free = "proved")
  IN  {judged(m0, SearchOf(m0, o)) : m0 \in IF o.ablate THEN Models(bundle, Without(ls, i)) ELSE {}}

WeightOf(e) ==
  Max({IF e.deadlock THEN IF e.finishing = {} THEN 3 ELSE 1 ELSE 0,
       IF e.unbounded THEN 3 ELSE 0,
       IF e.blocked # {} /\ e.complete THEN 2 ELSE 0})

\* A link within one subnet is refused by the page.
IsLegal(l) == l.from.subnet # l.to.subnet /\ LinkValid(bundle.subnets, l)

LinkView(l, legal, touched, effects) ==
  [link |-> l, legal |-> legal, touched |-> touched, effects |-> effects,
   level |-> Max({IF legal THEN 0 ELSE 3} \cup {Gravity(v) : v \in touched} \cup {WeightOf(e) : e \in effects})]

LinkViews(o, ls, m, s, laws) ==
  [i \in DOMAIN ls |-> LinkView(ls[i], IsLegal(ls[i]), {v \in laws : Touches(m, ls[i], v)}, Effects(o, ls, i, m, s))]


\* The overall status: a failure of a link or a claim refuted, then what is open,
\* then the gravest of the rest.  Of the claims the code leaves out deadlock_free
\* and "live", which none is called: quasi_live counts.
Overall(laws, claims, levels, complete) ==
  LET failed == 3 \in levels \/ \E id \in DOMAIN claims \ {"deadlock_free"} : claims[id].status = "refuted"
      unknown == (\E id \in DOMAIN claims : claims[id].status = "unknown") \/ (\E v \in laws : v.holds = "unknown")
  IN  CASE failed -> "inconsistent"
        [] ~ failed -> IF unknown /\ ~ complete THEN "inconclusive"
                       ELSE IF 2 \in levels THEN "needs_attention"
                       ELSE IF 1 \in levels THEN "consistent_with_notes" ELSE "consistent"

\* prove, of a bundle that flattens to m.
Record(o, m, s, laws, claims, views) ==
  [options |-> o, net |-> m.net, opening |-> m.opening, laws |-> laws, claims |-> claims, links |-> views,
   search |-> [states |-> Len(s.found), complete |-> s.complete, dead |-> Len(s.dead)],
   verdict |-> Overall(laws, claims, {views[i].level : i \in DOMAIN views}, s.complete)]

Judged(o, ls, m, s, laws, claims) == Record(o, m, s, laws, claims, LinkViews(o, ls, m, s, laws))
Analysed(o, ls, m, s, basis) == Judged(o, ls, m, s, LawViews(m, o, s, basis), Claims(m, s, basis))
RecordOf(o, ls, m) == Analysed(o, ls, m, SearchOf(m, o), Farkas(m.net, m.places \cap Place, m.trs))

-----------------------------------------------------------------------------
\* check.

\* The trace fires, step by step, and this is where it ends.
Replayed(m, trace) ==
  LET ends[k \in 0 .. Len(trace)] == IF k = 0 THEN m.opening ELSE Fire(m.net, trace[k], ends[k - 1])
  IN  IF \A k \in DOMAIN trace : trace[k] \in Range(m.trs) /\ Enabled(m.net, trace[k], ends[k - 1]) THEN {ends[Len(trace)]} ELSE {}

\* Mutant: a declared law is to hold at the start though it is refuted.
LawChecksAtStart(m, v) ==
  /\ v.residual = Residual(m, v.lifted)
  /\ v.declared => Value(v.lifted, m.opening) = v.value

\* What is checked of a law: its residual and status, the larger law's, its
\* start, and the way to where it is broken.
LawChecks(m, v) ==
  LET residual == Residual(m, v.lifted)
  IN  /\ v.residual = residual
      /\ v.status = "preserved" <=> DOMAIN residual = {}
      /\ v.status = "extended" => \A z \in v.larger :
            DOMAIN Residual(m, z) = {} /\ (\A p \in DOMAIN z : z[p] >= 0) /\ Extends(z, v.lifted, PlacesIn(m, v.part))
      /\ v.declared /\ v.holds # "refuted" => Value(v.lifted, m.opening) = v.value
      /\ v.holds = "refuted" => \A b \in v.breach :
            /\ \E trace \in b.trace : b.marking \in Replayed(m, trace)
            /\ Value(v.lifted, b.marking) # v.value

ClaimsCheck(m, s, c) ==
  LET z == c.bounded.z
      held(p) == \/ p \in c.bounded.byLaw /\ z[p] > 0 /\ c.bounded.bound[p] = c.bounded.total \div z[p]
                 \/ p \in DOMAIN c.bounded.bound \ c.bounded.byLaw /\ CapacityOf(m, p) > 0 /\ c.bounded.bound[p] = CapacityOf(m, p)
  IN  /\ IF c.bounded.status = "proved"
         THEN /\ DOMAIN Residual(m, z) = {} /\ Value(z, m.opening) = c.bounded.total /\ \A p \in DOMAIN z : z[p] >= 0
              /\ (\A p \in m.places : held(p)) \/ s.bounded = "proved"
         ELSE c.bounded.status = s.bounded
      /\ IF c.deadlock_free.status = "refuted"
         THEN \A x \in c.deadlock_free.at : x \in Replayed(m, c.deadlock_free.trace) /\ IsDeadAt(m, x)
         ELSE c.deadlock_free.status = s.deadlock_free
      /\ c.quasi_live.status = s.quasi_live

\* The certificates hold here, and proving again says the same.
Checks(r, now, m) ==
  /\ r.net = m.net /\ r.opening = m.opening
  /\ \A v \in r.laws : LawChecks(m, v)
  /\ ClaimsCheck(m, SearchOf(m, r.options), r.claims)
  /\ now.laws = r.laws /\ now.claims = r.claims /\ now.search = r.search /\ now.links = r.links /\ now.verdict = r.verdict

-----------------------------------------------------------------------------
NoRecord == <<>>

PInit == Init /\ record = NoRecord /\ answer = ""

\* A call of bundle_prove, which says now; none is returned of a bundle that is
\* refused.
Prove(now) ==
  /\ record' = now
  /\ answer' = ""
  /\ UNCHANGED vars

\* A call of bundle_check_proof on the bundle as it is by now, which flattens to
\* m, and of which bundle_prove says now with the record's options.
Check(now, m) ==
  /\ record # NoRecord /\ answer = ""
  /\ now.options = record.options
  /\ answer' = IF Checks(record, now, m) THEN "valid" ELSE "invalid"
  /\ UNCHANGED <<vars, record>>

Tools ==
  /\ stage = "linking"
  /\ \E o \in bundle.asks : \E m \in Models(bundle, links) : \E now \in {RecordOf(o, links, m)} :
       Prove(now) \/ Check(now, m)

\* The bundle is linked further, a record of it kept as it was made; or it is
\* flattened and run, where no record is asked for.
Go ==
  /\ Next
  /\ \A p \in DOMAIN mk' : mk'[p] <= Horizon
  /\ record' = IF stage' = "linking" THEN record ELSE NoRecord
  /\ answer' = ""

PNext ==
  \/ Go
  \/ Tools

PSpec == PInit /\ [][PNext]_pvars

-----------------------------------------------------------------------------
\* What a composite can come to, within the horizon.
Everything(m) ==
  LET steps == [w \in Marking |->
                  {x \in {Fire(m.net, t, w) : t \in {u \in Range(m.trs) : Enabled(m.net, u, w)}} :
                     \A p \in Place : x[p] <= Horizon}]
  IN  UNION Range(Layers({m.opening}, steps))

CanHappenIn(m, all) == {t \in Range(m.trs) : \E x \in all : Enabled(m.net, t, x)}
CanDie(m, all) == \E x \in all : IsDeadAt(m, x)

\* A law preserved or part of a larger one keeps its sum, its own or the larger
\* one's, at every marking; one that is changed is moved by each firing of the
\* transitions named and by no other; a declared law is true or false of all
\* markings as the record says, with a way to where it is false.
LawTrue(m, all, v) ==
  /\ v.status = "preserved" => \A x \in all : Value(v.lifted, x) = v.initial
  /\ v.status = "extended" => v.larger # {} /\ \A z \in v.larger : \A x \in all : Value(z, x) = Value(z, m.opening)
  /\ \A x \in all, t \in Range(m.trs) :
       Enabled(m.net, t, x) => Value(v.lifted, Fire(m.net, t, x)) = Value(v.lifted, x) + At0(v.residual, t)
  /\ v.holds = "proved" => \A x \in all : Value(v.lifted, x) = v.value
  /\ v.holds = "refuted" =>
       \A b \in v.breach : /\ Value(v.lifted, b.marking) # v.value
                           /\ \A trace \in b.trace : Replayed(m, trace) = {b.marking}

\* No count passes a bound the record gives, but for places that start above
\* their capacity; a composite said to be free of deadlock has none and one said
\* not to be is led to one; and each transition said to fire does.
ClaimsTrue(m, all, c) ==
  /\ c.bounded.status = "proved" =>
       \A x \in all : \A p \in DOMAIN c.bounded.bound :
         x[p] <= c.bounded.bound[p] \/ (p \notin c.bounded.byLaw /\ x[p] <= m.opening[p])
  /\ c.deadlock_free.status = "proved" => ~ CanDie(m, all)
  /\ c.deadlock_free.status = "refuted" =>
       /\ c.deadlock_free.at # {}
       /\ \A x \in c.deadlock_free.at : Replayed(m, c.deadlock_free.trace) = {x} /\ IsDeadAt(m, x)
  /\ c.quasi_live.status = "proved" => CanHappenIn(m, all) = Range(m.trs)
  /\ c.quasi_live.status = "refuted" => c.quasi_live.never = Range(m.trs) \ CanHappenIn(m, all) /\ c.quasi_live.never # {}

\* "A deadlock ... or blocked transition that exists with the link and not
\* without it is the link's" (proof.rs): what a link is blamed for is so, where
\* the searches were complete nothing of it is passed over, and a link that
\* brings a dead end is excused only by a part that it joins and that comes to
\* one by itself.
LinkTrue(ls, i, m, all, r) ==
  LET view == r.links[i]
  IN  \A m0 \in Models(bundle, Without(ls, i)) :
        LET all0 == Everything(m0)
            deadlock == CanDie(m, all) /\ ~ CanDie(m0, all0)
            blocked == Members(m0, CanHappenIn(m0, all0)) \ Members(m, CanHappenIn(m, all))
            within == Cardinality(all0) < r.options.states /\ \A x \in all0 : \A p \in Place : x[p] <= r.options.tokens
            ends(id) == LET a == PartModel(PartCalled(id)) IN CanDie(a, Everything(a))
        IN  \A e \in view.effects :
              /\ e.deadlock => deadlock
              /\ e.deadlock /\ view.level < 3 => \E id \in {ls[i].from.subnet, ls[i].to.subnet} : ends(id)
              /\ r.search.complete => e.blocked \subseteq blocked
              /\ r.search.complete /\ within =>
                   /\ deadlock => e.deadlock /\ view.level > 0
                   /\ blocked # {} => view.level >= 2

\* A declared law that is true of its part by itself and false in the composite
\* is held against some link, and the composite is not called consistent.
BrokenLawsBlamed(ls, r) ==
  \A v \in r.laws :
    LET part == PartModel(PartCalled(v.part))
    IN  v.holds = "refuted" /\ (\A x \in Everything(part) : Value(v.y, x) = v.value) =>
          /\ \E i \in DOMAIN ls : r.links[i].level >= 2
          /\ r.verdict \in {"inconsistent", "inconclusive", "needs_attention"}

\* A composite neither called inconsistent nor left open was searched to its end:
\* all of its transitions can fire, and the counts it comes to are within limits.
VerdictTrue(m, all, r) ==
  r.verdict \notin {"inconsistent", "inconclusive"} =>
    /\ CanHappenIn(m, all) = Range(m.trs)
    /\ Cardinality(all) = r.search.states /\ \A x \in all : \A p \in Place : x[p] <= r.options.tokens

SaysTrue(r, ls, m) ==
  LET all == Everything(m)
  IN  /\ \A v \in r.laws : LawTrue(m, all, v)
      /\ ClaimsTrue(m, all, r.claims)
      /\ \A i \in DOMAIN ls \cap DOMAIN r.links : LinkTrue(ls, i, m, all, r)
      /\ BrokenLawsBlamed(ls, r)
      /\ VerdictTrue(m, all, r)


\* A record is turned down only if something was linked since it was made, or if
\* it refutes a law and comes without a way there, which trace_to may not find
\* within the states that the search stopped at.
CheckRight ==
  answer = "invalid" => \/ Len(links) # Len(record.links)
                        \/ ~ record.search.complete /\ \E v \in record.laws : \E b \in v.breach : b.trace = {}

=============================================================================
