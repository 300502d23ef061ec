------------------------------- MODULE Bundle -------------------------------
(***************************************************************************)
(* Bundles of pflow-compose: subnets, each a net with a boundary, and the  *)
(* four kinds of links between them (bundle.rs, matrix.rs, guard.rs), what *)
(* makes a link legal (validate.rs), and the two subnets the crate builds  *)
(* itself (queue.rs, resource_pool.rs).  An element is named by its subnet *)
(* and its own name.  Warnings, and all of a transition but its arcs, are  *)
(* left out.                                                               *)
(***************************************************************************)
EXTENDS FiringRule, SequencesExt

-----------------------------------------------------------------------------
\* A token place, one arc, a port.
Cell(id, initial, capacity, exported) ==
  [id |-> id, token |-> TRUE, typ |-> "", value |-> "", initial |-> initial, capacity |-> capacity, exported |-> exported]
Moves1(x, y) == [from |-> x, to |-> y, weight |-> 1, typ |-> "normal", kinetic |-> TRUE]
Port(kind, elem, schema) == [kind |-> kind, elem |-> elem, schema |-> schema]

\* The name of a link without one; a link's name goes where an element's may.
Unnamed == <<"link", "">>

Law(places, total) == [places |-> places, total |-> total]

\* new_queue: items and slots add up to the capacity; without a capacity there
\* are no slots.
Queue(id, capacity, initial) ==
  LET items == <<id, "items">>
      slots == <<id, "slots">>
      enqueue == <<id, "enqueue">>
      dequeue == <<id, "dequeue">>
      bounded == capacity > 0
  IN  [id |-> id, type |-> "resource",
       places |-> <<Cell(items, initial, capacity, TRUE)>>
                  \o (IF bounded THEN <<Cell(slots, capacity - initial, capacity, FALSE)>> ELSE <<>>),
       transitions |-> <<enqueue, dequeue>>,
       arcs |-> <<Moves1(enqueue, items), Moves1(items, dequeue)>>
                \o (IF bounded THEN <<Moves1(slots, enqueue), Moves1(dequeue, slots)>> ELSE <<>>),
       laws |-> IF bounded THEN {Law({items, slots}, capacity)} ELSE {},
       ports |-> [n \in {"in", "out", "depth", "enqueue", "dequeue"} |->
                    CASE n = "in" -> Port("in", items, "queue:items")
                      [] n = "out" -> Port("out", items, "queue:items")
                      [] n = "depth" -> Port("observe", items, "queue:items")
                      [] n = "enqueue" -> Port("in", enqueue, "")
                      [] n = "dequeue" -> Port("out", dequeue, "")]]

\* What new_queue refuses.
QueueLegal(capacity, initial) == capacity >= 0 /\ initial >= 0 /\ (capacity > 0 => initial <= capacity)

\* new_resource_pool: what is available and what is in use add up.
Pool(id, capacity) ==
  LET available == <<id, "available">>
      in_use == <<id, "in_use">>
      acquire == <<id, "acquire">>
      release == <<id, "release">>
  IN  [id |-> id, type |-> "resource",
       places |-> <<Cell(available, capacity, capacity, TRUE), Cell(in_use, 0, capacity, TRUE)>>,
       transitions |-> <<acquire, release>>,
       arcs |-> <<Moves1(available, acquire), Moves1(acquire, in_use), Moves1(in_use, release), Moves1(release, available)>>,
       laws |-> {Law({available, in_use}, capacity)},
       ports |-> [n \in {"available", "in_use", "acquire", "release"} |->
                    CASE n = "available" -> Port("inout", available, "resource")
                      [] n = "in_use" -> Port("out", in_use, "resource")
                      [] n = "acquire" -> Port("in", acquire, "")
                      [] n = "release" -> Port("out", release, "")]]

-----------------------------------------------------------------------------
\* A bundle's subnets b are in the order of their ids.
PlacesOf(s) == {s.places[i].id : i \in DOMAIN s.places}
TransitionsOf(s) == Range(s.transitions)
AllPlaces(b) == UNION {PlacesOf(s) : s \in Range(b)}
AllTransitions(b) == UNION {TransitionsOf(s) : s \in Range(b)}
AllCells(b) == FlattenSeq([i \in DOMAIN b |-> b[i].places])
AllArcs(b) == FlattenSeq([i \in DOMAIN b |-> b[i].arcs])
CellOf(b, p) == CHOOSE c \in Range(AllCells(b)) : c.id = p
HomeOf(b, x) == CHOOSE s \in Range(b) : x \in PlacesOf(s) \cup TransitionsOf(s)

\* A subnet's boundary: its ports, or each exported place when it declares none.
Exported(s) == {c \in Range(s.places) : c.exported}
PortsOf(s) ==
  IF DOMAIN s.ports # {} THEN s.ports
  ELSE [n \in {c.id[2] : c \in Exported(s)} |-> Port("inout", <<s.id, n>>, CellOf(<<s>>, <<s.id, n>>).typ)]

\* An endpoint names a port of a subnet, or an element of it; what it resolves
\* to, an element and the port it came by, none if there is no such thing.
Resolve(b, e) ==
  UNION {IF e.port # "" THEN {[elem |-> PortsOf(s)[n].elem, port |-> {PortsOf(s)[n]}] : n \in {e.port} \cap DOMAIN PortsOf(s)}
         ELSE {[elem |-> x, port |-> {}] : x \in {<<s.id, e.elem>>} \cap (PlacesOf(s) \cup TransitionsOf(s))} :
           s \in {x \in Range(b) : x.id = e.subnet}}

\* Where a legal link leads, from and to.
End(b, e) == (CHOOSE r \in Resolve(b, e) : TRUE).elem
Ends(b, l) == {End(b, l.from), End(b, l.to)}

-----------------------------------------------------------------------------
\* link_legal: which kinds of nets a link may join.
LinkLegal(kind, x, y) ==
  \/ "untyped" \in {x, y}
  \/ kind \in {"data", "guard"}
  \/ kind = "token" /\ {x, y} \subseteq {"resource", "game"}
  \/ kind = "event" /\ "computation" \notin {x, y}

\* The arcs that say "tokens op n": the weights of a read and of an inhibitor
\* arc, 0 for none; no answer where arcs cannot say it.
StructuralArcs(op, n) ==
  CASE op = ">=" -> {[read |-> n, inhibit |-> 0]}
    [] op = ">" -> {[read |-> n + 1, inhibit |-> 0]}
    [] op = "<" -> IF n = 0 THEN {} ELSE {[read |-> 0, inhibit |-> n]}
    [] op = "<=" -> {[read |-> 0, inhibit |-> n + 1]}
    [] op = "==" -> {[read |-> n, inhibit |-> n + 1]}
    [] op = "!=" -> {}

\* resolve_lowering: the arcs of a guard link, or an expression no engine here
\* evaluates; none where the condition cannot be lowered as asked.
Opaque == [read |-> 0, inhibit |-> 0]
Lowered(l) ==
  LET arcs == StructuralArcs(l.op, l.n)
  IN  CASE l.n < 0 -> {}
        [] l.lowering = "auto" /\ l.n >= 0 -> IF arcs = {} THEN {Opaque} ELSE arcs
        [] l.lowering = "expr" /\ l.n >= 0 -> {Opaque}
        [] l.lowering = "structural" /\ l.n >= 0 -> arcs
        [] l.lowering = "inhibitor" /\ l.n >= 0 -> {a \in arcs : a.read = 0}

-----------------------------------------------------------------------------
\* validate_link, by what it refuses.  The ends are of the kind the link joins.
KindsFit(b, l) ==
  LET joins(S) == Ends(b, l) \subseteq S
  IN  CASE l.kind \in {"token", "data"} -> joins(AllPlaces(b))
        [] l.kind = "event" -> joins(AllTransitions(b))
        [] l.kind = "guard" -> End(b, l.from) \in AllTransitions(b) /\ End(b, l.to) \in AllPlaces(b)

\* Two places that may be one: both count or both hold data, of one type.
PairFits(x, y) == x.token = y.token /\ ("" \in {x.typ, y.typ} \/ x.typ = y.typ)

\* Tokens leave by one port and arrive by the other, under one schema.
PortsFit(b, l) ==
  LET out == UNION {r.port : r \in Resolve(b, l.from)}
      into == UNION {r.port : r \in Resolve(b, l.to)}
  IN  /\ l.kind = "token" => (\A p \in out : p.kind # "in") /\ (\A p \in into : p.kind # "out")
      /\ \A p \in out, q \in into : "" \in {p.schema, q.schema} \/ p.schema = q.schema

\* What observes a place moves nothing in or out of its own end of the link.
ObserverReads(b, l) ==
  \A a \in Range(HomeOf(b, End(b, l.to)).arcs) : a.typ = "normal" => End(b, l.to) \notin {a.from, a.to}

LinkValid(b, l) ==
  /\ Resolve(b, l.from) # {} /\ Resolve(b, l.to) # {}
  /\ KindsFit(b, l)
  /\ LinkLegal(l.kind, HomeOf(b, End(b, l.from)).type, HomeOf(b, End(b, l.to)).type)
  /\ PortsFit(b, l)
  /\ l.kind \in {"token", "data"} => PairFits(CellOf(b, End(b, l.from)), CellOf(b, End(b, l.to)))
  /\ l.kind = "data" => ObserverReads(b, l)
  /\ l.kind = "guard" => Lowered(l) # {}

\* validate_arcs: a read tests a place for a transition, and only an arc by which
\* a transition takes tokens can be told to be no matter of rates.
ArcValid(s, a) ==
  LET in(p) == p \in PlacesOf(s) /\ a.to \in TransitionsOf(s)
  IN  /\ a.typ = "read" => in(a.from)
      /\ ~ a.kinetic => a.typ = "normal" /\ in(a.from) /\ CellOf(<<s>>, a.from).token

\* Bundle::validate on the subnets: their ids and ports, and their arcs.
SubnetsValid(b) ==
  /\ \A i, j \in DOMAIN b : b[i].id = b[j].id => i = j
  /\ \A s \in Range(b) :
       /\ \A n \in DOMAIN s.ports : \/ s.ports[n].elem \in TransitionsOf(s)
                                    \/ s.ports[n].elem \in {c.id : c \in Exported(s)}
       /\ \A a \in Range(s.arcs) : ArcValid(s, a)

=============================================================================
