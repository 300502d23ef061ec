----------------------------- MODULE StateSpace -----------------------------
(***************************************************************************)
(* The whole state space of a net from an opening, by definition and with  *)
(* no limits: what pflow-reachability's searches are measured against.     *)
(***************************************************************************)
EXTENDS FiringRule, Functions

Moves(n, S) ==
  {[from |-> x[1], tr |-> x[2], to |-> Fire(n, x[2], x[1])] :
     x \in {y \in S \X Transition : Enabled(n, y[2], y[1])}}

\* The sets of markings 0, 1, 2, ... moves from S, at least, until there are
\* none, where after says what one move leads to.
Layers(S, after) ==
  LET grow[s \in Seq(SUBSET DOMAIN after) \ {<<>>}] ==
        LET new == (UNION {after[x] : x \in s[Len(s)]}) \ UNION Range(s)
        IN  IF new = {} THEN s ELSE grow[Append(s, new)]
  IN  grow[<<S>>]

\* What the firings of a net lead to.
Onward(n) == [m \in Marking |-> {Fire(n, t, m) : t \in {u \in Transition : Enabled(n, u, m)}}]

\* The reachable markings with their distance from the opening, the moves
\* between them, and the markings that can follow each.
Space(n, opening) ==
  LET layers == Layers({opening}, Onward(n))
      reach == UNION Range(layers)
  IN  [moves |-> Moves(n, reach),
       dist |-> [m \in reach |-> (CHOOSE k \in DOMAIN layers : m \in layers[k]) - 1],
       future |-> [m \in reach |-> UNION Range(Layers({m}, Onward(n)))]]

Reachable(s) == DOMAIN s.dist

Offers(s, m) == {x.tr : x \in {y \in s.moves : y.from = m}}

\* L1: t fires somewhere.
CanFire(s, t) == \E x \in s.moves : x.tr = t

\* t can still fire once m is reached; L4 is this at every marking.
CanFireAfter(s, t, m) == \E x \in s.moves : x.tr = t /\ x.from \in s.future[m]

IsDead(s, m) == Offers(s, m) = {}

\* The terminal components: markings that everything after them comes back to.
Terminals(s) == {s.future[m] : m \in {u \in Reachable(s) : \A v \in s.future[u] : u \in s.future[v]}}

=============================================================================
