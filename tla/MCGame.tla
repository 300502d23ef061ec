------------------------------- MODULE MCGame -------------------------------
(***************************************************************************)
(* GameSearch on five small games of four nets.  "tree": a game of three   *)
(* plies with a position reached two ways, played by bits, its leaves      *)
(* claimed by automatic transitions, of three distinct rewards or of       *)
(* eight.  "heap": two sides take one token or two, whoever cannot wins    *)
(* nothing; it starts on counts, and fits bits near its end.  "pile":      *)
(* three moves, each puts a token on a pile or does not; it starts on      *)
(* bits, and a second token spills.  "ruse": both first moves lose at      *)
(* once, by replies that the two engines' deficits do not both find.       *)
(***************************************************************************)
EXTENDS GameSearch

\* Every game uses these places: turns or positions, leaves or a pile h, and
\* the rewards; and these transitions: moves m, then automatic ones c.
MCPlace == {"r", "u", "v", "h", "win", "lose", "draw", "won", "lost", "even"}
MCDeclared == <<"m1", "m2", "m3", "m4", "m5", "m6", "m7", "m8", "c1", "c2", "c3">>
MCTransition == Range(MCDeclared)
MCAuto == {"c1", "c2", "c3"}

A(x, y) == [from |-> x, to |-> y, weight |-> 1, typ |-> "normal"]
Two(a) == [a EXCEPT !.weight = 2]
Read(p, k, t) == [from |-> p, to |-> t, weight |-> k, typ |-> "read"]
Gate(p, k, t) == [from |-> p, to |-> t, weight |-> k, typ |-> "inhibitor"]

\* What a game does not use of the transitions waits for a place never marked.
NetOf(arcs, off, unused) ==
  [arcs |-> arcs \o SetToSeq({A(off, t) : t \in unused}),
   cap |-> [p \in MCPlace |-> IF p \in {"won", "lost", "even"} THEN 1 ELSE 0]]

\* r: m1 to u, m2 to v; u: m3 to win, m4 to h; v: m5 to h, m6 to lose; h: m7 to
\* draw, m8 to win.
TreeNet ==
  NetOf(<<A("r", "m1"), A("m1", "u"), A("r", "m2"), A("m2", "v"),
          A("u", "m3"), A("m3", "win"), A("u", "m4"), A("m4", "h"), A("v", "m5"), A("m5", "h"), A("v", "m6"), A("m6", "lose"),
          A("h", "m7"), A("m7", "draw"), A("h", "m8"), A("m8", "win"),
          A("win", "c1"), A("c1", "won"), A("lose", "c2"), A("c2", "lost"), A("draw", "c3"), A("c3", "even")>>,
        "r", {})

\* At u the first side takes one (m1) or two (m2) from h, at v the other (m3, m4).
HeapNet ==
  NetOf(<<A("h", "m1"), A("u", "m1"), A("m1", "v"), Two(A("h", "m2")), A("u", "m2"), A("m2", "v"),
          A("h", "m3"), A("v", "m3"), A("m3", "u"), Two(A("h", "m4")), A("v", "m4"), A("m4", "u"),
          Gate("h", 1, "c1"), A("v", "c1"), A("c1", "won"), Gate("h", 1, "c2"), A("u", "c2"), A("c2", "lost")>>,
        "r", {"m5", "m6", "m7", "m8", "c3"})

\* At r, u and v in turn a side adds to h or does not; the second turn is the
\* other side's.
PileNet ==
  NetOf(<<A("r", "m1"), A("m1", "h"), A("m1", "u"), A("r", "m2"), A("m2", "u"),
          A("u", "m3"), A("m3", "h"), A("m3", "v"), A("u", "m4"), A("m4", "v"),
          A("v", "m7"), A("m7", "h"), A("m7", "win"), A("v", "m8"), A("m8", "win"),
          A("win", "c1"), Read("h", 2, "c1"), A("c1", "won"), A("win", "c2"), Gate("h", 2, "c2"), A("c2", "lost")>>,
        "draw", {"m5", "m6", "c3"})

\* r: m1 to u, m2 to v; the other side wins by m3 from u and by m4 from v, as c3
\* and then c1 follow. By counts c1 is short of "draw" twice, by bits once, and
\* m3 brings it one closer: only bits find m3. By bits c2 cannot be, by counts it
\* is short of one token, and m4 moves one, if away: only counts find m4.
RuseNet ==
  NetOf(<<A("r", "m1"), A("m1", "u"), A("r", "m2"), A("m2", "v"),
          A("u", "m3"), A("m3", "win"), A("m3", "lose"), A("v", "m4"), A("h", "m4"), A("m4", "win"),
          A("win", "c3"), A("c3", "draw"),
          A("draw", "c1"), Read("draw", 1, "c1"), Gate("lose", 2, "c1"), A("c1", "lost"),
          Read("h", 2, "c2"), A("c2", "lost")>>,
        "even", {"m5", "m6", "m7", "m8"})

MCNets == {TreeNet, HeapNet, PileNet, RuseNet}

\* The moves of the first side; the rest are the other's, but for the automatic.
Sign(first) == [t \in MCTransition |-> IF t \in MCAuto THEN 0 ELSE IF t \in first THEN 1 ELSE -1]
Outer == Sign({"m1", "m2", "m7", "m8"})

At1(p, k) == [q \in MCPlace |-> IF q = "h" THEN k ELSE IF q = p THEN 1 ELSE 0]

\* A game with its worth: the positions its plays reach, in as many moves as
\* they have, each worth what its moves make it, from the last ones back.
Built(net, sign, reward, start, ask, book) ==
  LET bare == [net |-> net, auto |-> MCAuto, sign |-> sign, reward |-> reward,
               start |-> start, ask |-> ask, book |-> book]
      plies == [i \in 1 .. 5 |-> i]
      wider(S, i) == S \cup UNION {{RuleAfter(bare, m, t) : t \in RuleMoves(bare, m)} : m \in S}
      all == FoldLeft(wider, {start}, plies)
      value(f, m) ==
        LET ts == RuleMoves(bare, m)
            worths == {f[RuleAfter(bare, m, t)] : t \in ts}
        IN  IF ts = {} THEN RewardAt(bare, m)
            ELSE IF sign[CHOOSE t \in ts : TRUE] > 0 THEN Max(worths) ELSE Min(worths)
      backed(f, i) == [m \in all |-> value(f, m)] @@ f
  IN  bare @@ [worth |-> FoldLeft(backed, [m \in all |-> 0], <<0>> \o plies)]

R == At1("r", 0)
U == At1("u", 0)
Few == [p \in {"won", "lost"} |-> IF p = "won" THEN 4 ELSE -4]
Many == [p \in {"won", "lost", "even"} |-> IF p = "won" THEN 5 ELSE IF p = "lost" THEN -2 ELSE 1]

TreeGame == Built(TreeNet, Outer, Few, R, {R, U}, {})
RichGame == Built(TreeNet, Outer, Many, R, {R}, {U})
HeapGame == Built(HeapNet, Sign({"m1", "m2"}), Few, At1("u", 4), {At1("u", 4)}, {At1("u", 1)})
PileGame == Built(PileNet, Outer, Few, R, {R}, {})
RuseGame == Built(RuseNet, Outer, Few, At1("r", 1), {At1("r", 1)}, {})

MCGames == {TreeGame, RichGame, HeapGame, PileGame, RuseGame}

\* A guess wrong on purpose of the tree, and even of the rest.
MCGuess(m) == IF m["u"] = 1 THEN -9 ELSE IF m["v"] = 1 THEN 3 ELSE 0

P(order, filters, drivers, root, mode) ==
  [order |-> order, filters |-> filters, drivers |-> drivers, root |-> root, mode |-> mode, heuristics |-> {}, entries |-> {}]

D(name) == [name |-> name]
Budget(k, ms) == [name |-> "budget", nodes |-> k, ms |-> ms]

\* Losing moves dropped in the search and at its root.
Both == P({<<>>}, {<<"non_losing">>}, {<<>>}, {<<"non_losing">>}, "exact")

MCPlans ==
  {P({}, {}, {}, {}, "exact"),
   P({<<"history">>}, {<<>>}, {<<D("mtd_f")>>}, {}, "exact"),
   P({<<"tt_best", "threats", "centrality">>}, {<<"non_losing", "must_win">>}, {<<>>}, {}, "exact"),
   P({}, {<<>>}, {<<D("null_window"), D("aspiration")>>}, {<<"ode", "non_losing">>}, "exact"),
   P({<<>>}, {<<>>}, {<<D("aspiration")>>}, {<<"ode">>}, "exact"),
   P({<<>>}, {<<>>}, {<<D("aspiration"), D("mtd_f")>>}, {<<"ode">>}, "exact"),
   Both,
   P({<<>>}, {<<>>}, {<<Budget(5, 0), D("null_window")>>}, {}, "play"),
   P({<<>>}, {<<>>}, {<<D("null_window"), Budget(0, 1)>>}, {}, "exact")}

=============================================================================
