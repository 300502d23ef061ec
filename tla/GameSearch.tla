----------------------------- MODULE GameSearch -----------------------------
(***************************************************************************)
(* The exact game solver (pflow-metamodel game.rs, with order.rs,          *)
(* filter.rs, root.rs and book.rs): fail-soft alpha-beta over a net read   *)
(* as a two-sided game, as a run of narrow searches that share a table,    *)
(* within a budget of nodes and of time.  The recursion is an explicit     *)
(* stack.  The table is what Memory promises: it may forget, and it may    *)
(* decline to keep.  Positions are walked by bits where they fit and by    *)
(* counts where a firing leaves 0/1.  The games are well formed: settling  *)
(* ends, each settled marking has one mover, and each reward place ends    *)
(* with at most one token, so that what the code refuses does not occur.   *)
(* The counts engine's keys are the markings, not their hashes.            *)
(***************************************************************************)
EXTENDS BitRule, SearchPlan

CONSTANTS
  Games,        \* the games: [net, auto, sign, reward, worth, start, ask, book]
  Plans,        \* the plans solvers are built from
  Declared,     \* the transitions, in the order of the net
  Guess(_),     \* what the root's estimate makes of a marking
  MaxValues,    \* the most distinct rewards searched one by one
  SettleLimit,  \* the most automatic firings in a row
  ClockEvery,   \* the nodes between two looks at the clock
  MaxCalls,     \* bound: calls on one solver
  MaxLosses     \* bound: entries the table forgets or declines

VARIABLES
  game, plan,   \* the game searched, and the settings of the solver
  table,        \* the transposition table, at most one entry of each key
  history,      \* per transition, the cutoffs it caused
  call,         \* the call under way, or the last one and its answer
  run,          \* the search for one value: position, engine, tests so far
  stack,        \* the searches entered and not left, the innermost last
  arg,          \* the search about to be entered
  ret,          \* what the last search, or run, returned: one value or none
  stage, nodes, stop, calls, losses

-----------------------------------------------------------------------------
Distance(x, y) == IF x > y THEN x - y ELSE y - x

\* What a game is, by the net's rule alone: worth gives the value of each
\* position a play can reach, as best play of both sides makes it.

RuleMoves(g, m) == {t \in Transition : Enabled(g.net, t, m)}

\* The first of a set of transitions, in the order of the net.
First(S) == Declared[Min({i \in DOMAIN Declared : Declared[i] \in S})]

RuleSettled(g, m) ==
  LET now(x) == RuleMoves(g, x) \cap g.auto
      settled[i \in 0 .. SettleLimit] ==
        IF i = 0 THEN m
        ELSE IF now(settled[i - 1]) = {} THEN settled[i - 1]
        ELSE Fire(g.net, First(now(settled[i - 1])), settled[i - 1])
  IN  settled[SettleLimit]

RuleAfter(g, m, t) == RuleSettled(g, Fire(g.net, t, m))

RewardAt(g, m) == SumFunction([p \in DOMAIN g.reward |-> g.reward[p] * m[p]])

\* A settled marking ends the game, one token at most on a reward place, or has
\* one side's moves, the best of which it is worth.
Minimax(g, m) ==
  LET worths == {g.worth[RuleAfter(g, m, t)] : t \in RuleMoves(g, m)}
  IN  IF RuleMoves(g, m) = {}
      THEN g.worth[m] = RewardAt(g, m) /\ \A p \in DOMAIN g.reward : m[p] \in {0, 1}
      ELSE /\ RuleMoves(g, m) \cap g.auto = {}
           /\ \A t \in RuleMoves(g, m) : RuleAfter(g, m, t) \in DOMAIN g.worth
           /\ \E s \in {-1, 1} :
                /\ \A t \in RuleMoves(g, m) : g.sign[t] = s
                /\ g.worth[m] = IF s > 0 THEN Max(worths) ELSE Min(worths)

ASSUME DeclaredAssumption ==
  /\ Declared \in Seq(Transition)
  /\ Range(Declared) = Transition /\ Len(Declared) = Cardinality(Transition)
ASSUME LimitsAssumption == SettleLimit \in Nat /\ MaxValues \in Nat /\ ClockEvery \in Nat \ {0}
ASSUME PlansAssumption ==
  \A p \in Plans : Legal(p) => OrderOf(p) \in Seq(OrderPieces) /\ Settings(p).budget \in Nat

vars == <<game, plan, table, history, call, run, stack, arg, ret, stage, nodes, stop, calls, losses>>

-----------------------------------------------------------------------------
\* Game::new: a game with what is worked out of it once.

\* S as a sequence, x ahead of y where before(x, y).
Sorted(S, before(_, _)) ==
  [i \in 1 .. Cardinality(S) |-> CHOOSE x \in S : Cardinality({y \in S : before(y, x)}) = i - 1]

\* The place of t in a sequence of transitions.
At(s, t) == CHOOSE i \in DOMAIN s : s[i] = t

InOrder(S) == Sorted(S, LAMBDA x, y : At(Declared, x) < At(Declared, y))

\* The rewards a final marking can have, ascending, when they are few.
Rewards(g) ==
  LET sums == {SumFunctionOnSet(g.reward, S) : S \in SUBSET DOMAIN g.reward}
  IN  IF Cardinality(sums) > MaxValues THEN <<>> ELSE Sorted(sums, LAMBDA x, y : x < y)

\* Goals: the automatic transitions that pay a reward, and the side they pay.
Paid(g, t) == MapThenSumSet(LAMBDA p : g.reward[p] * Given(g.net, t, p), DOMAIN g.reward)
SideOf(g, t) == IF Paid(g, t) > 0 THEN 1 ELSE -1
GoalsOf(g) == {t \in g.auto : Paid(g, t) # 0}

\* The goals of t's side that its outputs feed, but for what feeds them all.
Fed(g, t) ==
  LET mine == {o \in GoalsOf(g) : SideOf(g, o) = g.sign[t]}
      feeds(p, o) == \E i \in Inputs(g.net, o) \cup Tests(g.net, o) :
                       g.net.arcs[i].from = p /\ g.net.arcs[i].typ # "inhibitor"
  IN  {o \in mine : \E i \in Outputs(g.net, t) :
         feeds(g.net.arcs[i].to, o) /\ \E e \in mine : ~ feeds(g.net.arcs[i].to, e)}

\* How far one firing of u can bring goal o closer.
Touch(g, u, o) ==
  LET shift(p) == Distance(Change(g.net, u, p), 0)
  IN  MapThenSumSet(LAMBDA i : shift(g.net.arcs[i].from), Inputs(g.net, o) \cup Tests(g.net, o))
        + MapThenSumSet(shift, Raised(g.net, o))

New(g) ==
  [net |-> g.net, auto |-> g.auto, sign |-> g.sign, reward |-> g.reward,
   worth |-> g.worth, start |-> g.start, ask |-> g.ask, book |-> g.book,
   bits |-> Bits(g.net),
   values |-> Rewards(g),
   least |-> SumFunction([p \in DOMAIN g.reward |-> Min({g.reward[p], 0})]),
   most |-> SumFunction([p \in DOMAIN g.reward |-> Max({g.reward[p], 0})]),
   goals |-> InOrder(GoalsOf(g)),
   side |-> [t \in GoalsOf(g) |-> SideOf(g, t)],
   fed |-> [t \in Transition |-> Fed(g, t)],
   touch |-> [o \in GoalsOf(g) |-> [u \in {t \in Transition \ g.auto : g.sign[t] = SideOf(g, o)} |-> Touch(g, u, o)]]]

Library == {New(g) : g \in Games}

ASSUME GamesAssumption ==
  \A g \in Library :
    /\ g.net \in Nets
    \* There are not more arcs than a count can tell.
    /\ Len(g.net.arcs) <= MaxInt
    /\ g.auto \subseteq Transition /\ g.sign \in [Transition -> Int]
    /\ DOMAIN g.reward \subseteq Place /\ g.reward \in [DOMAIN g.reward -> Int]
    /\ DOMAIN g.worth \subseteq Marking /\ g.worth \in [DOMAIN g.worth -> Int]
    /\ {g.start} \cup g.ask \cup g.book \subseteq DOMAIN g.worth
    \* Best play ends: a position is worth what its last marking pays.
    /\ \A m \in DOMAIN g.worth :
          /\ Minimax(g, m)
          /\ \E x \in DOMAIN g.worth : RuleMoves(g, x) = {} /\ g.worth[m] = g.worth[x]
          /\ Guess(m) \in Int
    \* Rewards are scaled so that an eighth of their range is a whole number.
    /\ (g.most - g.least) % 8 = 0

Values == game.values
Least == game.least
Most == game.most
Goals == game.goals

-----------------------------------------------------------------------------
\* A walk of the search: a settled marking and what it enables, by one engine.

Marked(m) == {p \in Place : m[p] = 1}
ByCounts(m) == [mk |-> m, en |-> {t \in Transition : Enabled(game.net, t, m)}, bits |-> FALSE]
ByBits(m) == [mk |-> m, en |-> {t \in Transition : BitEnabled(game.bits[t], Marked(m))}, bits |-> TRUE]
FitsBits(m) == \A p \in Place : m[p] \in {0, 1}

\* One firing; none where the engine cannot hold the result.
FireOne(t, w) ==
  LET b == game.bits[t]
      m == BitFire(b, Marked(w.mk))
  IN  IF ~ w.bits THEN {ByCounts(Fire(game.net, t, w.mk))}
      ELSE IF Refused(b, Marked(w.mk)) THEN {}
      ELSE {[mk |-> [p \in Place |-> IF p \in m THEN 1 ELSE 0], en |-> Retrack(game.bits, t, m, w.en), bits |-> TRUE]}

\* A move, and automatic transitions, the first of them first, until none is
\* enabled.
Play(t, w) ==
  LET on(v) == IF v.en \cap game.auto = {} THEN {v} ELSE FireOne(First(v.en \cap game.auto), v)
      walked[i \in 0 .. SettleLimit] == IF i = 0 THEN FireOne(t, w) ELSE UNION {on(v) : v \in walked[i - 1]}
  IN  walked[SettleLimit]

Moves(w) == w.en \ game.auto
Over(w) == Moves(w) = {}
Mover(w) == game.sign[First(Moves(w))]

Score(w) == RewardAt(game, w.mk)

\* The best value for side s.
Bound(s) == IF s > 0 THEN Most ELSE Least

Above0(x) == IF x > 0 THEN x ELSE 0

\* How many tokens, or over bits how many conditions, t is short of enabled.
DeficitAt(t, w) ==
  LET arc(i) == game.net.arcs[i]
      short(i) == IF arc(i).typ = "inhibitor" THEN w.mk[arc(i).from] - Weight(arc(i)) + 1
                  ELSE Weight(arc(i)) - w.mk[arc(i).from]
  IN  IF w.bits THEN IF game.bits[t].never THEN MaxInt ELSE Cardinality(Lacks(game.bits[t], Marked(w.mk)))
      ELSE IF Invalid(game.net, t) THEN MaxInt
      ELSE MapThenSumSet(LAMBDA i : Above0(short(i)), Inputs(game.net, t) \cup Tests(game.net, t))
           + MapThenSumSet(LAMBDA p : Above0(w.mk[p] + NetEffect(game.net, t, p) - game.net.cap[p]), Raised(game.net, t))

-----------------------------------------------------------------------------
\* Filters (filter.rs).

\* w is final at the best bound of side s.
BestFor(s, w) == Over(w) /\ Score(w) = Bound(s)

\* The replies tried, each with its turn: with goals, those that can bring one
\* to enabled, goal by goal.
Brings(u, o, deficit) == u \in DOMAIN game.touch[o] /\ game.touch[o][u] > 0 /\ game.touch[o][u] >= deficit
Near(o, deficit, w) == {u \in Moves(w) : Brings(u, o, deficit)}
Replies(s, w) ==
  IF Goals = <<>> THEN {0} \X Moves(w)
  ELSE UNION {{i} \X Near(Goals[i], DeficitAt(Goals[i], w), w) : i \in {j \in DOMAIN Goals : game.side[Goals[j]] = -s}}

\* What a reply says: none where the engine cannot hold it.
Reply(s, played) == IF played = {} THEN "spilled" ELSE IF \A v \in played : BestFor(-s, v) THEN "yes" ELSE "no"

\* Whether after a move of side s to w the other side can win at once: the first
\* reply that tells decides.
Lost(s, w) ==
  LET telling == {r \in Replies(s, w) : Reply(s, Play(r[2], w)) # "no"}
      turn == Min({r[1] : r \in telling})
  IN  IF Over(w) \/ Mover(w) # -s \/ telling = {} THEN "no"
      ELSE Reply(s, Play(First({r[2] : r \in {x \in telling : x[1] = turn}}), w))

-----------------------------------------------------------------------------
\* Move order (order.rs).

\* The keys of move t of side s to w, up to a decisive one; first is the move
\* the table remembers.
Keys(t, w, s, first) ==
  LET key(piece) ==
        CASE piece = "tt_best" -> IF {t} = first THEN 1 ELSE 0
          [] piece = "immediate_win" -> IF Over(w) /\ s * Score(w) > 0 THEN 1 ELSE 0
          [] piece = "history" -> history[t]
          [] piece = "centrality" -> Cardinality(game.fed[t])
          [] piece = "threats" -> Cardinality({o \in game.fed[t] : DeficitAt(o, w) = 1})
      settled(i) == \E j \in 1 .. i - 1 : plan.order[j] \in Decisive /\ key(plan.order[j]) # 0
  IN  [i \in DOMAIN plan.order |-> IF settled(i) THEN 0 ELSE key(plan.order[i])]

\* Kids, best first by their keys; ties by the order given, the root's or the
\* net's.
Ahead(x, y, ties) ==
  LET differ == {i \in DOMAIN plan.order : x.keys[i] # y.keys[i]}
  IN  IF differ = {} THEN At(ties, x.t) < At(ties, y.t) ELSE x.keys[Min(differ)] > y.keys[Min(differ)]

Ranking(kids, ties) == Sorted(kids, LAMBDA x, y : Ahead(x, y, ties))

\* A cutoff by t: only the history learns of it.
Cutoff(t) == history' = [history EXCEPT ![t] = IF "history" \in Range(plan.order) THEN @ + 1 ELSE @]

-----------------------------------------------------------------------------
\* The root's pieces (root.rs): the moves kept, best guess first, and the best
\* guess; none where no piece runs.
Estimated(w) ==
  IF ~ plan.estimate THEN 0 ELSE IF Over(w) THEN Score(w) ELSE Max({Least, Min({Most, Guess(w.mk)})})

\* Whether the root drops a move that leads to one of the walks played.
Dropped(s, played) == plan.root_non_losing /\ \E w \in played : Lost(s, w) = "yes"

\* The moves and their guesses, best first for side s.
BestFirst(s, kept) ==
  Sorted(kept, LAMBDA x, y : s * x.guess > s * y.guess
                              \/ (x.guess = y.guess /\ At(Declared, x.t) < At(Declared, y.t)))

Ranked(s, first) ==
  [order |-> [i \in DOMAIN first |-> first[i].t],
   guess |-> IF plan.estimate /\ first # <<>> THEN {first[1].guess} ELSE {}]

RankAt(w) ==
  Ranked(Mover(w), BestFirst(Mover(w),
    UNION {{[t |-> t, guess |-> Estimated(v)] : v \in Play(t, w)} : t \in {u \in Moves(w) : ~ Dropped(Mover(w), Play(u, w))}}))

Rank(m) ==
  IF ~ (plan.estimate \/ plan.root_non_losing) \/ Over(ByCounts(m)) THEN {} ELSE {RankAt(ByCounts(m))}

-----------------------------------------------------------------------------
\* The table.

KeyOf(w) == [mk |-> w.mk, bits |-> w.bits]
Held(k) == {e \in table : e.key = k}

Entry(k, lo, hi, best) ==
  [key |-> k, lo |-> Max({lo} \cup {e.lo : e \in Held(k)}), hi |-> Min({hi} \cup {e.hi : e \in Held(k)}), best |-> best]

\* What is told meets what was held, another entry may have to go, or nothing
\* is kept of it.
Store(k, lo, hi, best) ==
  \/ table' = (table \ Held(k)) \cup {Entry(k, lo, hi, best)} /\ UNCHANGED losses
  \/ /\ losses < MaxLosses /\ losses' = losses + 1
     /\ \/ \E x \in table \ Held(k) : table' = (table \ (Held(k) \cup {x})) \cup {Entry(k, lo, hi, best)}
        \/ table' = table

-----------------------------------------------------------------------------
\* A call.

NoCall == [kind |-> "none", at |-> game.start, order |-> <<>>, left |-> <<>>, known |-> {}, trying |-> {},
           value |-> <<>>, total |-> 0, limit |-> 0, move |-> {}, exact |-> TRUE]

NoRun == [at |-> game.start, ranked |-> {}, bits |-> FALSE, spilled |-> FALSE, mode |-> "range",
          i |-> 1, j |-> 1, k |-> 1, f |-> {}]

RunAt(m, ranked) == [NoRun EXCEPT !.at = m, !.ranked = ranked, !.bits = FitsBits(m)]

\* A call with the root's rank at hand.
Asked(kind, w, rank) ==
  [NoCall EXCEPT !.kind = kind, !.at = w.mk, !.limit = plan.budget,
                 !.order = IF rank = {} THEN InOrder(Moves(w)) ELSE (CHOOSE r \in rank : TRUE).order]

Ask(kind, m) ==
  /\ stage = "idle" /\ calls < MaxCalls
  /\ calls' = calls + 1
  /\ stop' = FALSE
  /\ \E w \in {ByCounts(m)}, rank \in {Rank(m)} : \E asked \in {Asked(kind, w, rank)} :
       \/ /\ kind = "choose" /\ Over(w)
          /\ call' = asked /\ nodes' = 0 /\ UNCHANGED <<run, stage>>
       \/ /\ kind = "choose" /\ ~ Over(w) /\ asked.order = <<>>
          /\ call' = [asked EXCEPT !.move = {First(w.en)}, !.value = <<Bound(- Mover(w))>>]
          /\ nodes' = 1 /\ UNCHANGED <<run, stage>>
       \/ /\ kind = "value" \/ asked.order # <<>>
          /\ call' = asked /\ run' = RunAt(m, rank) /\ stage' = "run"
          /\ UNCHANGED nodes
  /\ UNCHANGED <<game, plan, table, history, stack, arg, ret, losses>>

\* The gap, or the value, nearest to x; the first of two as near.
Nearest(S, dist(_)) == CHOOSE k \in S : \A o \in S : dist(k) < dist(o) \/ (dist(k) = dist(o) /\ k <= o)

\* How many of the values are at most x, and the first that is at least x.
UpTo(x) == Cardinality({k \in DOMAIN Values : Values[k] <= x})
From(x) == 1 + Cardinality({k \in DOMAIN Values : Values[k] < x})

\* run and solve: the engine and the kind of search.
Begin ==
  LET w == IF run.bits THEN ByBits(run.at) ELSE ByCounts(run.at)
      guess == UNION {r.guess : r \in {q \in run.ranked : plan.aspiration}}
      n == Len(Values)
      mid(k) == Values[k] + Values[k + 1]
      hopeless == \E r \in run.ranked : r.order = <<>>
      held == IF plan.mtd_f THEN Held(KeyOf(w)) ELSE {}
      i == Min({n, Max({1} \cup {From(e.lo) : e \in held})})
      j == Max({1, Min({n} \cup {UpTo(e.hi) : e \in held})})
  IN  /\ stage = "run"
      /\ nodes' = IF hopeless THEN 1 ELSE 0
      /\ IF hopeless
         THEN ret' = <<Bound(- Mover(w))>> /\ stage' = "done" /\ UNCHANGED run
         ELSE IF n < 3 \/ ~ (plan.null_window \/ plan.mtd_f)
         THEN run' = [run EXCEPT !.mode = IF guess = {} THEN "range" ELSE "aspire", !.f = guess] /\ stage' = "test" /\ UNCHANGED ret
         ELSE IF Over(w)
         THEN ret' = <<Score(w)>> /\ stage' = "done" /\ UNCHANGED run
         ELSE IF plan.mtd_f
         THEN /\ run' = [run EXCEPT !.mode = "mtd_f", !.i = i, !.j = j,
                           !.f = {Max({i, Min({Max({i, j}), Nearest(1 .. n, LAMBDA k : Distance(Values[k], e))})}) : e \in guess}]
              /\ stage' = "test" /\ UNCHANGED ret
         ELSE /\ \E k \in IF guess = {} THEN {IF Mover(w) > 0 THEN 1 ELSE n - 1}
                          ELSE {Nearest(1 .. n - 1, LAMBDA x : Distance(mid(x), 2 * e)) : e \in guess} :
                   run' = [run EXCEPT !.mode = "steps", !.i = 1, !.j = n, !.k = k]
              /\ stage' = "test" /\ UNCHANGED ret
      /\ UNCHANGED <<game, plan, table, history, call, stack, arg, stop, calls, losses>>

\* Mutant: a guess that is the least value left is tested from below.
TestGapBelow(i, j, f) ==
  IF f = {} THEN i + (j - i - 1) \div 2 ELSE IF Max(f) < i THEN i ELSE Max({1, Min({Max(f) - 1, j - 1})})

\* Which gap the next of mtd_f's tests is about.
TestGap(i, j, f) ==
  IF f = {} THEN i + (j - i - 1) \div 2 ELSE IF Max(f) <= i THEN i ELSE Min({Max(f) - 1, j - 1})

\* A quarter of the range, around the guess.
Window ==
  LET d == (Most - Least) \div 8
      k == IF run.mode = "mtd_f" THEN TestGap(run.i, run.j, run.f) ELSE run.k
  IN  CASE run.mode = "range" -> <<Least, Most>>
        [] run.mode = "aspire" -> <<Max({Max(run.f) - d, Least}), Min({Max(run.f) + d, Most})>>
        [] OTHER -> <<Values[k], Values[k + 1]>>

\* The next search over a window, or for mtd_f none once one value is left.
Test ==
  /\ stage = "test"
  /\ IF run.mode = "mtd_f" /\ run.i >= run.j
     THEN ret' = <<Values[run.i]>> /\ stage' = "done" /\ UNCHANGED <<arg, run>>
     ELSE /\ arg' = [w |-> IF run.bits THEN ByBits(run.at) ELSE ByCounts(run.at),
                     a |-> Window[1], b |-> Window[2], root |-> TRUE]
          /\ run' = IF run.mode = "mtd_f" THEN [run EXCEPT !.k = TestGap(run.i, run.j, run.f)] ELSE run
          /\ stage' = "search" /\ UNCHANGED ret
  /\ UNCHANGED <<game, plan, table, history, call, stack, nodes, stop, calls, losses>>

-----------------------------------------------------------------------------
\* search, one call of it.

Enter == stage = "search" /\ nodes' = nodes + 1
Return(x) == ret' = x /\ stage' = "back"

\* The clock ran out, or the budget did.
GiveUp ==
  /\ Enter
  /\ \/ nodes' > call.limit \/ stop
     \/ plan.timed /\ nodes' % ClockEvery = 0
  /\ stop' = (stop \/ nodes' <= call.limit)
  /\ Return(<<>>)
  /\ UNCHANGED <<game, plan, table, history, call, run, stack, arg, calls, losses>>

Goes == Enter /\ nodes' <= call.limit /\ ~ stop

Settles(e) == e.lo = e.hi \/ e.lo >= arg.b \/ e.hi <= arg.a

Recall ==
  /\ Goes
  /\ \E e \in Held(KeyOf(arg.w)) :
       Settles(e) /\ Return(<<IF e.lo = e.hi \/ e.lo >= arg.b THEN e.lo ELSE e.hi>>)
  /\ UNCHANGED <<game, plan, table, history, call, run, stack, arg, stop, calls, losses>>

Unsettled == Goes /\ \A e \in Held(KeyOf(arg.w)) : ~ Settles(e)

Final ==
  /\ Unsettled /\ Over(arg.w)
  /\ Store(KeyOf(arg.w), Score(arg.w), Score(arg.w), {})
  /\ Return(<<Score(arg.w)>>)
  /\ UNCHANGED <<game, plan, history, call, run, stack, arg, stop, calls>>

\* A child, and what the filters make of it: the bit engine cannot hold it, it
\* is won at once, or for the other side; the last is known only where the
\* first two are not.
Judged(t, s, played) ==
  [t |-> t, played |-> played,
   ends |-> played = {} \/ (plan.must_win /\ \A v \in played : BestFor(s, v)),
   lost |-> IF ~ plan.non_losing THEN {"no"} ELSE {Lost(s, v) : v \in played}]

Children(w) == [t \in Moves(w) |-> Judged(t, Mover(w), Play(t, w))]

SpillNow ==
  /\ run' = [run EXCEPT !.spilled = TRUE]
  /\ Return(<<>>)
  /\ UNCHANGED <<game, plan, table, history, call, stack, arg, stop, calls, losses>>

\* The first child that ends the loop over them settles the position.
Loop(first) ==
  \/ /\ first.played = {}
     /\ SpillNow
  \/ /\ first.played # {}
     /\ Cutoff(first.t)
     /\ Store(KeyOf(arg.w), Bound(Mover(arg.w)), Bound(Mover(arg.w)), {first.t})
     /\ Return(<<Bound(Mover(arg.w))>>)
     /\ UNCHANGED <<game, plan, call, run, stack, arg, stop, calls>>

Hopeless ==
  /\ Store(KeyOf(arg.w), Bound(- Mover(arg.w)), Bound(- Mover(arg.w)), {})
  /\ Return(<<Bound(- Mover(arg.w))>>)
  /\ UNCHANGED <<game, plan, history, call, run, stack, arg, stop, calls>>

SearchNext(f) == [w |-> f.kids[f.next].w, a |-> f.a, b |-> f.b, root |-> FALSE]

Child(c) == CHOOSE w \in c.played : TRUE

\* Mutant: what one side of the window cut off is told as exact.
ProvedAlways(f) == <<f.best[1], f.best[1]>>

\* What the search of f shows of its position.
Proved(f) ==
  IF f.best[1] <= f.a0 THEN <<Least, f.best[1]>>
  ELSE IF f.best[1] >= f.b0 THEN <<f.best[1], Most>>
  ELSE <<f.best[1], f.best[1]>>

\* At the root, the search's filter and the root's may drop every child between
\* them: the best of none is worse than every value.
Childless(f) ==
  \E none \in {[f EXCEPT !.best = <<IF f.s > 0 THEN Least - 1 ELSE Most + 1>>]} :
    /\ Store(KeyOf(f.w), Proved(none)[1], Proved(none)[2], {})
    /\ Return(none.best)
    /\ UNCHANGED <<stack, arg>>

\* Nothing settles the position: the children kept are searched, best first, at
\* the root in the root's order, in the window the table leaves.
Open(kept) ==
  /\ LET held == Held(KeyOf(arg.w))
         a == Max({arg.a} \cup {e.lo : e \in held})
         b == Min({arg.b} \cup {e.hi : e \in held})
         ranked == IF arg.root THEN run.ranked ELSE {}
         ties == IF ranked = {} THEN Declared ELSE (CHOOSE r \in ranked : TRUE).order
         kid(c) == [t |-> c.t, w |-> Child(c), keys |-> Keys(c.t, Child(c), Mover(arg.w), UNION {e.best : e \in held})]
     IN  \E frame \in {[w |-> arg.w, s |-> Mover(arg.w), a0 |-> a, b0 |-> b, a |-> a, b |-> b, next |-> 1, best |-> <<>>, by |-> {},
                        kids |-> Ranking({kid(c) : c \in {x \in kept : x.t \in Range(ties)}}, ties)]} :
           IF frame.kids = <<>> THEN Childless(frame)
           ELSE /\ stack' = Append(stack, frame) /\ arg' = SearchNext(frame)
                /\ UNCHANGED <<table, ret, stage, losses>>
  /\ UNCHANGED <<game, plan, history, call, run, stop, calls>>

Expand ==
  /\ Unsettled /\ ~ Over(arg.w)
  /\ \E children \in {Children(arg.w)} :
       LET telling == {t \in DOMAIN children : children[t].ends}
           kept == {c \in Range(children) : "no" \in c.lost}
       IN  \/ telling # {} /\ Loop(children[First(telling)])
           \/ telling = {} /\ (\E c \in Range(children) : "spilled" \in c.lost) /\ SpillNow
           \/ telling = {} /\ (\A c \in Range(children) : c.lost = {"yes"}) /\ Hopeless
           \/ /\ telling = {} /\ (\A c \in Range(children) : "spilled" \notin c.lost)
              /\ kept # {} /\ Open(kept)

\* What the frame knows after its child returned v.
Improves(f, v) == f.best = <<>> \/ (f.s > 0 /\ v > f.best[1]) \/ (f.s < 0 /\ v < f.best[1])

Learned(f, v) ==
  [f EXCEPT !.best = IF Improves(f, v) THEN <<v>> ELSE @,
            !.by = IF Improves(f, v) THEN {f.kids[f.next].t} ELSE @,
            !.a = IF f.s > 0 THEN Max({@, v}) ELSE @,
            !.b = IF f.s > 0 THEN @ ELSE Min({@, v})]

Top == stack[Len(stack)]
Below == SubSeq(stack, 1, Len(stack) - 1)

Resume ==
  /\ stage = "back" /\ stack # <<>> /\ ret # <<>>
  /\ LET f == Learned(Top, ret[1])
         on == [f EXCEPT !.next = @ + 1]
     IN  /\ f.a < f.b /\ f.next < Len(f.kids)
         /\ stack' = Append(Below, on)
         /\ arg' = SearchNext(on)
  /\ stage' = "search"
  /\ UNCHANGED <<game, plan, table, history, call, run, ret, nodes, stop, calls, losses>>

Leave ==
  /\ stage = "back" /\ stack # <<>> /\ ret # <<>>
  /\ LET f == Learned(Top, ret[1])
     IN  /\ f.a >= f.b \/ f.next = Len(f.kids)
         /\ IF f.a >= f.b THEN Cutoff(f.kids[f.next].t) ELSE UNCHANGED history
         /\ Store(KeyOf(f.w), Proved(f)[1], Proved(f)[2], f.by)
         /\ ret' = f.best
  /\ stack' = Below
  /\ UNCHANGED <<game, plan, call, run, arg, stage, nodes, stop, calls>>

\* Mutant: what was searched before the budget ran out is told.
UnwindStoring ==
  /\ stage = "back" /\ stack # <<>> /\ ret = <<>>
  /\ IF Top.best = <<>> THEN UNCHANGED <<table, losses>>
     ELSE Store(KeyOf(Top.w), Proved(Top)[1], Proved(Top)[2], Top.by)
  /\ stack' = Below
  /\ UNCHANGED <<game, plan, history, call, run, arg, ret, stage, nodes, stop, calls>>

\* A search that gave up takes those around it along; none tells the table.
Unwind ==
  /\ stage = "back" /\ stack # <<>> /\ ret = <<>>
  /\ stack' = Below
  /\ UNCHANGED <<game, plan, table, history, call, run, arg, ret, stage, nodes, stop, calls, losses>>

-----------------------------------------------------------------------------
\* What a search at the root says of the value, and what is asked next.
Decide ==
  /\ stage = "back" /\ stack = <<>> /\ ret # <<>>
  /\ LET v == ret[1]
         a == Window[1]
         b == Window[2]
         up == 2 * v > a + b
         i == IF up THEN run.k + 1 ELSE run.i
         j == IF up THEN run.j ELSE run.k
         raised == Max({run.i, Min({From(v), run.j})})
         cut == Max({run.i, Min({run.j, Max({UpTo(v), 1})})})
     IN  CASE run.mode = "range" -> stage' = "done" /\ UNCHANGED <<run, ret>>
           [] run.mode = "aspire" /\ a < v /\ v < b -> stage' = "done" /\ UNCHANGED <<run, ret>>
           [] run.mode = "aspire" /\ ~ (a < v /\ v < b) -> stage' = "test" /\ run' = [run EXCEPT !.mode = "range"] /\ UNCHANGED ret
           [] run.mode = "steps" /\ i >= j -> stage' = "done" /\ ret' = <<Values[i]>> /\ UNCHANGED run
           [] run.mode = "steps" /\ i < j -> /\ stage' = "test"
                                             /\ run' = [run EXCEPT !.i = i, !.j = j, !.k = IF up THEN i ELSE j - 1]
                                             /\ UNCHANGED ret
           [] run.mode = "mtd_f" -> /\ stage' = "test"
                                    /\ run' = IF v >= b
                                              THEN [run EXCEPT !.i = raised, !.f = {raised : x \in run.f}]
                                              ELSE [run EXCEPT !.j = cut, !.f = {cut : x \in run.f}]
                                    /\ UNCHANGED ret
  /\ UNCHANGED <<game, plan, table, history, call, stack, arg, nodes, stop, calls, losses>>

\* No value: by counts, if bits could not hold a position, else none.
NoValue ==
  /\ stage = "back" /\ stack = <<>> /\ ret = <<>>
  /\ IF run.bits /\ run.spilled
     THEN stage' = "run" /\ run' = [run EXCEPT !.bits = FALSE]
     ELSE stage' = "done" /\ UNCHANGED run
  /\ UNCHANGED <<game, plan, table, history, call, stack, arg, ret, nodes, stop, calls, losses>>

-----------------------------------------------------------------------------
\* The run's value is the call's, or the first thing choose needs, or that of a
\* move it tries.
Answer ==
  /\ stage = "done" /\ call.kind = "value"
  /\ call' = [call EXCEPT !.value = ret]
  /\ stage' = "idle"
  /\ UNCHANGED <<game, plan, table, history, run, stack, arg, ret, nodes, stop, calls, losses>>

\* Mutant: a guess is told as a best move.
UnfoundSure(c) ==
  IF plan.play THEN [c EXCEPT !.move = IF c.known # {} THEN c.known ELSE {Head(c.order)}] ELSE c

\* No move was shown to be best: in play mode a guess.
Unfound(c) ==
  IF plan.play THEN [c EXCEPT !.move = IF c.known # {} THEN c.known ELSE {Head(c.order)}, !.exact = FALSE]
  ELSE c

KeyAt(m) == [mk |-> m, bits |-> FitsBits(m)]

Valued ==
  /\ stage = "done" /\ call.kind = "choose" /\ call.trying = {}
  /\ LET known == (UNION {e.best : e \in Held(KeyAt(call.at))}) \cap Range(call.order)
         c == [call EXCEPT !.value = ret, !.total = nodes, !.known = known, !.left = SetToSeq(known) \o call.order]
     IN  IF ret = <<>> THEN call' = Unfound(c) /\ stage' = "idle"
         ELSE call' = c /\ stage' = "pick"
  /\ UNCHANGED <<game, plan, table, history, run, stack, arg, ret, nodes, stop, calls, losses>>

\* The next move choose looks at: final where it leads, or valued in a run of its
\* own with what is left of the budget.
Pick ==
  /\ stage = "pick"
  /\ IF call.left = <<>> THEN call' = Unfound(call) /\ stage' = "idle" /\ nodes' = call.total /\ UNCHANGED run
     ELSE LET t == Head(call.left)
              w == CHOOSE x \in Play(t, ByCounts(call.at)) : TRUE
          IN  IF ~ Over(w)
              THEN /\ run' = RunAt(w.mk, {}) /\ stage' = "run"
                   /\ call' = [call EXCEPT !.trying = {t}, !.left = Tail(@), !.limit = Above0(plan.budget - call.total)]
                   /\ UNCHANGED nodes
              ELSE IF Score(w) = call.value[1]
              THEN call' = [call EXCEPT !.move = {t}] /\ stage' = "idle" /\ nodes' = call.total /\ UNCHANGED run
              ELSE call' = [call EXCEPT !.left = Tail(@)] /\ UNCHANGED <<stage, nodes, run>>
  /\ UNCHANGED <<game, plan, table, history, stack, arg, ret, stop, calls, losses>>

Tried ==
  /\ stage = "done" /\ call.trying # {}
  /\ LET c == [call EXCEPT !.total = @ + nodes, !.trying = {}]
     IN  IF ret = call.value THEN call' = [c EXCEPT !.move = call.trying] /\ stage' = "idle" /\ nodes' = c.total
         ELSE IF ret = <<>> THEN call' = Unfound(c) /\ stage' = "idle" /\ nodes' = c.total
         ELSE call' = c /\ stage' = "pick" /\ UNCHANGED nodes
  /\ UNCHANGED <<game, plan, table, history, run, stack, arg, ret, stop, calls, losses>>

-----------------------------------------------------------------------------
NoArg == [w |-> ByCounts(game.start), a |-> Least, b |-> Most, root |-> FALSE]

\* A solver as a legal plan builds it, its book's positions known exactly.
Init ==
  /\ game \in Library
  /\ plan \in {Settings(p) : p \in {q \in Plans : Legal(q) /\ (Range(OrderOf(q)) \cap NeedsGoals # {} => Goals # <<>>)}}
  /\ table = {[key |-> KeyAt(m), lo |-> game.worth[m], hi |-> game.worth[m], best |-> {}] : m \in game.book}
  /\ history = [t \in Transition |-> 0]
  /\ call = NoCall /\ run = NoRun
  /\ stack = <<>> /\ arg = NoArg /\ ret = <<>>
  /\ stage = "idle" /\ nodes = 0 /\ stop = FALSE
  /\ calls = 0 /\ losses = 0

Search == Recall \/ Final \/ Expand \/ GiveUp

Work ==
  \/ Begin \/ Test
  \/ Search
  \/ Resume \/ Leave \/ Unwind
  \/ Decide \/ NoValue
  \/ Answer \/ Valued \/ Pick \/ Tried

Next ==
  \/ \E kind \in {"value", "choose"}, m \in game.ask : Ask(kind, m)
  \/ Work

Spec == Init /\ [][Next]_vars

-----------------------------------------------------------------------------
Walks == {f.w : f \in Range(stack)} \cup (IF stage = "search" THEN {arg.w} ELSE {})

\* Not both the search and its root drop losing moves. With both, the search
\* drops those its own engine's deficits call lost, and of the rest those the
\* root, which walks by counts, dropped (game.rs 1111-1133). Where two arcs ask
\* one place, or an arc asks for two tokens, the deficits differ, each may drop
\* what the other keeps, and a loop over no move makes its value infinite.
OneFilter == ~ (plan.non_losing /\ plan.root_non_losing)

\* The doc of value (game.rs 808-810): under a plan with one filter of losing
\* moves at most, what a call answers is the value of the position with both
\* sides playing perfectly, whatever the order, the guesses, the table's losses
\* and the calls before, cut off or not. Under any plan it is given up only when
\* the budget, of nodes or of time, is used up: a position the bit engine cannot
\* hold is no reason.
ValueExact ==
  /\ OneFilter /\ call.value # <<>> => call.value[1] = game.worth[call.at]
  /\ stage = "idle" /\ call.kind = "value" /\ call.value = <<>> => nodes > call.limit \/ stop

\* The doc of choose (game.rs 817-826): a move told as exact is told with the
\* position's value, and is a best one where the plan has one filter of losing
\* moves at most; a guess is only made in play mode, of a move; and play mode
\* has a move wherever there is one.
ChoiceBest ==
  stage = "idle" /\ call.kind = "choose" =>
    /\ call.exact /\ call.move # {} => call.value # <<>>
    /\ call.exact /\ OneFilter => \A t \in call.move : game.worth[RuleAfter(game, call.at, t)] = game.worth[call.at]
    /\ ~ call.exact => plan.play
    /\ call.move \subseteq RuleMoves(game, call.at)
    /\ plan.play /\ RuleMoves(game, call.at) # {} => call.move # {}

\* What the table holds of a position is true of its value, under a plan with one
\* filter of losing moves at most, and the move it remembers as best is one of
\* that position, after searches cut off halfway as after those that ended, in
\* windows of any width.
TableSound ==
  \A e \in table :
    /\ OneFilter => e.lo <= game.worth[e.key.mk] /\ game.worth[e.key.mk] <= e.hi
    /\ e.best \subseteq RuleMoves(game, e.key.mk)

\* A position reached by bits, its enabled set kept up to date firing by
\* firing, is the one the counts reach, and enables what the net's rule says.
WalksExact ==
  \A w \in Walks : w.mk \in DOMAIN game.worth /\ w.en = RuleMoves(game, w.mk)

\* A run of yes/no searches ends (game.rs 985-1010, 1037-1063): each answer
\* leaves fewer values the position may have.
AnswersNarrow ==
  [][Decide /\ run.mode \in {"steps", "mtd_f"} /\ stage' = "test" => run'.j - run'.i < run.j - run.i]_vars

=============================================================================
