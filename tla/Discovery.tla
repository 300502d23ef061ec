----------------------------- MODULE Discovery ------------------------------
(***************************************************************************)
(* The discovery methods of pflow-mining (footprint.rs, alpha.rs,          *)
(* heuristic.rs, discovery.rs): the net each makes of an event log.  A log *)
(* is a sequence of cases, in the order of their ids; [trace, cases] says  *)
(* how many cases in a row have one trace.  The names of the places        *)
(* between activities carry no meaning and are handed out in turn; the     *)
(* place "start" or "end" is never an activity here.  Positions, labels    *)
(* and coverage statistics are left out, and of alpha.rs its limit of five *)
(* activities on either side of a place.                                   *)
(***************************************************************************)
EXTENDS FiringRule, SequencesExt

CONSTANTS
  Activity,    \* the activities and transitions, in the order of their names
  PlaceName    \* names for the places between activities

-----------------------------------------------------------------------------
\* FootprintMatrix: how often one activity directly follows another.
Pairs(trace) == {i \in DOMAIN trace : i > 1}
FollowsIn(trace, a, b) == Cardinality({i \in Pairs(trace) : trace[i - 1] = a /\ trace[i] = b})
FollowsCount(log, a, b) ==
  FoldLeft(LAMBDA n, c : n + c.cases * FollowsIn(c.trace, a, b), 0, log)

Follows(log, a, b) == FollowsCount(log, a, b) > 0
Causal(log, a, b) == Follows(log, a, b) /\ ~ Follows(log, b, a)
Choice(log, a, b) == ~ Follows(log, a, b) /\ ~ Follows(log, b, a)

Seen(log) == UNION {Range(c.trace) : c \in Range(log)}
Starts(log) == {Head(c.trace) : c \in Range(log)}
Finishes(log) == {Last(c.trace) : c \in Range(log)}

-----------------------------------------------------------------------------
\* A net of pflow-core: places with their tokens, transitions with their
\* labels, and arcs, of which one that inhibits is drawn either way.
Line(x, y) == [source |-> x, target |-> y, weight |-> 1, inhibit |-> FALSE]
Lines(S, T) == SetToSeq({Line(x, y) : x \in S, y \in T})

\* One place between the activities of each pair <<before, after>>, with this
\* many tokens.
Between(pairs, tokens) ==
  [places |-> [p \in {PlaceName[i] : i \in DOMAIN pairs} |-> tokens],
   arcs |-> FlattenSeq([i \in DOMAIN pairs |-> Lines(pairs[i][1], {PlaceName[i]}) \o Lines({PlaceName[i]}, pairs[i][2])])]

\* A net with these places between, a token in "start" before the activities
\* that start a case, and "end" after those that finish one.
Framed(log, middle) ==
  [places |-> middle.places @@ (IF log = <<>> THEN <<>> ELSE [p \in {"start", "end"} |-> IF p = "start" THEN 1 ELSE 0]),
   labels |-> [a \in Seen(log) |-> a],
   arcs |-> middle.arcs \o Lines({"start"}, Starts(log)) \o Lines(Finishes(log), {"end"})]

-----------------------------------------------------------------------------
\* alpha.rs: places where all of A cause all of B and neither side is related.
Unrelated(log, S) == \A a, b \in S : a # b => Choice(log, a, b)
CausallyConnected(log, A, B) == \A a \in A, b \in B : Causal(log, a, b)

PlaceCandidates(log) ==
  LET sides == {S \in SUBSET Seen(log) \ {{}} : Unrelated(log, S)}
  IN  {c \in sides \X sides : CausallyConnected(log, c[1], c[2])}

\* Mutant: every candidate becomes a place.
AllCandidates(candidates) == candidates

FilterMaximal(candidates) ==
  {c \in candidates : ~ \E d \in candidates : d # c /\ c[1] \subseteq d[1] /\ c[2] \subseteq d[2]}

Alpha(log) == Framed(log, Between(SetToSeq(FilterMaximal(PlaceCandidates(log))), 0))

\* heuristic.rs with its default thresholds of one half: dependency_score and
\* loop_score, multiplied out.
Depends(log, a, b) ==
  LET ab == FollowsCount(log, a, b)
      ba == FollowsCount(log, b, a)
  IN  a # b /\ ab + ba > 0 /\ 2 * (ab - ba) >= ab + ba + 1
Loops(log, a) == 2 * FollowsCount(log, a, a) >= FollowsCount(log, a, a) + 1

\* One place for each dependency, and a marked one around each loop.
Heuristic(log) ==
  LET edges == SetToSeq({<<{e[1]}, {e[2]}>> : e \in {x \in Seen(log) \X Seen(log) : Depends(log, x[1], x[2])}})
      loops == SetToSeq({<<{a}, {a}>> : a \in {x \in Seen(log) : Loops(log, x)}})
      both == Between(edges \o loops, 0)
  IN  Framed(log, [both EXCEPT !.places = [p \in DOMAIN @ |-> IF \E i \in DOMAIN edges : PlaceName[i] = p THEN 0 ELSE 1]])

-----------------------------------------------------------------------------
\* A chain through these activities, from "start" to "end"; an activity that
\* comes twice is one transition all the same.
Chain(steps) ==
  IF steps = <<>> THEN [places |-> <<>>, labels |-> <<>>, arcs |-> <<>>]
  ELSE LET n == Len(steps)
           before(i) == IF i = 1 THEN "start" ELSE PlaceName[i - 1]
           after(i) == IF i = n THEN "end" ELSE PlaceName[i]
       IN  [places |-> [p \in {before(i) : i \in 1 .. n} \cup {"end"} |-> IF p = "start" THEN 1 ELSE 0],
            labels |-> [a \in Range(steps) |-> a],
            arcs |-> FlattenSeq([i \in 1 .. n |-> <<Line(before(i), steps[i]), Line(steps[i], after(i))>>])]

\* discover_sequential_net: all activities, in the order of their names.
Sequential(log) == Chain(SelectSeq(Activity, LAMBDA a : a \in Seen(log)))

\* discover_common_path: the trace of the most cases, the first seen of those.
CasesOf(log, trace) == FoldLeft(LAMBDA n, c : IF c.trace = trace THEN n + c.cases ELSE n, 0, log)
MostCommon(log) ==
  log[CHOOSE i \in DOMAIN log : \A j \in DOMAIN log :
        \/ CasesOf(log, log[j].trace) < CasesOf(log, log[i].trace)
        \/ CasesOf(log, log[j].trace) = CasesOf(log, log[i].trace) /\ i <= j].trace
CommonPath(log) == Chain(IF log = <<>> THEN <<>> ELSE MostCommon(log))

Method == {"sequential", "common-path", "alpha", "heuristic"}

\* discover
Discover(log, method) ==
  CASE method = "sequential" -> Sequential(log)
    [] method = "common-path" -> CommonPath(log)
    [] method = "alpha" -> Alpha(log)
    [] method = "heuristic" -> Heuristic(log)

=============================================================================
