------------------------------- MODULE Verify -------------------------------
(***************************************************************************)
(* Verifier (pflow-verify verify.rs): claims about a net, each proved,     *)
(* refuted or left open, first by linear algebra on the incidence matrix,  *)
(* then from the graph within its limits, then by a pump.  The code builds *)
(* the graph anew for each claim and gets the same one; here it is built   *)
(* once.  A claim's expression is what parse_expr makes of its text.       *)
(***************************************************************************)
EXTENDS Liveness, Invariants

CONSTANTS Claims    \* the claims put to the verifier, in order

Linear == {"invariant", "mutex", "conserves"}
Kind == Linear \cup {"deadlock_free", "bounded", "live", "l4_live", "terminating", "reachable", "unreachable"}

\* Coefficients and bounds are whole numbers.
ASSUME ClaimsAssumption ==
  /\ Claims \in Seq(Range(Claims))
  /\ \A c \in Range(Claims) :
       /\ c.kind \in Kind
       /\ c.kind = "invariant" => c.expr.coeffs \in [DOMAIN c.expr.coeffs -> Int] /\ c.expr.constant \in Int
       /\ c.kind = "mutex" => c.places \in Seq(Range(c.places)) /\ c.bound \in Int

VARIABLES verdicts  \* Report::verdicts

vars == <<analysis, verdicts>>

Verdict(status, method, shown) == [status |-> status, method |-> method, shown |-> shown]

\* A counterexample, or none: a firing sequence and the marking it leads to.
Counterexample(trace, m) == {[trace |-> trace, marking |-> m]}

MethodFor == IF truncated THEN "partial" ELSE "exhaustive"

\* A refutation stands however the search stopped; a proof needs all of it.
Exhaustively(shown) ==
  IF shown # {} THEN Verdict("refuted", MethodFor, shown)
  ELSE IF truncated THEN Verdict("unknown", "partial", {})
  ELSE Verdict("proved", "exhaustive", {})

-----------------------------------------------------------------------------
\* Searches of their own, breadth first and without a token limit.

\* An item's markings, the latest last, and the firings between them.
Latest(item) == item.marks[Len(item.marks)]

\* All items ever queued, with what the firings at the k-th lead to that none of
\* them has.
Extended(items, k) ==
  LET put(all, t) ==
        LET new == Fire(job.net, t, Latest(items[k]))
        IN  IF ~ Enabled(job.net, t, Latest(items[k])) \/ \E j \in DOMAIN all : Latest(all[j]) = new
            THEN all
            ELSE Append(all, [marks |-> Append(items[k].marks, new), trs |-> Append(items[k].trs, t)])
  IN  FoldLeft(put, items, Declared)

\* The first item that will do, if one is popped while fewer markings than the
\* state limit were visited: one was for each item.
FirstItem(Does(_)) ==
  LET go[items \in Seq([marks : Seq(Marking), trs : Seq(Transition)]), k \in Nat] ==
        IF k > Len(items) \/ Len(items) >= job.states THEN {}
        ELSE IF Does(items[k]) THEN {items[k]}
        ELSE go[Extended(items, k), k + 1]
  IN  go[<<[marks |-> <<job.opening>>, trs |-> <<>>]>>, 1]

\* path_to, and nothing where it gives up.
PathTo(m) ==
  LET items == FirstItem(LAMBDA item : Latest(item) = m)
  IN  IF items = {} THEN <<>> ELSE (CHOOSE item \in items : TRUE).trs

Shown(m) == Counterexample(PathTo(m), m)

\* Mutant: that an inhibitor may stop a pump is not seen.
UnsafeCaps == {t \in Transition : \E i \in Outputs(job.net, t) : job.net.cap[job.net.arcs[i].to] > 0}

\* Transitions a pump may not repeat: an inhibitor or a capacity may stop them.
Unsafe ==
  LET arc(i) == job.net.arcs[i]
  IN  {arc(i).to : i \in {j \in DOMAIN job.net.arcs : arc(j).typ = "inhibitor" /\ arc(j).to \in Transition}}
      \cup {t \in Transition : \E i \in Outputs(job.net, t) : job.net.cap[arc(i).to] > 0}

StrictlyCovers(m, o) == (\A p \in Place : m[p] >= o[p]) /\ (\E p \in Place : m[p] > o[p])

\* The pumps an item shows with one more firing, that of the i-th transition: it
\* then covers the item's j-th marking.
Pumps(item) ==
  {x \in (DOMAIN Declared) \X (DOMAIN item.marks) :
     /\ Enabled(job.net, Declared[x[1]], Latest(item))
     /\ StrictlyCovers(Fire(job.net, Declared[x[1]], Latest(item)), item.marks[x[2]])
     /\ Unsafe \cap (Range(SubSeq(item.trs, x[2], Len(item.trs))) \cup {Declared[x[1]]}) = {}}

\* find_unbounded_witness: the nearest, by the first transition, at the earliest
\* marking covered.
PumpFound ==
  LET items == FirstItem(LAMBDA item : Pumps(item) # {})
      first(item) == CHOOSE x \in Pumps(item) : \A y \in Pumps(item) : x[1] < y[1] \/ (x[1] = y[1] /\ x[2] <= y[2])
  IN  {[prefix |-> SubSeq(item.trs, 1, first(item)[2] - 1),
        pump |-> Append(SubSeq(item.trs, first(item)[2], Len(item.trs)), Declared[first(item)[1]]),
        to |-> Fire(job.net, Declared[first(item)[1]], Latest(item))] : item \in items}

-----------------------------------------------------------------------------
\* Linear algebra on the incidence matrix (invariants.rs).

Basis == Farkas(job.net, Place, Declared)

StructurallyBounded == \A p \in Place : \E y \in Basis : y[p] > 0

\* Mutant: that a place is in the support is enough.
DominatedAnyhow(e) ==
  /\ \A p \in DOMAIN e.coeffs : e.coeffs[p] >= 0
  /\ \E y \in Basis : /\ \A p \in DOMAIN e.coeffs : y[p] > 0
                      /\ Value(y, job.opening) <= e.constant

Dominated(e) ==
  /\ \A p \in DOMAIN e.coeffs : e.coeffs[p] >= 0
  /\ \E y \in Basis : /\ \A p \in DOMAIN e.coeffs : y[p] > 0 /\ y[p] >= e.coeffs[p]
                      /\ Value(y, job.opening) <= e.constant

-----------------------------------------------------------------------------
\* detect_cycles: depth first from the opening, the first firings that lead back
\* to a marking on the path.  A frame is a marking and the edges taken from it.
FirstCycle ==
  LET out(k) == SelectSeq(edges, LAMBDA e : e.from = found[k])
      walk[s \in [path : Seq([node : Nat, taken : Nat]), visited : SUBSET Nat]] ==
        LET n == Len(s.path)
            i == s.path[n].taken + 1
            on == [s.path EXCEPT ![n].taken = i]
            w == Id(out(s.path[n].node)[i].to)
        IN  IF s.path = <<>> THEN {}
            ELSE IF i > Len(out(s.path[n].node)) THEN walk[[s EXCEPT !.path = SubSeq(@, 1, n - 1)]]
            ELSE IF \E k \in 1 .. n : s.path[k].node = w
                 THEN {[j \in 1 .. n - k + 1 |-> out(on[k + j - 1].node)[on[k + j - 1].taken].tr] :
                         k \in {l \in 1 .. n : s.path[l].node = w}}
            ELSE IF w \in s.visited THEN walk[[s EXCEPT !.path = on]]
            ELSE walk[[path |-> Append(on, [node |-> w, taken |-> 0]), visited |-> s.visited \cup {w}]]
  IN  walk[[path |-> <<[node |-> 1, taken |-> 0]>>, visited |-> {1}]]

-----------------------------------------------------------------------------
\* The checks, one per kind of claim.

Tokens(m) == MapThenSumSet(LAMBDA p : m[p], Place)
DeadAt(m) == \A t \in Transition : ~ Enabled(job.net, t, m)

\* A marking without tokens is an end and no deadlock, and a net that starts
\* without tokens has none.
Deadlocked(m) == DeadAt(m) /\ Tokens(job.opening) > 0 /\ \E p \in Place : m[p] # 0

Matches(m, target) == \A p \in DOMAIN target : m[p] = target[p]

Satisfies(e, m) ==
  LET x == Value(e.coeffs, m)
  IN  \/ e.rel = "==" /\ x = e.constant
      \/ e.rel = "!=" /\ x # e.constant
      \/ e.rel = "<=" /\ x <= e.constant
      \/ e.rel = ">=" /\ x >= e.constant
      \/ e.rel = "<" /\ x < e.constant
      \/ e.rel = ">" /\ x > e.constant

AtOpening == Counterexample(<<>>, job.opening)

\* The first marking discovered that has P, as a counterexample.
FirstFound(P(_)) ==
  LET all == SelectSeq(found, P)
  IN  IF all = <<>> THEN {} ELSE Shown(Head(all))

CheckDeadlockFree == Exhaustively(FirstFound(Deadlocked))

CheckBounded ==
  IF StructurallyBounded THEN Verdict("proved", "structural", {})
  ELSE IF PumpFound # {} THEN Verdict("refuted", "witness", UNION {Counterexample(w.prefix \o w.pump, w.to) : w \in PumpFound})
  ELSE Exhaustively({})

CheckLive == Exhaustively(IF ~ truncated /\ Unfired # {} THEN AtOpening ELSE {})

CheckL4Live ==
  LET lost == SelectSeq(Declared, LAMBDA t : t \in NotLive)
      m == found[Entry(Witness({c \in Regions : Head(lost) \in Never(c)}))]
  IN  Exhaustively(IF lost = <<>> THEN {} ELSE Counterexample(Trace(m), m))

\* What is shown is the cycle alone, and the opening.
CheckTerminating == Exhaustively(UNION {Counterexample(trs, job.opening) : trs \in FirstCycle})

CheckReachable(target) ==
  LET hit == FirstFound(LAMBDA m : Matches(m, target))
  IN  IF hit # {} THEN Verdict("proved", MethodFor, hit)
      ELSE IF truncated THEN Verdict("unknown", "partial", {})
      ELSE Verdict("refuted", "exhaustive", AtOpening)

CheckUnreachable(target) == Exhaustively(FirstFound(LAMBDA m : Matches(m, target)))

\* Mutant: the deepest marking that breaks e.
DeepestBreach(e) ==
  LET bad == {m \in Known : ~ Satisfies(e, m)}
  IN  IF bad = {} THEN {} ELSE Shown(CHOOSE m \in bad : \A o \in bad : depth[m] >= depth[o])

\* The nearest marking that breaks e; of several as near, one.
NearestBreach(e) ==
  LET bad == {m \in Known : ~ Satisfies(e, m)}
  IN  IF bad = {} THEN {} ELSE Shown(CHOOSE m \in bad : \A o \in bad : depth[m] <= depth[o])

CheckInvariant(e) ==
  IF e.rel = "==" /\ IsInvariantVector(job.net, [p \in Place |-> IF p \in DOMAIN e.coeffs THEN e.coeffs[p] ELSE 0])
  THEN IF Satisfies(e, job.opening) THEN Verdict("proved", "structural", {})
       ELSE Verdict("refuted", "structural", AtOpening)
  ELSE IF e.rel = "<=" /\ Dominated(e) THEN Verdict("proved", "structural", {})
  ELSE Exhaustively(NearestBreach(e))

\* Mutual exclusion and conservation are sugar; a bound of 0 reads as 1.
Expression(c) ==
  CASE c.kind = "invariant" -> c.expr
    [] c.kind = "mutex" -> [coeffs |-> [p \in Range(c.places) |-> Cardinality({i \in DOMAIN c.places : c.places[i] = p})],
                            rel |-> "<=", constant |-> IF c.bound = 0 THEN 1 ELSE c.bound]
    [] c.kind = "conserves" -> [coeffs |-> [p \in Place |-> 1], rel |-> "==", constant |-> Tokens(job.opening)]

IsLinear(c) == c.kind \in Linear
IsTarget(c) == c.kind \in {"reachable", "unreachable"}

\* A claim that names no place, or one the net does not have.
Named(c) == IF IsTarget(c) THEN DOMAIN c.target ELSE DOMAIN Expression(c).coeffs
Malformed(c) ==
  /\ IsTarget(c) \/ c.kind \in {"invariant", "mutex"}
  /\ Named(c) = {} \/ ~ Named(c) \subseteq Place

CheckOne(c) ==
  CASE Malformed(c) -> Verdict("unknown", "none", {})
    [] ~ Malformed(c) /\ IsLinear(c) -> CheckInvariant(Expression(c))
    [] c.kind = "deadlock_free" -> CheckDeadlockFree
    [] c.kind = "bounded" -> CheckBounded
    [] c.kind = "live" -> CheckLive
    [] c.kind = "l4_live" -> CheckL4Live
    [] c.kind = "terminating" -> CheckTerminating
    [] ~ Malformed(c) /\ c.kind = "reachable" -> CheckReachable(c.target)
    [] ~ Malformed(c) /\ c.kind = "unreachable" -> CheckUnreachable(c.target)

-----------------------------------------------------------------------------
Init == Start /\ verdicts = <<>>

Ready ==
  /\ stage = "group" /\ Grouped
  /\ stage' = "check"
  /\ UNCHANGED <<graph, tarjan, verdicts>>

Check ==
  /\ stage = "check" /\ Len(verdicts) < Len(Claims)
  /\ verdicts' = Append(verdicts, CheckOne(Claims[Len(verdicts) + 1]))
  /\ UNCHANGED analysis

Next == (Analysing /\ UNCHANGED verdicts) \/ Ready \/ Check

Spec == Init /\ [][Next]_vars

-----------------------------------------------------------------------------
\* What the claims mean, of the whole state space.

\* A count at its bound is not exact any more: linear claims are not about it.
ExactMarkings == {m \in Reachable(Truth) : \A p \in Place : m[p] < MaxInt}

Breaches(e) == {m \in ExactMarkings : ~ Satisfies(e, m)}

\* A place holds fewer than none: parallel arcs were each enabled, and took more
\* together than there was.
Overdrawn == \E m \in Reachable(Truth) : \E p \in Place : m[p] < 0

Holds(c) ==
  CASE IsLinear(c) -> Breaches(Expression(c)) = {}
    [] c.kind = "deadlock_free" -> \A m \in Reachable(Truth) : ~ Deadlocked(m)
    [] c.kind = "bounded" -> \A m \in Reachable(Truth) : \A p \in Place : m[p] < MaxInt
    [] c.kind = "live" -> \A t \in Transition : CanFire(Truth, t)
    [] c.kind = "l4_live" -> \A t \in Transition : \A m \in Reachable(Truth) : CanFireAfter(Truth, t, m)
    [] c.kind = "terminating" -> \A x \in Truth.moves : x.from \notin Truth.future[x.to]
    [] c.kind = "reachable" -> \E m \in Reachable(Truth) : Matches(m, c.target)
    [] c.kind = "unreachable" -> \A m \in Reachable(Truth) : ~ Matches(m, c.target)

\* The latest claim and its verdict.
Answered == verdicts # <<>>
Claim == Claims[Len(verdicts)]
Answer == verdicts[Len(verdicts)]

\* "Proved: the property holds and the check was complete.  Refuted: the property
\* does not hold.  Unknown: the check could not be completed" (enum Status): a
\* verdict is the truth of the whole state space, whichever of the strategies
\* gave it and wherever the search stopped, and a complete search decides every
\* well-formed claim.  Excepted are structural bounds on a net that overdraws.
StatusTrue ==
  Answered =>
    /\ Answer.status = "proved" /\ ~ (Answer.method = "structural" /\ IsLinear(Claim) /\ Overdrawn) => Holds(Claim)
    /\ Answer.status = "refuted" => ~ Holds(Claim)
    /\ Malformed(Claim) => Answer.status = "unknown"
    /\ Answer.status = "unknown" => Malformed(Claim) \/ truncated

\* The firings of trs from m, one by one.
Follow(trs, m) == FoldLeft(LAMBDA mk, t : Fire(job.net, t, mk), m, trs)
Fireable(trs, m) == \A k \in DOMAIN trs : Enabled(job.net, trs[k], Follow(SubSeq(trs, 1, k - 1), m))

\* The end of a trace shows by itself what is wrong.
Incriminates(x) ==
  LET m == x.marking
  IN  CASE IsLinear(Claim) -> m \in Breaches(Expression(Claim))
                              /\ \A o \in Breaches(Expression(Claim)) : Truth.dist[m] <= Truth.dist[o]
        [] Claim.kind = "deadlock_free" -> Deadlocked(m)
        [] IsTarget(Claim) -> Matches(m, Claim.target)
        [] Claim.kind = "l4_live" -> \E t \in Transition : ~ CanFireAfter(Truth, t, m)
        [] Claim.kind = "bounded" ->
             \E k \in DOMAIN x.trace :
               LET pump == SubSeq(x.trace, k, Len(x.trace))
               IN  StrictlyCovers(m, Follow(SubSeq(x.trace, 1, k - 1), job.opening)) /\ Fireable(pump, m)

\* "A replayable witness that a property fails" (struct Counterexample): the
\* trace fires from the opening and ends, by a shortest way but for pumps, at a
\* marking that shows the failure, for a linear claim the nearest there is; a
\* pump can be fired once more from where it ends.  Of a cycle, the firings lead
\* from a reachable marking back to it.  Where path_to gave up there is no trace.
EvidenceReplays ==
  Answered /\ (Answer.status = "refuted" \/ Claim.kind = "reachable") => \A x \in Answer.shown :
    CASE Claim.kind = "live" \/ (Claim.kind = "reachable" /\ Answer.status = "refuted") -> x = [trace |-> <<>>, marking |-> job.opening]
      [] Claim.kind = "terminating" ->
           x.trace # <<>> /\ \E m \in Reachable(Truth) : Fireable(x.trace, m) /\ Follow(x.trace, m) = m
      [] OTHER ->
           /\ Incriminates(x)
           /\ \/ /\ Replays(x.trace, x.marking)
                 /\ Claim.kind # "bounded" => Len(x.trace) = Truth.dist[x.marking]
              \/ truncated /\ x.trace = <<>>

\* "The minimal-support semi-positive basis" (invariants.rs): the basis holds, in
\* lowest terms, each weighting of places that no firing changes and that has no
\* part with that property, and nothing else.
BasisMinimal ==
  stage = "check" /\ verdicts = <<>> =>
    LET laws == {y \in [Place -> 0 .. MaxInt] : Support(y) # {} /\ IsInvariantVector(job.net, y)}
        least(y) == \A z \in laws : Support(z) \subseteq Support(y) => Support(z) = Support(y)
    IN  Basis = {y \in laws : least(y) /\ GreatestDivisor(Range(y)) = 1}

\* No firing of the graph saturates a count.
Unsaturated == \A k \in DOMAIN edges : Exact(job.net, edges[k].tr, edges[k].from)

\* What the elimination calls a law, of the arcs alone, every marking the search
\* finds keeps, although neither knows of the other ("sum(coefficients[p] *
\* marking[p]) == value at every reachable marking", struct Invariant).
BasisKept ==
  stage = "check" /\ verdicts = <<>> /\ Unsaturated =>
    \A y \in Basis, m \in Known : Value(y, m) = Value(y, job.opening)

\* The laws are kept, and what is concluded by algebra alone is so of every
\* marking the search finds, truncated or not: a linear claim holds of all of
\* them or, refuted, of none, and in a net called bounded a law holds each count
\* down.  A bound, unlike an equation, takes every count for at least none.
StructuralTrue ==
  /\ BasisKept
  /\ Answered /\ Answer.method = "structural" /\ Unsaturated =>
       LET counted == \A m \in Known, p \in Place : m[p] >= 0
       IN  /\ IsLinear(Claim) /\ (Expression(Claim).rel = "==" \/ counted) =>
                \A m \in Known : Satisfies(Expression(Claim), m) = (Answer.status = "proved")
           /\ Claim.kind = "bounded" /\ counted =>
                \A p \in Place : \E y \in Basis : y[p] > 0 /\ \A m \in Known : y[p] * m[p] <= Value(y, job.opening)

\* "The property holds" (Status::Proved).  A structural bound takes every count
\* for at least none, and an overdrawn place holds less.
ProvedHolds == Answered /\ Answer.status = "proved" => Holds(Claim)

\* "Empty means the initial marking itself is the witness" (Counterexample).
\* path_to gives up as soon as it visited as many markings as the state limit.
EmptyMeansOpening ==
  Answered /\ Answer.status = "refuted" =>
    \A x \in Answer.shown : x.trace = <<>> => x.marking = job.opening

=============================================================================
