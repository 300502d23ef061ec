----------------------------- MODULE Invariants -----------------------------
(***************************************************************************)
(* Conservation laws of a net (pflow-reachability invariants.rs): a        *)
(* weighting y of places is conserved when no firing changes what it makes *)
(* of the counts, and farkas finds the least ones by elimination.          *)
(***************************************************************************)
EXTENDS FiringRule, SequencesExt

\* incidence_matrix: what t adds to p, net.
Flow(n, t, p) == Given(n, t, p) - Taken(n, t, p)

\* What coefficients make of counts.
Value(y, counts) == MapThenSumSet(LAMBDA p : y[p] * counts[p], DOMAIN y)

\* What a firing of t adds to it.
MovedBy(n, y, t) == Value(y, [p \in DOMAIN y |-> Flow(n, t, p)])

\* No firing changes what y makes of the counts: y is a P-invariant.
IsInvariantVector(n, y) == \A t \in Transition : MovedBy(n, y, t) = 0

-----------------------------------------------------------------------------
\* Rows of the elimination: a combination of places, and what each transition
\* does to it.
Row(n, y, trs) == [of |-> y, flow |-> [t \in trs |-> MovedBy(n, y, t)]]

Magnitude(x) == IF x < 0 THEN -x ELSE x
GreatestDivisor(S) == Max({d \in 1 .. Max(S) : \A x \in S : x % d = 0})

\* Mutant: each row is scaled by its own entry.
CombineCrossed(u, v, t) ==
  LET mix(x, y) == u.flow[t] * x + Magnitude(v.flow[t]) * y
      sums == [of |-> [p \in DOMAIN u.of |-> mix(u.of[p], v.of[p])], flow |-> [s \in DOMAIN u.flow |-> mix(u.flow[s], v.flow[s])]]
      g == GreatestDivisor({Magnitude(x) : x \in Range(sums.of) \cup Range(sums.flow)})
  IN  [of |-> [p \in DOMAIN u.of |-> sums.of[p] \div g], flow |-> [s \in DOMAIN u.flow |-> sums.flow[s] \div g]]

\* u raises what t does and v lowers it: their combination leaves it alone, in
\* lowest terms.
Combine(u, v, t) ==
  LET mix(x, y) == Magnitude(v.flow[t]) * x + u.flow[t] * y
      sums == [of |-> [p \in DOMAIN u.of |-> mix(u.of[p], v.of[p])], flow |-> [s \in DOMAIN u.flow |-> mix(u.flow[s], v.flow[s])]]
      g == GreatestDivisor({Magnitude(x) : x \in Range(sums.of) \cup Range(sums.flow)})
  IN  [of |-> [p \in DOMAIN u.of |-> sums.of[p] \div g], flow |-> [s \in DOMAIN u.flow |-> sums.flow[s] \div g]]

Support(y) == {p \in DOMAIN y : y[p] # 0}

MinimalRows(rows) == {r \in rows : \A s \in rows : ~ (Support(s.of) \subseteq Support(r.of) /\ Support(s.of) # Support(r.of))}

\* farkas: the minimal semi-positive invariants over these places, a transition
\* at a time.  The limit on rows is left out.
Farkas(n, places, order) ==
  LET eliminate(rows, t) ==
        MinimalRows({r \in rows : r.flow[t] = 0}
                    \cup {Combine(u, v, t) : u \in {r \in rows : r.flow[t] > 0}, v \in {r \in rows : r.flow[t] < 0}})
      unit(x) == [p \in places |-> IF p = x THEN 1 ELSE 0]
  IN  {r.of : r \in FoldLeft(eliminate, {Row(n, unit(x), Range(order)) : x \in places}, order)}

=============================================================================
