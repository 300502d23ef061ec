------------------------------ MODULE MCVerify ------------------------------
(***************************************************************************)
(* Verify on nets of three places and three transitions, in combinations   *)
(* of arcs that conserve, share a lock, double, pump, dead-end or take     *)
(* more than there is.  Counts reach their bound only where they grow      *)
(* without limit.                                                          *)
(***************************************************************************)
EXTENDS Verify, TLC

CONSTANTS p, q, r, a, b, c, nowhere

Take(pl, t) == [from |-> pl, to |-> t, weight |-> 1, typ |-> "normal"]
TakeTwo(pl, t) == [from |-> pl, to |-> t, weight |-> 2, typ |-> "normal"]
Give(t, pl) == [from |-> t, to |-> pl, weight |-> 1, typ |-> "normal"]
Two(t, pl) == [from |-> t, to |-> pl, weight |-> 2, typ |-> "normal"]
Test(pl, t, typ) == [from |-> pl, to |-> t, weight |-> 1, typ |-> typ]

Enter == {<<Take(p, a), Take(r, a), Give(a, q)>>, <<Take(p, a), Two(a, q)>>, <<Take(p, a), Give(a, p), Give(a, q)>>,
          <<Take(p, a), Give(a, p), Give(a, q), Test(q, a, "inhibitor")>>,
          <<Take(p, a), Take(p, a), Two(a, q)>>}
Go == {<<Take(q, b), Give(b, p)>>, <<Take(q, b), Give(b, p), Give(b, r)>>, <<TakeTwo(q, b), Give(b, r)>>}
Other == {<<Take(r, c), Give(c, p)>>, <<Take(r, c), Give(c, r), Test(q, c, "read")>>}

MCNets == {[arcs |-> x \o y \o z, cap |-> (p :> 0) @@ (q :> k) @@ (r :> 0)] :
             x \in Enter, y \in Go, z \in Other, k \in {0, 2}}

MCJobs == {[net |-> n, opening |-> (p :> x[1]) @@ (q :> 0) @@ (r :> x[2]), states |-> s, tokens |-> 3] :
             n \in MCNets, x \in {<<0, 0>>, <<1, 0>>, <<1, 1>>, <<0, 2>>}, s \in {3, 6, 60}}

Relation(y, rel, k) == [kind |-> "invariant", expr |-> [coeffs |-> y, rel |-> rel, constant |-> k]]

MCClaims == <<
  [kind |-> "deadlock_free"], [kind |-> "bounded"], [kind |-> "live"], [kind |-> "l4_live"], [kind |-> "terminating"],
  [kind |-> "reachable", target |-> (q :> 2)], [kind |-> "unreachable", target |-> (p :> 0) @@ (r :> 1)],
  [kind |-> "reachable", target |-> (nowhere :> 1)],
  Relation((p :> 1) @@ (q :> 1), "==", 1), Relation((p :> 2) @@ (q :> 1), "<=", 2), Relation((q :> 1) @@ (r :> -1), "!=", 1),
  Relation((p :> 1) @@ (r :> 1), ">", 0), Relation((r :> 1) @@ (q :> -1), "<", 2),
  Relation((q :> 2) @@ (p :> -1), ">=", -1),
  [kind |-> "mutex", places |-> <<q, r>>, bound |-> 0], [kind |-> "mutex", places |-> <<q, q>>, bound |-> 2],
  [kind |-> "conserves"] >>

MCDeclared == <<b, a, c>>

=============================================================================
