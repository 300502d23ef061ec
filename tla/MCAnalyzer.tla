----------------------------- MODULE MCAnalyzer -----------------------------
(***************************************************************************)
(* Analyzer on nets of two places and three transitions, made of the arcs  *)
(* below in every combination, with limits from too small to ample.  They  *)
(* move, make, use up and test tokens, so that state spaces are rings,     *)
(* chains, closed regions off to a side, dead ends and unbounded; a count  *)
(* saturates beyond every token limit.                                     *)
(***************************************************************************)
EXTENDS Analyzer, TLC

CONSTANTS p, q, a, b, c

Take(pl, t) == [from |-> pl, to |-> t, weight |-> 1, typ |-> "normal"]
Give(t, pl) == [from |-> t, to |-> pl, weight |-> 1, typ |-> "normal"]
Two(t, pl) == [from |-> t, to |-> pl, weight |-> 2, typ |-> "normal"]
Test(pl, t, typ) == [from |-> pl, to |-> t, weight |-> 1, typ |-> typ]

Forward == {<<Give(a, p)>>, <<Take(p, a), Give(a, q)>>, <<Take(p, a), Two(a, p), Test(q, a, "inhibitor")>>}
Back == {<<Give(b, q)>>, <<Take(q, b), Give(b, p)>>, <<Take(q, b), Give(b, q)>>, <<Take(p, b), Take(q, b), Give(b, q)>>,
         <<Give(b, q), Test(p, b, "read")>>}
Third == {<<Take(p, c), Take(q, c)>>, <<Take(p, c), Take(q, c), Give(c, q), Give(c, p)>>, <<Take(p, c), Take(p, c), Give(c, q)>>,
          <<Take(q, c), Test(p, c, "inhibitor")>>, <<Take(p, c), Give(c, q)>>}

MCNets == {[arcs |-> x \o y \o z, cap |-> (p :> k) @@ (q :> l)] :
             x \in Forward, y \in Back, z \in Third, k \in {2}, l \in {0, 1}}

MCJobs == {[net |-> n, opening |-> (p :> k) @@ (q :> l), states |-> s, tokens |-> m] :
             n \in MCNets, k \in 0 .. 2, l \in 0 .. 1, s \in {2, 4, 30}, m \in {3}}

MCDeclared == <<b, a, c>>

=============================================================================
