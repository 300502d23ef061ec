------------------------------ MODULE MCDelayed ------------------------------
(***************************************************************************)
(* DelayedFiring on three transitions.  "brew" and "rinse" compete for     *)
(* cups, brew first, and may land together; "sell" races, and brings the   *)
(* cups back.  The shelf may have a capacity, and rinse may be gated by    *)
(* it, by a read or by an inhibitor, or have no delay and race for as long *)
(* as there are steps.  Boundaries fall before, on and after landings.     *)
(***************************************************************************)
EXTENDS DelayedFiring, TLC

CONSTANTS cup, shelf, brew, rinse, sell

A(from, to, w) == [from |-> from, to |-> to, weight |-> w, typ |-> "normal"]
G(from, to, w, typ) == [from |-> from, to |-> to, weight |-> w, typ |-> typ]

Base ==
  <<A(cup, brew, 1), A(brew, shelf, 1), A(cup, rinse, 1), A(shelf, sell, 1), A(sell, cup, 1)>>

Variants ==
  { <<A(rinse, cup, 1)>>,                                     \* a loop of delay one
    <<A(rinse, cup, 2), G(shelf, rinse, 1, "read")>>,
    <<A(rinse, shelf, 1), G(shelf, rinse, 1, "inhibitor")>>,
    <<A(shelf, rinse, 1), A(rinse, shelf, 2)>> }              \* raises the shelf by one, net

MCNets ==
  { [arcs |-> Base \o v, cap |-> (cup :> 0) @@ (shelf :> c)] : v \in Variants, c \in {0, 2} }

MCRuns ==
  { [net |-> n, delay |-> (brew :> 3) @@ (rinse :> d) @@ (sell :> 0),
     opening |-> (cup :> c) @@ (shelf :> s), ends |-> e, live |-> l] :
      n \in MCNets, d \in {0, 1, 3}, c \in {2, 3}, s \in {0, 1},
      e \in {<<2, 5>>, <<3, 6>>}, l \in {<<{sell, rinse}, {}>>, <<{rinse}, {sell}>>} }

MCDeclared == <<brew, rinse, sell>>

=============================================================================
