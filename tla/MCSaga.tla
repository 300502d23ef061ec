------------------------------- MODULE MCSaga -------------------------------
(***************************************************************************)
(* Two sagas, A and B, on a pool both draw on.  A holds what it draws in   *)
(* an escrow of its own and pays it out in a second step, one of whose     *)
(* plans passes the amount through an account that holds nothing, or takes *)
(* from the account B has paid into and pays there afterwards.  B draws in *)
(* one step.  In some plans the account A pays into is spent from.         *)
(***************************************************************************)
EXTENDS Saga, TLC

CONSTANTS A, B, pool, escrow, till, sink

M(from, to, n) == [from |-> from, to |-> to, amount |-> n]

Pays ==
  { << <<M(escrow, sink, 2)>> >>,
    << <<M(escrow, till, 2), M(till, sink, 2)>> >>,
    << <<M(till, sink, 1)>>, <<M(escrow, till, 2)>> >>,
    << <<>> >> }

SmallPlans ==
  { [moves |-> (A :> << <<M(pool, escrow, 2)>> >> \o pay \o << <<>> >>) @@ (B :> << <<M(pool, till, b)>>, last >>),
     opening |-> [a \in Account |-> IF a = pool THEN n ELSE 0],
     spendable |-> sp] :
      pay \in Pays, b \in {1, 2}, n \in {1, 3, 4},
      last \in {<<>>, <<M(till, pool, 1)>>}, sp \in {{}, {sink}, {till}} }

=============================================================================
