----------------------------- MODULE MCTracked -----------------------------
(***************************************************************************)
(* Tracked on two places and two transitions.  "mover" moves tokens, by    *)
(* arcs that meet on one place (parallel arcs, a self-loop), that touch    *)
(* data or that are of a kind an output ignores; "gate" has one condition  *)
(* of each kind, on a place the mover may or may not touch.                *)
(***************************************************************************)
EXTENDS Tracked

CONSTANTS p, q, data, mover, gate

A(from, to, w) == [from |-> from, to |-> to, weight |-> w, typ |-> "normal"]
G(from, to, w, typ) == [from |-> from, to |-> to, weight |-> w, typ |-> typ]

Moves ==
  { <<A(p, mover, 0), A(mover, q, 1)>>,                     \* one token across
    <<A(p, mover, 1), A(p, mover, 1), A(mover, q, 1)>>,     \* two arcs, one place
    <<A(p, mover, 2), A(mover, p, 2)>>,                     \* a self-loop
    <<A(mover, q, 2), A(data, mover, 2), G(mover, p, 1, "read")>>,  \* a source
    <<A(p, mover, 1), A(mover, q, -1)>> }                   \* never enabled

Gates ==
  { <<G(q, gate, 2, "read"), A(gate, p, 1)>>,
    <<G(q, gate, 2, "inhibitor"), A(gate, q, 1)>>,
    <<G(p, gate, 1, "inhibitor"), G(q, gate, 1, "read"), A(q, gate, 2)>>,
    <<A(gate, p, 1), A(q, gate, 1)>> }

Caps == {[x \in {p, q} |-> 0], [x \in {p, q} |-> 2]}

SmallNets == {[arcs |-> a \o b, cap |-> c] : a \in Moves, b \in Gates, c \in Caps}

=============================================================================
