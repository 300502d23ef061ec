------------------------------ MODULE BitRule ------------------------------
(***************************************************************************)
(* The firing rule over markings whose every count is 0 or 1               *)
(* (pflow-metamodel bits.rs): a marking is the set of its marked places,   *)
(* and each transition is resolved to the places it needs marked, those it *)
(* needs clear, and those a firing flips.  A firing whose result would     *)
(* leave 0/1 is refused.  The packing of sets into words is left out.      *)
(***************************************************************************)
EXTENDS FiringRule

\* The counts, of 0 and 1, at which each condition of t on p holds.
Verdicts(n, t, p) ==
  {{k \in {0, 1} : Passes(n.arcs[i], k)} : i \in {j \in Inputs(n, t) \cup Tests(n, t) : n.arcs[j].from = p}}
  \cup (IF p \in Raised(n, t) THEN {{k \in {0, 1} : Clamp(k + NetEffect(n, t, p)) <= n.cap[p]}} ELSE {})

\* The places t needs marked, and those it needs clear.
One(n, t) == {p \in Place : {1} \in Verdicts(n, t, p)}
Zero(n, t) == {p \in Place : {0} \in Verdicts(n, t, p)}

\* No 0/1 marking enables t.
Never(n, t) ==
  \/ Invalid(n, t)
  \/ \E p \in Place : {} \in Verdicts(n, t, p)
  \/ One(n, t) \cap Zero(n, t) # {}

\* The places a firing flips, those of them it clears, and whether it changes
\* a place by more than one.
Change(n, t, p) == Given(n, t, p) - Taken(n, t, p)

Resolved(n, t) ==
  [never |-> Never(n, t), one |-> One(n, t), zero |-> Zero(n, t), care |-> One(n, t) \cup Zero(n, t),
   flip |-> {p \in Place : Change(n, t, p) \in {-1, 1}},
   clears |-> {p \in Place : Change(n, t, p) = -1},
   spoils |-> \E p \in Place : Change(n, t, p) \notin {-1, 0, 1}]

BitEnabled(b, m) == ~ b.never /\ m \cap b.care = b.one

Lacks(b, m) == ((m \cap b.care) \ b.one) \cup (b.one \ m)

Refused(b, m) == b.spoils \/ m \cap b.flip # b.clears

BitFire(b, m) == (m \ b.flip) \cup (b.flip \ m)

\* The transitions u that a firing of b can enable: it fixes a condition of
\* theirs and breaks none.
Wakes(all, b) ==
  LET on == b.flip \ b.clears
      off == b.clears
  IN  {u \in DOMAIN all :
         /\ ~ all[u].never
         /\ on \cap all[u].one # {} \/ off \cap all[u].zero # {}
         /\ off \cap all[u].one = {} /\ on \cap all[u].zero = {}}

\* The transitions that look at a place b flips.
Carers(all, b) == {u \in DOMAIN all : all[u].care \cap b.flip # {}}

\* bits(): every transition resolved.
Bits(n) == [t \in Transition |-> Resolved(n, t)]

\* Mutant: what a firing disables is left in the set.
RetrackAdding(all, t, m, en) == en \cup {u \in Wakes(all, all[t]) : BitEnabled(all[u], m)}

\* fire_tracked: the enabled set after t fired and led to m.
Retrack(all, t, m, en) == (en \ Carers(all, all[t])) \cup {u \in Wakes(all, all[t]) : BitEnabled(all[u], m)}

=============================================================================
