------------------------------- MODULE Stages -------------------------------
(***************************************************************************)
(* Model::expand_stages (pflow-metamodel stages.rs) and the runs of what   *)
(* it makes (pflow-solver simulate.rs): a transition that declares k       *)
(* stages becomes a chain of k, a job in the middle of it waits in a stage *)
(* place, and the engine reports in the original places and transitions.   *)
(* Rates, descriptions and the guards of transitions without stages are    *)
(* left out; the race of the engine is a choice among what is enabled.     *)
(***************************************************************************)
EXTENDS FiringRule, SequencesExt

CONSTANTS
  Models,    \* the nets: [net, stages, guarded, opening]; net has kinetic arcs
  Declared   \* all transitions of the nets, in the order of their names

VARIABLES
  model,     \* the net as declared, fixed at the start
  accepted,  \* expand_stages did not refuse it
  out,       \* the expanded net
  carrier,   \* for each stage place, the place its jobs still count in
  mk,        \* the marking of the expanded net
  told,      \* the marking as reported
  last       \* the transition last reported to fire

vars == <<model, accepted, out, carrier, mk, told, last>>

-----------------------------------------------------------------------------
StagePlace(t, s) == t \o <<"stage", s>>
StageTr(t, s) == t \o <<"@", s>>

Into(n, t) == {i \in DOMAIN n.arcs : n.arcs[i].to = t}
From(n, p) == {i \in DOMAIN n.arcs : n.arcs[i].from = p}

\* Arcs that consume from p, and all arcs from p, in the net as declared.
Consumers(p) == {i \in From(model.net, p) : ~ ReadOnly(model.net.arcs[i])}
Touches(p) == From(model.net, p)

\* Mutant: whoever tests the carrier is not looked for.
CarrierConsumed(n, p) == p \in DOMAIN n.cap /\ n.cap[p] <= 0 /\ Cardinality(Consumers(p)) = 1

\* Nobody but the staged transition may take from the place its jobs wait in,
\* test it, or bound it.
CarrierOwn(n, p) ==
  /\ p \in DOMAIN n.cap /\ n.cap[p] <= 0
  /\ Cardinality(Consumers(p)) = 1
  /\ Cardinality(Touches(p)) = Cardinality(Consumers(p))

\* What expand_stages asks of a staged transition.
Expandable(n, t) ==
  /\ t \notin model.guarded
  /\ Cardinality(Into(n, t)) = 1
  /\ \A i \in Into(n, t) :
       /\ ~ ReadOnly(n.arcs[i])
       /\ n.arcs[i].weight <= 1 /\ n.arcs[i].kinetic
       /\ CarrierOwn(n, n.arcs[i].from)

-----------------------------------------------------------------------------
Link(x, y) == [from |-> x, to |-> y, weight |-> 0, typ |-> "normal", kinetic |-> TRUE]

\* The input leads to the first stage, the outputs come from the last.
Moved(a, t, k) ==
  [a EXCEPT !.to = IF @ = t THEN StageTr(t, 1) ELSE @, !.from = IF @ = t THEN StageTr(t, k) ELSE @]

\* One staged transition made a chain; where its jobs count meanwhile.
Chained(e, t, k) ==
  LET p == e.net.arcs[CHOOSE i \in Into(e.net, t) : TRUE].from
      between == FlattenSeq([s \in 1 .. k - 1 |-> <<Link(StageTr(t, s), StagePlace(t, s)), Link(StagePlace(t, s), StageTr(t, s + 1))>>])
  IN  [net |-> [e.net EXCEPT !.transitions = (@ \ {t}) \cup {StageTr(t, s) : s \in 1 .. k},
                             !.arcs = [i \in DOMAIN @ |-> Moved(@[i], t, k)] \o between],
       carrier |-> [q \in {StagePlace(t, s) : s \in 1 .. k - 1} |-> p] @@ e.carrier]

\* The staged transitions in turn; nothing once one of them is refused.
Expand(es, t) ==
  {Chained(e, t, model.stages[t]) : e \in {x \in es : Expandable(x.net, t)}}

Expanded ==
  IF \E t \in model.net.transitions : model.stages[t] < 0 THEN {}
  ELSE FoldLeft(Expand, {[net |-> model.net, carrier |-> <<>>]},
                SelectSeq(Declared, LAMBDA t : t \in model.net.transitions /\ model.stages[t] > 1))

-----------------------------------------------------------------------------
\* The reporting vocabulary: a stage place folds to its carrier, the last stage
\* to the transition, the other stages to nothing.
Report(m, folds) ==
  [p \in Place |-> IF p \in DOMAIN folds THEN 0
                   ELSE m[p] + MapThenSumSet(LAMBDA q : m[q], {q \in DOMAIN folds : folds[q] = p})]

Reported(t) ==
  IF t \in model.net.transitions THEN {t}
  ELSE {o \in model.net.transitions : t = StageTr(o, model.stages[o])}

Init ==
  /\ model \in Models
  /\ accepted = (Expanded # {})
  /\ out = IF Expanded = {} THEN model.net ELSE (CHOOSE e \in Expanded : TRUE).net
  /\ carrier = IF Expanded = {} THEN <<>> ELSE (CHOOSE e \in Expanded : TRUE).carrier
  /\ mk = model.opening
  /\ told = model.opening
  /\ last = {}

FireStage(t) ==
  /\ accepted /\ t \in out.transitions
  /\ Enabled(out, t, mk)
  /\ mk' = Fire(out, t, mk)
  /\ told' = Report(mk', carrier)
  /\ last' = IF Reported(t) = {} THEN last ELSE Reported(t)
  /\ UNCHANGED <<model, accepted, out, carrier>>

Next == \E t \in Transition : FireStage(t)

\* A transition that stays enabled wins the race at last.
Spec == Init /\ [][Next]_vars /\ \A t \in Transition : WF_vars(FireStage(t))

-----------------------------------------------------------------------------
\* The expanded net, as it is reported, does what the declared net does, and
\* all of it: a job in the middle of its stages is still seen where it was, is
\* neither taken, doubled nor lost, and where the declared net goes on the
\* expanded one does not get stuck halfway ("so an engine can run the expanded
\* net and report in the original vocabulary", stages.rs 9-10).
Original == INSTANCE Served

ReportedSpec == Original!Spec

=============================================================================
