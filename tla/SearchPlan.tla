----------------------------- MODULE SearchPlan -----------------------------
(***************************************************************************)
(* A search plan (pflow-metamodel plan.rs): the pieces of a game search,   *)
(* by name, which of them are legal together, and the settings of the      *)
(* solver they build.  A list that a plan may leave out is a set of at     *)
(* most one sequence.  A driver is its name, or a budget of nodes and of   *)
(* time, each 0 where it is not given.                                     *)
(***************************************************************************)
EXTENDS Integers, Sequences, SequencesExt

CONSTANTS Unlimited    \* the budget of a plan that names none, usize::MAX

OrderPieces == {"tt_best", "immediate_win", "history", "centrality", "threats"}
Decisive == {"tt_best", "immediate_win"}
NeedsGoals == {"centrality", "threats"}
SoundFilters == {"must_win", "non_losing"}
Unsound == {"beam", "static_eval"}
NamedDrivers == {"null_window", "mtd_f", "aspiration"}
MaxPieces == 8

Given1(list, default) == IF list = {} THEN default ELSE CHOOSE x \in list : TRUE

OrderOf(p) == Given1(p.order, <<"tt_best", "immediate_win", "history">>)
FiltersOf(p) == Given1(p.filters, <<"must_win">>)
DriversOf(p) == Given1(p.drivers, <<[name |-> "null_window"]>>)
RootOf(p) == Given1(p.root, <<>>)

Names(p) == {d.name : d \in Range(DriversOf(p))}
Budgets(p) == {d \in Range(DriversOf(p)) : d.name = "budget"}

NoneTwice(s) == Cardinality(Range(s)) = Len(s)

\* The names of the drivers, each at most once, a budget with something in it.
DriversLegal(p) ==
  /\ Names(p) \subseteq NamedDrivers \cup {"budget"}
  /\ NoneTwice([i \in DOMAIN DriversOf(p) |-> DriversOf(p)[i].name])
  /\ \A d \in Budgets(p) : d.nodes > 0 \/ d.ms > 0
  /\ ~ {"null_window", "mtd_f"} \subseteq Names(p)

\* SearchPlan::check: every name in its place, and nothing that can change a
\* value, in exact mode because it may not, in play mode because it is not built.
Legal(p) ==
  /\ Range(OrderOf(p)) \subseteq OrderPieces /\ NoneTwice(OrderOf(p)) /\ Len(OrderOf(p)) <= MaxPieces
  /\ DriversLegal(p)
  /\ Range(RootOf(p)) \subseteq {"ode", "non_losing"} /\ NoneTwice(RootOf(p))
  /\ "aspiration" \in Names(p) => "ode" \in Range(RootOf(p))
  /\ Range(FiltersOf(p)) \subseteq SoundFilters /\ NoneTwice(FiltersOf(p))
  /\ p.heuristics = {}
  /\ p.entries # {0}

\* The settings of the solver a legal plan builds.
Settings(p) ==
  [play |-> p.mode = "play",
   order |-> OrderOf(p),
   must_win |-> "must_win" \in Range(FiltersOf(p)),
   non_losing |-> "non_losing" \in Range(FiltersOf(p)),
   root_non_losing |-> "non_losing" \in Range(RootOf(p)),
   estimate |-> "ode" \in Range(RootOf(p)),
   null_window |-> "null_window" \in Names(p),
   mtd_f |-> "mtd_f" \in Names(p),
   aspiration |-> "aspiration" \in Names(p),
   budget |-> IF \E d \in Budgets(p) : d.nodes > 0 THEN (CHOOSE d \in Budgets(p) : TRUE).nodes ELSE Unlimited,
   timed |-> \E d \in Budgets(p) : d.ms > 0]

=============================================================================
