------------------------------ MODULE MCStages ------------------------------
(***************************************************************************)
(* Stages on a wash: jobs queue for a bay, start, are washed and finish;   *)
(* "again" brings one back.  The finish declares up to three stages, the   *)
(* return up to two; done may be bounded, so that a job waits at its last  *)
(* stage, or gate the start.  Every way to be refused occurs.              *)
(***************************************************************************)
EXTENDS Stages

P(name) == <<name>>
Queue == P("queue")
Bay == P("bay")
Washing == P("washing")
Done == P("done")
Again == P("again")
Finish == P("finish")
Start == P("start")

MCDeclared == <<Again, Finish, Start>>
MCTransition ==
  Range(MCDeclared) \cup {StageTr(t, s) : t \in {Again, Finish}, s \in 1 .. 3}
MCPlace ==
  {Queue, Bay, Washing, Done} \cup {StagePlace(t, s) : t \in {Again, Finish}, s \in 1 .. 2}

A(x, y) == Link(x, y)
Gate(x, y, k, typ) == [Link(x, y) EXCEPT !.weight = k, !.typ = typ]

\* The finish takes a job off the wash by this arc.
Base(a) ==
  <<A(Queue, Start), A(Bay, Start), A(Start, Washing), a, A(Finish, Done), A(Finish, Bay), A(Done, Again), A(Again, Queue)>>

\* An arc as it may be, by two at a time, or one that is not kinetic.
Takes == {A(Washing, Finish), Gate(Washing, Finish, 2, "normal"), [A(Washing, Finish) EXCEPT !.kinetic = FALSE]}

\* What else the nets have, the last five to be refused of a staged finish.
Extras ==
  {<<>>,
   <<Gate(Queue, Again, 2, "inhibitor")>>,
   <<Gate(Queue, Start, 2, "read")>>,
   <<Gate(Washing, Start, 1, "inhibitor")>>,
   <<Gate(Washing, Again, 1, "read")>>,
   <<A(Washing, Again)>>,
   <<A(Queue, Finish)>>,
   <<Gate(Queue, Finish, 1, "inhibitor")>>}

Cap(bound) == [p \in MCPlace |-> IF p \in DOMAIN bound THEN bound[p] ELSE 0]
Bounds == {<<>>, [p \in {Done} |-> 1], [p \in {Washing} |-> 2]}

MCModels ==
  {[net |-> [transitions |-> Range(MCDeclared), arcs |-> Base(take) \o extra, cap |-> Cap(bound)],
    stages |-> [t \in Range(MCDeclared) |-> IF t = Finish THEN k ELSE IF t = Again THEN j ELSE 0],
    guarded |-> g,
    opening |-> [p \in MCPlace |-> IF p = Queue THEN 3 ELSE IF p = Bay THEN 2 ELSE 0]] :
     take \in Takes, extra \in Extras, bound \in Bounds, k \in {0, 1, 2, 3}, j \in {-1, 0, 2}, g \in {{}, {Finish}}}

=============================================================================
