---------------------------- MODULE DelayedFiring ----------------------------
(***************************************************************************)
(* The discrete engine of pflow-solver (stochastic: compile.rs, engine.rs, *)
(* simulate.rs), one realization of a scheduled run.  The horizon is run   *)
(* in segments, each on a clock of its own; the marking and the firings in *)
(* flight are carried over.  A step starts every transition with a delay   *)
(* that can start, pass by pass in the declaration order, then either the  *)
(* first firing due lands or a draw fires one of the others, whichever is  *)
(* earlier.  Any draw of the random source may come, so a draw is a choice *)
(* of a transition that can fire and of a time.                            *)
(***************************************************************************)
EXTENDS ScheduledNet, SequencesExt

CONSTANTS
  Declared,     \* the transitions, in the order declared
  MaxSteps      \* steps per segment, MAX_STEPS in the code

ASSUME DeclaredAssumption ==
  /\ Declared \in Seq(Transition)
  /\ \A t \in Transition : \E i \in DOMAIN Declared : Declared[i] = t
ASSUME MaxStepsAssumption == MaxSteps \in Nat \ {0}

\* The weights are not negative, and what has a delay consumes something: it
\* would start forever otherwise.
ASSUME ConsumingAssumption ==
  \A r \in Runs : \A t \in Transition :
    /\ ~ Invalid(r.net, t)
    /\ Delayed(r, t) => Inputs(r.net, t) # {}

VARIABLES
  run,          \* the run, fixed at the start
  seg,          \* the segment
  clock,        \* its time
  mk,           \* the marking
  queue,        \* the firings in flight, by the time they are due
  pc,           \* "start", "race" or "over": the segment is
  next, again,  \* the pass over the declared transitions; it started something
  steps,        \* of the segment
  fired,        \* per transition, the firings completed
  started,      \* history: how many firings have started, to number them
  cut           \* history: a segment ran out of steps

vars == <<run, seg, clock, mk, queue, pc, next, again, steps, fired, started, cut>>

-----------------------------------------------------------------------------
Span == run.ends[seg] - Opens(run, seg)

Delta(t, p) == Given(run.net, t, p) - Taken(run.net, t, p)

\* Reads, inhibitors and capacities.
Gated(t) ==
  /\ \A i \in Tests(run.net, t) : Passes(run.net.arcs[i], mk[run.net.arcs[i].from])
  /\ \A p \in Place : run.net.cap[p] > 0 /\ Delta(t, p) > 0
                        => mk[p] + Delta(t, p) <= run.net.cap[p]

CanFire(t) ==
  /\ \A i \in Inputs(run.net, t) : mk[run.net.arcs[i].from] >= Weight(run.net.arcs[i])
  /\ Gated(t)

Startable(i) == Delayed(run, Declared[i]) /\ CanFire(Declared[i])

\* The transitions whose propensity is not zero.
Racing == {t \in run.live[seg] : ~ Delayed(run, t) /\ CanFire(t)}

Take(t) == mk' = [p \in Place |-> mk[p] - Taken(run.net, t, p)]

\* schedule_pending: by time, after those due at the same instant.  The queue
\* is sorted, so as many come before as are due no later (partition_point).
Schedule(q, f) == InsertAt(q, Cardinality({k \in DOMAIN q : q[k].at <= f.at}) + 1, f)

\* Back at the head of the loop at time c, after s steps: another one, or over.
Loop(c, s) ==
  /\ clock' = c
  /\ IF s < MaxSteps /\ c < Span
     THEN pc' = "start" /\ steps' = s + 1
     ELSE pc' = "over" /\ steps' = s
  /\ next' = 1 /\ again' = FALSE
  /\ cut' = (cut \/ (s >= MaxSteps /\ c < Span))

Init ==
  /\ run \in Runs
  /\ seg = 1 /\ clock = 0
  /\ mk = run.opening
  /\ queue = <<>>
  /\ pc = "start" /\ next = 1 /\ again = FALSE /\ steps = 1
  /\ fired = [t \in Transition |-> 0]
  /\ started = 0 /\ cut = FALSE

\* The pass reaches the next transition it can start.
Start(i) ==
  /\ pc = "start"
  /\ i >= next /\ Startable(i)
  /\ \A j \in next .. i - 1 : ~ Startable(j)
  /\ Take(Declared[i])
  /\ queue' = Schedule(queue, [at |-> clock + run.delay[Declared[i]],
                               tr |-> Declared[i], no |-> started])
  /\ started' = started + 1
  /\ next' = i + 1 /\ again' = TRUE
  /\ UNCHANGED <<run, seg, clock, pc, steps, fired, cut>>

\* Mutant: the flag of a pass is not taken down for the next.
EndPassKeeping ==
  /\ pc = "start"
  /\ \A j \in next .. Len(Declared) : ~ Startable(j)
  /\ next' = 1
  /\ pc' = IF again THEN "start" ELSE "race"
  /\ UNCHANGED <<run, seg, clock, mk, queue, again, steps, fired, started, cut>>

\* The pass is over: another one if it started anything.
EndPass ==
  /\ pc = "start"
  /\ \A j \in next .. Len(Declared) : ~ Startable(j)
  /\ next' = 1 /\ again' = FALSE
  /\ pc' = IF again THEN "start" ELSE "race"
  /\ UNCHANGED <<run, seg, clock, mk, queue, steps, fired, started, cut>>

\* Mutant: a landing returns what the firing had taken as well.
CompleteReturning ==
  /\ pc = "race"
  /\ queue # <<>> /\ Head(queue).at <= Span
  /\ mk' = [p \in Place |-> mk[p] + Taken(run.net, Head(queue).tr, p) + Given(run.net, Head(queue).tr, p)]
  /\ fired' = [fired EXCEPT ![Head(queue).tr] = @ + 1]
  /\ queue' = Tail(queue)
  /\ Loop(Head(queue).at, steps)
  /\ UNCHANGED <<run, seg, started>>

\* The first firing due lands, before any draw that falls at its time or later.
Complete ==
  /\ pc = "race"
  /\ queue # <<>> /\ Head(queue).at <= Span
  /\ mk' = [p \in Place |-> mk[p] + Given(run.net, Head(queue).tr, p)]
  /\ fired' = [fired EXCEPT ![Head(queue).tr] = @ + 1]
  /\ queue' = Tail(queue)
  /\ Loop(Head(queue).at, steps)
  /\ UNCHANGED <<run, seg, started>>

\* A draw fires t at time c.
Draw(t, c) ==
  /\ pc = "race"
  /\ t \in Racing
  /\ queue # <<>> => c < Head(queue).at
  /\ mk' = [p \in Place |-> mk[p] + Delta(t, p)]
  /\ fired' = [fired EXCEPT ![t] = @ + 1]
  /\ Loop(c, steps)
  /\ UNCHANGED <<run, seg, queue, started>>

\* Nothing happens any more by the segment's end: nothing can (a dead marking),
\* or what is first, a landing or the draw, falls after it.
Break ==
  /\ pc = "race"
  /\ queue # <<>> => Head(queue).at > Span
  /\ pc' = "over"
  /\ UNCHANGED <<run, seg, clock, mk, queue, next, again, steps, fired, started, cut>>

\* Mutant: what is in flight keeps the time of the old clock.
NextSegmentOldClock ==
  /\ pc = "over"
  /\ seg < Len(run.ends)
  /\ seg' = seg + 1
  /\ clock' = 0
  /\ pc' = "start" /\ next' = 1 /\ again' = FALSE /\ steps' = 1
  /\ UNCHANGED <<run, mk, queue, fired, started, cut>>

\* The next segment, on its own clock: what is in flight is re-based to it.
NextSegment ==
  /\ pc = "over"
  /\ seg < Len(run.ends)
  /\ seg' = seg + 1
  /\ queue' = [k \in DOMAIN queue |-> [queue[k] EXCEPT !.at = @ - Span]]
  /\ clock' = 0
  /\ pc' = "start" /\ next' = 1 /\ again' = FALSE /\ steps' = 1
  /\ UNCHANGED <<run, mk, fired, started, cut>>

Next ==
  \/ \E i \in DOMAIN Declared : Start(i)
  \/ EndPass
  \/ Complete
  \/ \E t \in Transition, c \in clock .. Span : Draw(t, c)
  \/ Break
  \/ NextSegment

Spec == Init /\ [][Next]_vars

\* A run, once started, is run.
FairSpec == Spec /\ WF_vars(Next)

Over == pc = "over" /\ seg = Len(run.ends)

-----------------------------------------------------------------------------
\* A place's total that does not add up is accounted for by what is in flight
\* (docs/engine-selection.md 178-181), at any time and across segments.
Accounted ==
  \A p \in Place :
    mk[p] = run.opening[p]
              + SumFunction([t \in Transition |-> fired[t] * Delta(t, p)])
              - SumFunction([k \in DOMAIN queue |-> Taken(run.net, queue[k].tr, p)])

\* A segmented run is a run on one clock: what is in flight across a boundary is
\* neither lost, doubled, reordered nor shifted in time, and what starts or fires
\* is what the firing rule (firing.rs) enables, the instant it is enabled if it
\* has a delay.  A segment that runs out of steps still moves tokens by the rule.
C == INSTANCE OneClock WITH
       now <- Opens(run, seg) + clock,
       flying <- {[tr |-> queue[k].tr, due |-> Opens(run, seg) + queue[k].at, no |-> queue[k].no] :
                    k \in DOMAIN queue}

OneClockSpec == C!Spec

\* Every run ends: the passes that start things end, and the steps are limited.
RunEnds == <>Over

=============================================================================
