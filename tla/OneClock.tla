------------------------------ MODULE OneClock ------------------------------
(***************************************************************************)
(* What a net with delays means (docs/engine-selection.md, rule 5), on one *)
(* clock from the opening to the horizon.  A transition with a delay       *)
(* starts the instant the firing rule enables it, takes its inputs then,   *)
(* and gives its outputs exactly its delay later; the others race.  No     *)
(* time passes while one with a delay could start, none passes over a      *)
(* firing that is due, and those due together land in the order they       *)
(* started.  The abstract specification of DelayedFiring.                  *)
(***************************************************************************)
EXTENDS ScheduledNet

VARIABLES
  run,          \* fixed at the start
  mk,
  flying,       \* the firings started and not completed
  now,
  started,      \* how many firings have started
  cut           \* the run spent its budget of steps: time means nothing any more

vars == <<run, mk, flying, now, started, cut>>

\* t has a rate at time c; at a boundary the segments on both sides count.
Live(t, c) ==
  \E k \in DOMAIN run.ends : t \in run.live[k] /\ Opens(run, k) <= c /\ c <= run.ends[k]

\* Nothing that starts by itself could start now.
Settled == \A t \in Transition : Delayed(run, t) => ~ Enabled(run.net, t, mk)

\* Time may move on to c.
Reaches(c) ==
  \/ cut
  \/ /\ now <= c /\ c <= Horizon(run)
     /\ \A f \in flying : c <= f.due
     /\ now < c => Settled

\* A firing may be the last the budget allows.
Spend == cut' \in {cut, TRUE}

Init ==
  /\ run \in Runs
  /\ mk = run.opening
  /\ flying = {}
  /\ now = 0
  /\ started = 0
  /\ cut = FALSE

Start(t) ==
  /\ Delayed(run, t)
  /\ Enabled(run.net, t, mk)
  /\ mk' = [p \in Place |-> mk[p] - Taken(run.net, t, p)]
  /\ flying' = flying \cup {[tr |-> t, due |-> now + run.delay[t], no |-> started]}
  /\ started' = started + 1
  /\ UNCHANGED <<run, now, cut>>

Land(f) ==
  /\ Reaches(f.due)
  /\ \A g \in flying : g.due = f.due => f.no <= g.no
  /\ mk' = [p \in Place |-> mk[p] + Given(run.net, f.tr, p)]
  /\ flying' = flying \ {f}
  /\ now' = f.due
  /\ Spend
  /\ UNCHANGED <<run, started>>

Race(t) ==
  /\ ~ Delayed(run, t)
  /\ Enabled(run.net, t, mk)
  /\ Reaches(now')
  /\ cut \/ (Live(t, now') /\ \A f \in flying : f.due # now')
  /\ mk' = Fire(run.net, t, mk)
  /\ Spend
  /\ UNCHANGED <<run, flying, started>>

Wait ==
  /\ Reaches(now')
  /\ UNCHANGED <<run, mk, flying, started, cut>>

Next ==
  \/ \E t \in Transition : Start(t) \/ Race(t)
  \/ \E f \in flying : Land(f)
  \/ Wait

Spec == Init /\ [][Next]_vars

=============================================================================
