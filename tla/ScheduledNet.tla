----------------------------- MODULE ScheduledNet -----------------------------
(***************************************************************************)
(* What a scheduled run is given: a net, its delays and a schedule.        *)
(***************************************************************************)
EXTENDS FiringRule

CONSTANT Runs   \* the runs considered

\* A net, its delays (0: none), the marking it opens with, the times its
\* segments end, and per segment the transitions that have a rate.
Run ==
  {r \in [net : Nets, delay : [Transition -> Nat], opening : Marking,
          ends : Seq(Nat), live : Seq(SUBSET Transition)] :
     /\ r.ends # <<>> /\ Len(r.live) = Len(r.ends)
     /\ \A k \in DOMAIN r.ends : r.ends[k] > IF k = 1 THEN 0 ELSE r.ends[k - 1]}

ASSUME RunsAssumption == Runs \subseteq Run

\* The time segment k starts at.
Opens(r, k) == IF k = 1 THEN 0 ELSE r.ends[k - 1]

Horizon(r) == r.ends[Len(r.ends)]

Delayed(r, t) == r.delay[t] > 0

=============================================================================
