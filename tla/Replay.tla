------------------------------- MODULE Replay -------------------------------
(***************************************************************************)
(* Token replay of pflow-mining (conformance.rs): a log is recorded, a net *)
(* is mined from it or brought along, and every case is replayed on the    *)
(* net event by event, by two passes side by side: check_conformance       *)
(* forces an event that is not enabled and counts what it lacked, and      *)
(* check_precision notes at each marking what was enabled and what was     *)
(* taken.  Neither pass sees the other.  Colours are left out (a net is    *)
(* unfolded before), and so are the ratios made of the counts.             *)
(***************************************************************************)
EXTENDS Discovery

CONSTANTS
  Traces,      \* the traces a case may have
  GivenNets,   \* nets brought along
  Sizes,       \* how many cases in a row a trace may have
  MaxGroups    \* bound: groups of cases of one log

VARIABLES
  log,         \* the cases recorded
  source,      \* "recording", then where the net is from: a method, or "given"
  net,         \* the net
  done,        \* what became of the cases replayed
  rest,        \* the events left of the case being replayed
  mk,          \* the marking of the conformance pass
  tally,       \* what it counted in this case
  silent,      \* the marking of the precision pass
  states       \* by marking met: what was enabled, what was taken

vars == <<log, source, net, done, rest, mk, tally, silent, states>>

-----------------------------------------------------------------------------
\* replay_model: an arc as the firing rule sees it, by which end is the
\* transition.  Arcs between two of a kind are nothing.
Crosses(n, a) == (a.source \in DOMAIN n.labels) # (a.target \in DOMAIN n.labels)

Drawn(n, a) ==
  LET role(from, to, typ) == [from |-> from, to |-> to, weight |-> a.weight, typ |-> typ]
  IN  IF a.target \in DOMAIN n.labels
      THEN role(a.source, a.target, IF a.inhibit THEN "inhibitor" ELSE "normal")
      ELSE IF a.inhibit THEN role(a.target, a.source, "read") ELSE role(a.source, a.target, "normal")

\* The last arc in one role wins, in the place of the first.
Replace(arcs, a) ==
  LET same == {i \in DOMAIN arcs : arcs[i].from = a.from /\ arcs[i].to = a.to /\ arcs[i].typ = a.typ}
  IN  IF same = {} THEN Append(arcs, a) ELSE [i \in DOMAIN arcs |-> IF i \in same THEN a ELSE arcs[i]]

ReplayModel(n) ==
  [arcs |-> FoldLeft(LAMBDA arcs, a : Replace(arcs, Drawn(n, a)), <<>>, SelectSeq(n.arcs, LAMBDA a : Crosses(n, a))),
   cap |-> [p \in Place |-> 0]]

Opening(n) == [p \in Place |-> IF p \in DOMAIN n.places THEN n.places[p] ELSE 0]

\* build_activity_mapping: of the transitions with one label, the last.
Rank == [a \in Range(Activity) |-> CHOOSE i \in DOMAIN Activity : Activity[i] = a]
Labelled(n, a) == {t \in DOMAIN n.labels : n.labels[t] = a}
TransitionOf(n, a) == CHOOSE t \in Labelled(n, a) : \A u \in Labelled(n, a) : Rank[u] <= Rank[t]

-----------------------------------------------------------------------------
Sum(f(_), S) == IF S = {} THEN 0 ELSE MapThenSumSet(f, S)

\* gate_shortfall: the tokens a read arc lacks; one for an inhibitor in the way.
GateShort(a, v) ==
  IF a.typ = "inhibitor" THEN (IF v >= Weight(a) THEN 1 ELSE 0) ELSE IF v < Weight(a) THEN Weight(a) - v ELSE 0
GateShortfall(m, t, marking) == Sum(LAMBDA i : GateShort(m.arcs[i], marking[m.arcs[i].from]), Tests(m, t))

\* Mutant: gates are not looked at.
NoGates(m, t, marking) == Sum(LAMBDA i : Max({0, Weight(m.arcs[i]) - marking[m.arcs[i].from]}), Inputs(m, t))

Missing(m, t, marking) ==
  Sum(LAMBDA i : Max({0, Weight(m.arcs[i]) - marking[m.arcs[i].from]}), Inputs(m, t)) + GateShortfall(m, t, marking)

\* An event that is not enabled is forced: the precision pass leaves a short
\* input as it is, the conformance pass drains it.
ForcedSilent(m, t, marking) ==
  [p \in Place |-> (IF marking[p] >= Taken(m, t, p) THEN marking[p] - Taken(m, t, p) ELSE marking[p]) + Given(m, t, p)]
Forced(m, t, marking) == [p \in Place |-> Max({0, marking[p] - Taken(m, t, p)}) + Given(m, t, p)]

\* final_places: those of the net no token leaves.
FinalPlaces(n) ==
  {p \in DOMAIN n.places : \A i \in DOMAIN n.arcs : n.arcs[i].source = p => n.arcs[i].inhibit}

\* Tokens left behind elsewhere, and one for a case that did not come to rest.
Remaining(n, marking) ==
  Sum(LAMBDA p : marking[p], {p \in Place \ FinalPlaces(n) : marking[p] > 0})
    + (IF FinalPlaces(n) # {} /\ \A p \in FinalPlaces(n) : marking[p] <= 0 THEN 1 ELSE 0)

-----------------------------------------------------------------------------
NoNet == [places |-> <<>>, labels |-> <<>>, arcs |-> <<>>]
Total0(marking) == [missing |-> 0, consumed |-> 0, produced |-> Sum(LAMBDA p : marking[p], Place)]

Init ==
  /\ log = <<>> /\ source = "recording" /\ net = NoNet
  /\ done = <<>> /\ rest = <<>>
  /\ mk = <<>> /\ tally = <<>> /\ silent = <<>> /\ states = <<>>

Record(trace, cases) ==
  /\ source = "recording" /\ Len(log) < MaxGroups
  /\ log' = Append(log, [trace |-> trace, cases |-> cases])
  /\ UNCHANGED <<source, net, done, rest, mk, tally, silent, states>>

\* The next case is replayed from the net's own marking; of those of one trace,
\* one for all.
Begin(n, i) ==
  /\ rest' = IF i \in DOMAIN log THEN log[i].trace ELSE <<>>
  /\ mk' = Opening(n) /\ silent' = Opening(n)
  /\ tally' = Total0(Opening(n))

Check(n, from) ==
  /\ source = "recording" /\ log # <<>>
  /\ source' = from /\ net' = n
  /\ Begin(n, 1)
  /\ UNCHANGED <<log, done, states>>

Replaying == source # "recording" /\ Len(done) < Len(log)

\* replay_trace and check_precision, on one event.
Lack == [tally EXCEPT !.missing = @ + 1]

Charge(m, t) ==
  [missing |-> tally.missing + Missing(m, t, mk),
   consumed |-> tally.consumed + Sum(LAMBDA i : Weight(m.arcs[i]), Inputs(m, t)),
   produced |-> tally.produced + Sum(LAMBDA i : Weight(m.arcs[i]), Outputs(m, t))]

\* Mutant: what is enabled is noted at every visit, and what was taken
\* forgotten.
NoteAgain(m, taken) ==
  (silent :> [enabled |-> {t \in DOMAIN net.labels : Enabled(m, t, silent)}, taken |-> taken]) @@ states

Note(m, taken) ==
  IF silent \in DOMAIN states THEN [states EXCEPT ![silent].taken = @ \cup taken]
  ELSE (silent :> [enabled |-> {t \in DOMAIN net.labels : Enabled(m, t, silent)}, taken |-> taken]) @@ states

Event ==
  /\ Replaying /\ rest # <<>>
  /\ rest' = Tail(rest)
  /\ \E m \in {ReplayModel(net)} :
       \/ /\ Labelled(net, Head(rest)) = {}
          /\ tally' = Lack /\ states' = Note(m, {})
          /\ UNCHANGED <<mk, silent>>
       \/ /\ Labelled(net, Head(rest)) # {}
          /\ \E t \in {TransitionOf(net, Head(rest))} :
               /\ tally' = Charge(m, t)
               /\ mk' = IF Enabled(m, t, mk) THEN Fire(m, t, mk) ELSE Forced(m, t, mk)
               /\ silent' = IF Enabled(m, t, silent) THEN Fire(m, t, silent) ELSE ForcedSilent(m, t, silent)
               /\ states' = Note(m, {t})
  /\ UNCHANGED <<log, source, net, done>>

\* The end of a case.
Close ==
  /\ Replaying /\ rest = <<>>
  /\ \E left \in {Remaining(net, mk)} :
       done' = Append(done, [tally |-> tally, remaining |-> left, fitting |-> tally.missing = 0 /\ left = 0])
  /\ Begin(net, Len(done) + 2)
  /\ UNCHANGED <<log, source, net, states>>

Next ==
  \/ \E trace \in Traces, cases \in Sizes : Record(trace, cases)
  \/ \E method \in Method : Check(Discover(log, method), method)
  \/ \E n \in GivenNets : Check(n, "given")
  \/ Event
  \/ Close

Spec == Init /\ [][Next]_vars

-----------------------------------------------------------------------------
\* The net on its own terms, without the firing rule: the last of the arcs
\* drawn one way, and what it asks for.
Says(x, y, inhibit) ==
  LET drawn == {i \in DOMAIN net.arcs : net.arcs[i].source = x /\ net.arcs[i].target = y /\ net.arcs[i].inhibit = inhibit}
  IN  IF drawn = {} THEN 0 ELSE Max({1, net.arcs[Max(drawn)].weight})

CanPlay(t, m) ==
  \A p \in Place : /\ m[p] >= Says(p, t, FALSE) /\ m[p] >= Says(t, p, TRUE)
                   /\ Says(p, t, TRUE) > 0 => m[p] < Says(p, t, TRUE)
Play(t, m) == [p \in Place |-> m[p] - Says(p, t, FALSE) + Says(t, p, FALSE)]

\* The marking a trace leads to, none if it is no run of the net.
PlayEvent(S, a) ==
  {Play(TransitionOf(net, a), m) : m \in {x \in S : Labelled(net, a) # {} /\ CanPlay(TransitionOf(net, a), x)}}
Run(trace) == FoldLeft(PlayEvent, {Opening(net)}, trace)

Rests(m) ==
  /\ \A p \in Place : m[p] > 0 => p \in FinalPlaces(net)
  /\ FinalPlaces(net) = {} \/ \E p \in FinalPlaces(net) : m[p] > 0

Now == log[Len(done) + 1].trace
Sofar == SubSeq(Now, 1, Len(Now) - Len(rest))

\* A case is said to fit exactly when its trace is a run of the net that leaves
\* tokens only where none can leave: what a forced event makes up for never
\* hides that it was forced, and while nothing was missing both passes stand
\* where the run does.
FitsAsRun ==
  /\ Replaying => LET run == Run(Sofar)
                  IN  /\ (tally.missing = 0) = (run # {})
                      /\ run # {} => mk \in run /\ silent \in run
  /\ \A i \in DOMAIN done : done[i].fitting = (\E m \in Run(log[i].trace) : Rests(m))

\* Tokens are accounted for through every forced event: those that were there,
\* produced or missing are those consumed or still there, but for the events no
\* transition is for and the gates that were passed unmet, each counted as
\* missing ("Gates are checked, never moved, even by a force fire",
\* conformance.rs 33-36).
Accounted ==
  Replaying =>
    LET over == tally.produced + tally.missing - tally.consumed - Sum(LAMBDA p : mk[p], Place)
        strangers == Cardinality({i \in DOMAIN Sofar : Labelled(net, Sofar[i]) = {}})
    IN  IF \E i \in DOMAIN net.arcs : net.arcs[i].inhibit THEN over >= strangers ELSE over = strangers

\* Escaping edges, of a log that fits, are the transitions some case could have
\* gone on with and none that came to the same marking did.
EscapesRight ==
  source # "recording" /\ Len(done) = Len(log) /\ (\A i \in DOMAIN done : done[i].tally.missing = 0) =>
    LET moments == UNION {{<<i, k>> : k \in DOMAIN log[i].trace} : i \in DOMAIN log}
        at == [x \in moments |-> CHOOSE m \in Run(SubSeq(log[x[1]].trace, 1, x[2] - 1)) : TRUE]
        went(m) == {TransitionOf(net, log[x[1]].trace[x[2]]) : x \in {y \in moments : at[y] = m}}
    IN  /\ DOMAIN states = Range(at)
        /\ \A m \in DOMAIN states : states[m].enabled \ states[m].taken = {t \in DOMAIN net.labels : CanPlay(t, m)} \ went(m)

\* The logs Alpha is for: no activity comes twice in a case, none follow each
\* other both ways, and what may follow what is a choice that does not depend on
\* the past.
After(a) == {b \in Seen(log) : Follows(log, a, b)}
StructuredChoice ==
  /\ \A c \in Range(log) : IsInjective(c.trace)
  /\ \A a \in Starts(log), b \in Seen(log) : ~ Follows(log, b, a)
  /\ \A a \in Finishes(log) : After(a) = {}
  /\ \A a, b \in Seen(log) : After(a) \cap After(b) # {} => After(a) = After(b) /\ (a # b => Choice(log, a, b))
  /\ \A a \in Seen(log) : \A b, c \in After(a) : b # c => Choice(log, b, c)

\* A net replays the log it was mined from, as far as its method's idea of a
\* process goes: Alpha a log of structured choice; the common path its own
\* trace, when no activity comes twice in it; the heuristic miner a log of one
\* such trace; the sequence of all activities itself.
MinedReplays ==
  Len(done) = Len(log) =>
    \A i \in DOMAIN done :
      \/ source = "alpha" /\ StructuredChoice
      \/ source = "common-path" /\ log[i].trace = MostCommon(log) /\ IsInjective(log[i].trace)
      \/ source = "heuristic" /\ IsInjective(log[i].trace) /\ \A j \in DOMAIN log : log[j].trace = log[i].trace
      \/ source = "sequential" /\ log[i].trace = SelectSeq(Activity, LAMBDA a : a \in Seen(log))
      => done[i].fitting

=============================================================================
