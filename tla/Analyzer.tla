------------------------------ MODULE Analyzer ------------------------------
(***************************************************************************)
(* Analyzer::analyze_with_verification (pflow-reachability analyzer.rs):   *)
(* the graph is built, its strong components are found, the liveness       *)
(* verdicts follow from the closed ones, and where the search was cut      *)
(* short each transition it did not fire gets a targeted search of its     *)
(* own, best first.                                                        *)
(***************************************************************************)
EXTENDS Liveness

CONSTANT none   \* no transition

VARIABLES
  left,         \* potentially_dead transitions still to verify
  goal,         \* the one being searched for
  seen,         \* visited: the markings ever put on the heap
  heap,         \* [mk, path], in the order put
  skipped,      \* history: this search has left a marking out
  confirmed,    \* confirmed_dead
  sure,         \* history: those whose search left nothing out
  ways          \* per transition confirmed reachable, its firing sequence

hunt == <<left, goal, seen, heap, skipped, confirmed, sure, ways>>
vars == <<analysis, hunt>>

-----------------------------------------------------------------------------
\* The targeted search.

\* What t takes from each of its places; of two arcs on one place the last counts.
Required(t) ==
  LET ins == Inputs(job.net, t)
      last(p) == Max({i \in ins : job.net.arcs[i].from = p})
  IN  [p \in {job.net.arcs[i].from : i \in ins} |-> Weight(job.net.arcs[last(p)])]

Distance(mk, t) ==
  LET lacks(p) == IF mk[p] < Required(t)[p] THEN Required(t)[p] - mk[p] ELSE 0
  IN  MapThenSumSet(lacks, DOMAIN Required(t))

\* The item looked at next: the nearest, of those the one put first.
IsNearest(k) ==
  \A j \in DOMAIN heap :
    LET dk == Distance(heap[k].mk, goal)  dj == Distance(heap[j].mk, goal)
    IN  dk < dj \/ (dk = dj /\ k <= j)

\* Mutant: a marking already visited ends the expansion.
FollowersUntilKnown(item) ==
  LET put(items, t) ==
        LET new == Fire(job.net, t, item.mk)
        IN  IF ~ Enabled(job.net, t, item.mk) \/ TooMany(new) \/ new \in seen
               \/ items # <<>>
            THEN items ELSE Append(items, [mk |-> new, path |-> Append(item.path, t)])
  IN  FoldLeft(put, <<>>, Declared)

\* The items a marking adds: what its firings lead to and nothing led to before.
Followers(item) ==
  LET put(items, t) ==
        LET new == Fire(job.net, t, item.mk)
        IN  IF ~ Enabled(job.net, t, item.mk) \/ TooMany(new) \/ new \in seen
               \/ (\E k \in DOMAIN items : items[k].mk = new)
            THEN items ELSE Append(items, [mk |-> new, path |-> Append(item.path, t)])
  IN  FoldLeft(put, <<>>, Declared)

Init ==
  /\ Start
  /\ left = {} /\ goal = none /\ seen = {} /\ heap = <<>> /\ skipped = FALSE
  /\ confirmed = {} /\ sure = {} /\ ways = [t \in {} |-> <<>>]

\* The verdicts are in.  What a complete search did not fire is dead; what a
\* truncated one did not fire is verified.
Judge ==
  /\ stage = "group" /\ Grouped
  /\ IF truncated
     THEN left' = Unfired /\ UNCHANGED <<confirmed, sure>>
     ELSE confirmed' = Unfired /\ sure' = Unfired /\ UNCHANGED left
  /\ stage' = "verify"
  /\ UNCHANGED <<graph, tarjan, goal, seen, heap, skipped, ways>>

\* Mutant: what is being verified stays to be verified.
AimKeeping ==
  /\ stage = "verify" /\ left # {}
  /\ goal' = CHOOSE t \in left : TRUE
  /\ seen' = {job.opening}
  /\ heap' = <<[mk |-> job.opening, path |-> <<>>]>>
  /\ skipped' = FALSE
  /\ stage' = "search"
  /\ UNCHANGED <<graph, tarjan, left, confirmed, sure, ways>>

\* The searches do not touch each other: any order will do.
Aim ==
  /\ stage = "verify" /\ left # {}
  /\ goal' = CHOOSE t \in left : TRUE
  /\ left' = left \ {goal'}
  /\ seen' = {job.opening}
  /\ heap' = <<[mk |-> job.opening, path |-> <<>>]>>
  /\ skipped' = FALSE
  /\ stage' = "search"
  /\ UNCHANGED <<graph, tarjan, confirmed, sure, ways>>

Searching == stage = "search" /\ heap # <<>> /\ Cardinality(seen) < 2 * job.states

Hit(k) ==
  /\ Searching /\ IsNearest(k)
  /\ Enabled(job.net, goal, heap[k].mk)
  /\ ways' = [t \in DOMAIN ways \cup {goal} |->
                IF t = goal THEN Append(heap[k].path, goal) ELSE ways[t]]
  /\ stage' = "verify"
  /\ UNCHANGED <<graph, tarjan, left, goal, seen, heap, skipped, confirmed, sure>>

\* The nearest marking does not enable the goal: what it leads to is put.
Widen(k) ==
  /\ Searching /\ IsNearest(k)
  /\ ~ Enabled(job.net, goal, heap[k].mk)
  /\ heap' = RemoveAt(heap, k) \o Followers(heap[k])
  /\ seen' = seen \cup {heap'[j].mk : j \in DOMAIN heap'}
  /\ skipped' = (skipped \/ \E t \in Transition : /\ Enabled(job.net, t, heap[k].mk)
                                                   /\ TooMany(Fire(job.net, t, heap[k].mk)))
  /\ UNCHANGED <<graph, tarjan, stage, left, goal, confirmed, sure, ways>>

\* Nothing is left on the heap, or too much was visited: dead, either way.
GiveUp ==
  /\ stage = "search" /\ ~ Searching
  /\ confirmed' = confirmed \cup {goal}
  /\ sure' = IF heap = <<>> /\ ~ skipped THEN sure \cup {goal} ELSE sure
  /\ stage' = "verify"
  /\ UNCHANGED <<graph, tarjan, left, goal, seen, heap, skipped, ways>>

Report ==
  /\ stage = "verify" /\ left = {}
  /\ stage' = "over"
  /\ UNCHANGED <<graph, tarjan, hunt>>

Next == (Analysing /\ UNCHANGED hunt) \/ Judge \/ Aim \/ GiveUp \/ Report
        \/ \E k \in DOMAIN heap : Hit(k) \/ Widen(k)

\* An analysis, once begun, is carried through.
FairSpec == Init /\ [][Next]_vars /\ WF_vars(Next)

-----------------------------------------------------------------------------
Judged == stage \in {"verify", "search", "over"}

\* Tarjan's components are those of nodes that lead to each other, in the graph
\* as far as it was explored.
ComponentsRight ==
  Judged =>
    LET along == [m \in Known |-> {e.to : e \in {x \in Range(edges) : x.from = m}}]
        after == [u \in Vertex |-> UNION Range(Layers({found[u]}, along))]
    IN  \A u, v \in Vertex :
          component[u] = component[v] <=> found[u] \in after[v] /\ found[v] \in after[u]

\* "When the search was truncated, nothing is ever True.  A refutation still
\* stands if it is real regardless of what lies beyond the bound" (struct
\* Liveness): a verdict that is not unknown is that of the whole state space, a
\* transition said not to be live is not, and the regions of a complete search
\* are the terminal components.  The witness replays, by a shortest trace, to
\* where each transition it names never fires again.
VerdictsSound ==
  stage = "over" =>
    LET dead == \E m \in Reachable(Truth) : IsDead(Truth, m)
        shut(t) == \E m \in Reachable(Truth) : ~ CanFireAfter(Truth, t, m)
        Says(verdict, fact) == /\ verdict = "true" => ~ truncated /\ fact
                               /\ verdict = "false" => ~ fact
    IN  /\ Says(DeadlockFree, ~ dead)
        /\ Says(Live, \A t \in Transition : ~ shut(t))
        /\ Says(QuasiLive, \A t \in Transition : CanFire(Truth, t))
        /\ \A t \in NotLive : shut(t)
        /\ ~ truncated => /\ \A t \in Transition : shut(t) => t \in NotLive
                          /\ {{found[k] : k \in Members(c)} : c \in Regions} = Terminals(Truth)
        /\ \A c \in Witnesses :
             LET m == found[Entry(c)]
             IN  /\ Replays(Trace(m), m) /\ Len(Trace(m)) = Truth.dist[m]
                 /\ \A t \in Never(c) : ~ CanFireAfter(Truth, t, m)

\* A transition the targeted search says can fire does, at the end of the
\* sequence it gives; one whose search looked at everything never fires; so,
\* where none was cut short, is the flag quasi_live the truth.
TargetsRight ==
  stage = "over" =>
    /\ \A t \in DOMAIN ways : /\ t = ways[t][Len(ways[t])]
                            /\ \E x \in Truth.moves : x.tr = t /\ Replays(ways[t], x.to)
    /\ \A t \in sure : ~ CanFire(Truth, t)
    /\ truncated /\ Unfired # {} /\ confirmed = sure => (confirmed = {} <=> \A t \in Transition : CanFire(Truth, t))

\* Every analysis ends, within its limits.
Ends == <>(stage = "over")

=============================================================================
