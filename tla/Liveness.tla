------------------------------ MODULE Liveness ------------------------------
(***************************************************************************)
(* What pflow-reachability (analyzer.rs) concludes from a graph it built:  *)
(* the strong components are found, and from the closed ones follow the    *)
(* verdicts of struct Liveness, liveness_of and l4_liveness, each with a   *)
(* way to where it shows.  Analyzer and Verify go on from there.           *)
(***************************************************************************)
EXTENDS Explore, StrongComponents, StateSpace, SequencesExt

VARIABLE stage    \* "build", "group", and what the analysis goes on with

analysis == <<graph, tarjan, stage>>

Start ==
  /\ BuildInit
  /\ successors = <<>> /\ index = <<>> /\ low = <<>> /\ component = <<>>
  /\ stack = <<>> /\ work = <<>> /\ nextIndex = 0 /\ nextComponent = 0
  /\ stage = "build"

-----------------------------------------------------------------------------
\* The verdicts, over a graph whose components are known.

EnabledAt(k) == {t \in Transition : Enabled(job.net, t, found[k])}

Id(m) == CHOOSE k \in DOMAIN found : found[k] = m

\* Each node lists what its edges lead to, in the order the edges were added.
SuccessorLists ==
  [k \in DOMAIN found |->
     LET out[i \in 0 .. Len(edges)] ==
           IF i = 0 THEN <<>>
           ELSE IF edges[i].from = found[k] THEN Append(out[i - 1], Id(edges[i].to))
           ELSE out[i - 1]
     IN  out[Len(edges)]]

Members(c) == {k \in DOMAIN found : component[k] = c}

\* Mutant: that every marking was fully expanded is not asked.
ClosedUnexpanded(c) == \A k \in Members(c) : \A j \in DOMAIN successors[k] : component[successors[k][j]] = c

\* A region closed in the whole state space: every marking fully expanded, every
\* edge inside.
Closed(c) ==
  \A k \in Members(c) :
    /\ \A j \in DOMAIN successors[k] : component[successors[k][j]] = c
    /\ Len(successors[k]) >= Cardinality({i \in DOMAIN Declared : Enabled(job.net, Declared[i], found[k])})

Regions == {c \in Range(component) : Closed(c)}
Never(c) == Transition \ UNION {EnabledAt(k) : k \in Members(c)}

\* The search's order is the order of discovery, so the first member is the one
\* entered first, and the first edge into a marking is its parent edge.
Entry(c) == Min(Members(c))

Trace(mk) ==
  LET back[m \in Known] ==
        IF m = job.opening THEN <<>>
        ELSE LET e == edges[Min({i \in DOMAIN edges : edges[i].to = m})]
             IN  Append(back[e.from], e.tr)
  IN  back[mk]

DeadRegions == {c \in Regions : EnabledAt(Entry(c)) = {}}
ShutOut == {c \in Regions : Never(c) # {}}

RefutedOr(refuted) == IF refuted THEN "false" ELSE IF truncated THEN "unknown" ELSE "true"

Unfired == Transition \ {edges[i].tr : i \in DOMAIN edges}

DeadlockFree == RefutedOr(DeadRegions # {})
Live == RefutedOr(ShutOut # {})
QuasiLive == IF truncated THEN "unknown" ELSE IF Unfired = {} THEN "true" ELSE "false"
NotLive == UNION {Never(c) : c \in Regions}

\* The region the witness leads to: a dead marking, else a livelock, nearest first.
Witness(S) == CHOOSE c \in S : \A d \in S : Entry(c) <= Entry(d)
Witnesses == IF DeadRegions # {} THEN {Witness(DeadRegions)}
             ELSE IF ShutOut # {} THEN {Witness(ShutOut)} ELSE {}

-----------------------------------------------------------------------------
Building ==
  /\ stage = "build"
  /\ Build
  /\ UNCHANGED <<tarjan, stage>>

Group ==
  /\ stage = "build" /\ pc = "built"
  /\ stage' = "group"
  /\ successors' = SuccessorLists
  /\ index' = [k \in DOMAIN found |-> Unseen]
  /\ low' = [k \in DOMAIN found |-> 0]
  /\ component' = [k \in DOMAIN found |-> 0]
  /\ UNCHANGED <<graph, stack, work, nextIndex, nextComponent>>

Grouping ==
  /\ stage = "group"
  /\ Walking
  /\ UNCHANGED <<graph, stage>>

Analysing == Building \/ Group \/ Grouping

-----------------------------------------------------------------------------
\* What every search of the instance is measured against.
Spaces == [x \in {<<j.net, j.opening>> : j \in Jobs} |-> Space(x[1], x[2])]
Truth == Spaces[<<job.net, job.opening>>]

\* The sequence fires from the opening and ends at mk.
Replays(path, mk) ==
  LET ends[k \in 0 .. Len(path)] ==
        IF k = 0 THEN job.opening ELSE Fire(job.net, path[k], ends[k - 1])
  IN  /\ \A k \in DOMAIN path : Enabled(job.net, path[k], ends[k - 1])
      /\ ends[Len(path)] = mk

=============================================================================
