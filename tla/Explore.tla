------------------------------ MODULE Explore ------------------------------
(***************************************************************************)
(* Analyzer::build_graph (pflow-reachability analyzer.rs): the markings    *)
(* reachable from an opening, breadth first, until there are no more, the  *)
(* state limit is met, or a firing brings a place over the token limit.    *)
(* One firing is one step.                                                 *)
(***************************************************************************)
EXTENDS FiringRule, Functions

CONSTANTS
  Declared,     \* the transitions, in the order declared
  Jobs          \* the searches considered

ASSUME DeclaredAssumption ==
  /\ Declared \in Seq(Transition)
  /\ \A t \in Transition : \E i \in DOMAIN Declared : Declared[i] = t

\* A search: a net, where it starts, and its two limits.
Job == [net : Nets, opening : Marking, states : Nat, tokens : Count]

ASSUME JobsAssumption == Jobs \subseteq Job

VARIABLES
  job,          \* the search, fixed at the start
  found,        \* Graph::state_order: the markings, as discovered
  edges,        \* the firings added, in order
  depth,        \* of each marking: firings from the opening
  queue,        \* found and not popped yet
  at, next,     \* the marking being expanded; the next transition to look at
  pc,           \* "pop", "expand" or "built"
  truncated     \* a limit stopped the search

graph == <<job, found, edges, depth, queue, at, next, pc, truncated>>

Known == Range(found)

Edge == [from : Marking, tr : Transition, to : Marking]

\* A firing that ends over the token limit.
TooMany(mk) == \E p \in Place : mk[p] > job.tokens

\* The expansion has come to the i-th transition, the next one enabled.
Reaches(i) ==
  /\ pc = "expand"
  /\ i >= next /\ Enabled(job.net, Declared[i], at)
  /\ \A j \in next .. i - 1 : ~ Enabled(job.net, Declared[j], at)

After(i) == Fire(job.net, Declared[i], at)

BuildInit ==
  /\ job \in Jobs
  /\ found = <<job.opening>>
  /\ edges = <<>>
  /\ depth = [m \in {job.opening} |-> 0]
  /\ queue = <<job.opening>>
  /\ at = job.opening /\ next = 1
  /\ pc = "pop" /\ truncated = FALSE

\* The next marking to expand, while there is room for more states.
Pop ==
  /\ pc = "pop"
  /\ queue # <<>> /\ Len(found) < job.states
  /\ at' = Head(queue) /\ queue' = Tail(queue)
  /\ next' = 1 /\ pc' = "expand"
  /\ UNCHANGED <<job, found, edges, depth, truncated>>

\* A firing to a marking that is new, or not; add_edge keeps the least depth.
Discover(i) ==
  LET new == After(i)
      d == depth[at] + 1
  IN  /\ Reaches(i)
      /\ ~ TooMany(new)
      /\ IF new \in Known
         THEN /\ UNCHANGED <<found, queue>>
              /\ depth' = IF d < depth[new] THEN [depth EXCEPT ![new] = d] ELSE depth
         ELSE /\ found' = Append(found, new)
              /\ queue' = Append(queue, new)
              /\ depth' = [m \in Known \cup {new} |-> IF m = new THEN d ELSE depth[m]]
      /\ edges' = Append(edges, [from |-> at, tr |-> Declared[i], to |-> new])
      /\ next' = i + 1
      /\ UNCHANGED <<job, at, pc, truncated>>

\* A firing over the token limit stops the whole search where it stands.
Exceed(i) ==
  /\ Reaches(i)
  /\ TooMany(After(i))
  /\ pc' = "built" /\ truncated' = TRUE
  /\ UNCHANGED <<job, found, edges, depth, queue, at, next>>

EndExpand ==
  /\ pc = "expand"
  /\ \A j \in next .. Len(Declared) : ~ Enabled(job.net, Declared[j], at)
  /\ pc' = "pop"
  /\ UNCHANGED <<job, found, edges, depth, queue, at, next, truncated>>

\* Mutant: the limit is looked at as one that may be met.
FinishBeyond ==
  /\ pc = "pop"
  /\ queue = <<>> \/ Len(found) >= job.states
  /\ pc' = "built" /\ truncated' = (Len(found) > job.states)
  /\ UNCHANGED <<job, found, edges, depth, queue, at, next>>

\* Nothing is left to expand, or no room.  A search that found exactly as many
\* states as it may counts as truncated.
Finish ==
  /\ pc = "pop"
  /\ queue = <<>> \/ Len(found) >= job.states
  /\ pc' = "built" /\ truncated' = (Len(found) >= job.states)
  /\ UNCHANGED <<job, found, edges, depth, queue, at, next>>

Build ==
  \/ Pop
  \/ \E i \in DOMAIN Declared : Discover(i) \/ Exceed(i)
  \/ EndExpand
  \/ Finish

BuildSpec == BuildInit /\ [][Build]_graph

-----------------------------------------------------------------------------
\* The state has its type.
GraphTypeOK ==
  /\ job \in Jobs
  /\ found \in Seq(Marking)
  /\ edges \in Seq(Edge)
  /\ depth \in [Known -> Nat]
  /\ queue \in Seq(Known)
  /\ at \in Known /\ next \in 1 .. Len(Declared) + 1
  /\ pc \in {"pop", "expand", "built"}
  /\ truncated \in BOOLEAN

\* Every edge of m is there.
Expanded(m) ==
  \A t \in Transition : Enabled(job.net, t, m) =>
    \E k \in DOMAIN edges : edges[k] = [from |-> m, tr |-> t, to |-> Fire(job.net, t, m)]

\* What the graph holds is real, however the search stopped: its edges are
\* firings between markings it holds, and each marking but the opening is
\* entered by one from a marking nearer the opening, so that a trace leads to
\* it.  And a search that says it is complete (is_complete: "the full state
\* space was explored") has every firing of every marking it holds.
GraphExact ==
  /\ job.opening \in Known
  /\ \A k \in DOMAIN edges :
       /\ edges[k].from \in Known /\ edges[k].to \in Known
       /\ Enabled(job.net, edges[k].tr, edges[k].from)
       /\ edges[k].to = Fire(job.net, edges[k].tr, edges[k].from)
  /\ \A m \in Known \ {job.opening} :
       \E k \in DOMAIN edges : edges[k].to = m /\ depth[edges[k].from] < depth[m]
  /\ pc = "built" /\ ~ truncated => \A m \in Known : Expanded(m)

=============================================================================
