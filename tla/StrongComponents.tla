-------------------------- MODULE StrongComponents --------------------------
(***************************************************************************)
(* strongly_connected_components of pflow-reachability (analyzer.rs):      *)
(* Tarjan's algorithm with a work list for a call stack.  Nodes are        *)
(* numbered from 1; successors[v] lists v's, and may repeat one.  One look *)
(* at the top of the work list is one step.                                *)
(***************************************************************************)
EXTENDS Integers, Sequences, FiniteSetsExt

CONSTANTS Unseen    \* the index of a node that has none

ASSUME UnseenAssumption == Unseen \notin Nat

VARIABLES
  successors,   \* the graph, fixed while the algorithm runs
  index, low,   \* of each node
  stack,        \* the nodes in no component yet, latest first
  component,    \* of each node
  work,         \* the path being walked, latest first: a node and how many
                \* of its successors have been looked at
  nextIndex, nextComponent

tarjan == <<successors, index, low, stack, component, work, nextIndex, nextComponent>>

Vertex == DOMAIN successors
OnStack(v, st) == \E k \in DOMAIN st : st[k] = v

Top == Head(work).node
Looked == Head(work).looked

\* Where nothing of the top has been looked at, it is numbered first.
Fresh == Looked = 0
IndexNow == IF Fresh THEN [index EXCEPT ![Top] = nextIndex] ELSE index
LowNow == IF Fresh THEN [low EXCEPT ![Top] = nextIndex] ELSE low
StackNow == IF Fresh THEN <<Top>> \o stack ELSE stack
Number ==
  /\ index' = IndexNow
  /\ nextIndex' = IF Fresh THEN nextIndex + 1 ELSE nextIndex

\* The walk starts again from the first node not seen.
Restart ==
  /\ work = <<>>
  /\ \E v \in Vertex :
       /\ index[v] = Unseen /\ \A u \in 1 .. v - 1 : index[u] # Unseen
       /\ work' = <<[node |-> v, looked |-> 0]>>
  /\ UNCHANGED <<successors, index, low, stack, component, nextIndex, nextComponent>>

\* The next successor of the top: walk to it, or hear how low it is.
Look ==
  /\ work # <<>> /\ Looked < Len(successors[Top])
  /\ LET w == successors[Top][Looked + 1]
         rest == <<[Head(work) EXCEPT !.looked = @ + 1]>> \o Tail(work)
     IN  IF IndexNow[w] = Unseen
         THEN /\ work' = <<[node |-> w, looked |-> 0]>> \o rest
              /\ low' = LowNow
         ELSE /\ work' = rest
              /\ low' = IF OnStack(w, StackNow)
                        THEN [LowNow EXCEPT ![Top] = Min({@, IndexNow[w]})]
                        ELSE LowNow
  /\ Number /\ stack' = StackNow
  /\ UNCHANGED <<successors, component, nextComponent>>

\* Mutant: the node walked from does not hear how low the top is.
LeaveUntold ==
  /\ work # <<>> /\ Looked >= Len(successors[Top])
  /\ low' = LowNow
  /\ work' = Tail(work)
  /\ IF LowNow[Top] = IndexNow[Top]
     THEN LET root == CHOOSE k \in DOMAIN StackNow : StackNow[k] = Top
              off == {StackNow[k] : k \in 1 .. root}
          IN  /\ stack' = SubSeq(StackNow, root + 1, Len(StackNow))
              /\ component' = [v \in Vertex |-> IF v \in off THEN nextComponent ELSE component[v]]
              /\ nextComponent' = nextComponent + 1
     ELSE stack' = StackNow /\ UNCHANGED <<component, nextComponent>>
  /\ Number
  /\ UNCHANGED successors

\* The top has no more successors: the one it was walked from hears how low it
\* is, and if it is as low as its own index the stack down to it is a component.
Leave ==
  /\ work # <<>> /\ Looked >= Len(successors[Top])
  /\ low' = IF Len(work) > 1
            THEN [LowNow EXCEPT ![work[2].node] = Min({@, LowNow[Top]})]
            ELSE LowNow
  /\ work' = Tail(work)
  /\ IF LowNow[Top] = IndexNow[Top]
     THEN LET root == CHOOSE k \in DOMAIN StackNow : StackNow[k] = Top
              off == {StackNow[k] : k \in 1 .. root}
          IN  /\ stack' = SubSeq(StackNow, root + 1, Len(StackNow))
              /\ component' = [v \in Vertex |-> IF v \in off THEN nextComponent ELSE component[v]]
              /\ nextComponent' = nextComponent + 1
     ELSE stack' = StackNow /\ UNCHANGED <<component, nextComponent>>
  /\ Number
  /\ UNCHANGED successors

Walking == Restart \/ Look \/ Leave

Grouped == work = <<>> /\ \A v \in Vertex : index[v] # Unseen

=============================================================================
