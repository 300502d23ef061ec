-------------------------- MODULE Analyzer_proofs ---------------------------
(***************************************************************************)
(* What the analysis of pflow-reachability says is so, for every net and   *)
(* all limits.  In order: the graph is real, and whole when it is said to  *)
(* be; the state space it is measured against is what its definition       *)
(* wants; Tarjan's algorithm, on any graph, finds the strong components;   *)
(* the graph's components are its own; a targeted search is right; the     *)
(* graph is built breadth first; and from all these the verdicts.          *)
(***************************************************************************)
EXTENDS Analyzer, FiringRule_proofs

-----------------------------------------------------------------------------
(* The graph: its inductive invariant. *)

HasEdge(m, t) ==
  \E k \in DOMAIN edges : edges[k] = [from |-> m, tr |-> t, to |-> Fire(job.net, t, m)]

\* The expansion has added the firings it has passed.
Passed ==
  pc = "expand" =>
    \A j \in 1 .. next - 1 : Enabled(job.net, Declared[j], at) => HasEdge(at, Declared[j])

\* A marking waits for its expansion, is in it, or has had it.
Pending ==
  pc # "built" => \A m \in Known : m \in Range(queue) \/ (pc = "expand" /\ m = at) \/ Expanded(m)

IInv == GraphTypeOK /\ GraphExact /\ Passed /\ Pending

-----------------------------------------------------------------------------
(* Lemmas about sequences and edges. *)

\* What is in a sequence after an append.
LEMMA RangeAppend ==
  ASSUME NEW S, NEW s \in Seq(S), NEW x
  PROVE  Range(Append(s, x)) = Range(s) \cup {x}
  <1>1. /\ DOMAIN Append(s, x) = 1 .. Len(s) + 1
        /\ DOMAIN s = 1 .. Len(s)
        /\ \A i \in 1 .. Len(s) : Append(s, x)[i] = s[i]
        /\ Append(s, x)[Len(s) + 1] = x
    OBVIOUS
  <1>2. Len(s) \in Nat
    OBVIOUS
  <1> QED
    BY <1>1, <1>2 DEF Range

\* What is in a sequence is its head and what is in its tail.
LEMMA RangeHeadTail ==
  ASSUME NEW S, NEW s \in Seq(S), s # <<>>
  PROVE  Range(s) = {Head(s)} \cup Range(Tail(s))
  <1>1. /\ DOMAIN s = 1 .. Len(s) /\ Len(s) \in Nat \ {0}
        /\ DOMAIN Tail(s) = 1 .. Len(s) - 1
        /\ \A i \in 1 .. Len(s) - 1 : Tail(s)[i] = s[i + 1]
        /\ Head(s) = s[1]
    BY HeadTailProperties
  <1> DEFINE n == Len(s)  rest == Tail(s)  first == Head(s)
  <1> HIDE DEF n, rest, first
  <1>2. ASSUME NEW i \in 1 .. n, i # 1 PROVE i - 1 \in DOMAIN rest /\ s[i] = rest[i - 1]
    <2>1. i \in Int /\ n \in Int /\ 1 <= i /\ i <= n /\ i # 1
      BY <1>1, <1>2 DEF n
    <2>2. i - 1 \in 1 .. n - 1 /\ (i - 1) + 1 = i
      BY <2>1
    <2> QED
      BY <1>1, <2>2 DEF n, rest
  <1>3. Range(s) \subseteq {first} \cup Range(rest)
    <2>1. SUFFICES ASSUME NEW i \in 1 .. n PROVE s[i] \in {first} \cup Range(rest)
      BY <1>1 DEF Range, n
    <2> QED
      BY <1>1, <1>2 DEF Range, first
  <1>4. first \in Range(s)
    BY <1>1 DEF Range, first
  <1>5. ASSUME NEW i \in DOMAIN rest PROVE rest[i] \in Range(s)
    <2>1. i + 1 \in 1 .. Len(s) /\ rest[i] = s[i + 1]
      BY <1>1, <1>5 DEF rest
    <2> QED
      BY <1>1, <2>1 DEF Range
  <1>6. Range(rest) \subseteq Range(s)
    BY <1>5 DEF Range
  <1> QED
    BY <1>3, <1>4, <1>6 DEF first, rest

\* The edges stay, so what has been expanded stays expanded.
LEMMA EdgesGrow ==
  ASSUME edges \in Seq(Edge), NEW e, edges' = Append(edges, e)
  PROVE  /\ DOMAIN edges' = 1 .. Len(edges) + 1 /\ DOMAIN edges = 1 .. Len(edges)
         /\ Len(edges) \in Nat
         /\ \A k \in DOMAIN edges : edges'[k] = edges[k]
         /\ edges'[Len(edges) + 1] = e
  OBVIOUS

\* What the step knows of the firing it is about.
LEMMA AfterType ==
  ASSUME GraphTypeOK, NEW i \in DOMAIN Declared
  PROVE  /\ Declared[i] \in Transition /\ at \in Marking /\ job.net \in Nets
         /\ After(i) \in Marking
         /\ depth[at] + 1 \in Nat
         /\ Known \subseteq Marking
  <1>1. Declared[i] \in Transition
    BY DeclaredAssumption
  <1>2. Known \subseteq Marking
    BY DEF GraphTypeOK, Known, Range
  <1>3. job.net \in Nets
    BY JobsAssumption DEF GraphTypeOK, Job
  <1> QED
    BY <1>1, <1>2, <1>3, FireType DEF GraphTypeOK, After

-----------------------------------------------------------------------------
(* The graph's invariant is inductive. *)

\* The invariant holds at first.
LEMMA InitIInv == BuildInit => IInv
  <1> SUFFICES ASSUME BuildInit PROVE IInv
    OBVIOUS
  <1>1. job \in Jobs /\ job.opening \in Marking
    BY JobsAssumption DEF BuildInit, Job
  <1>2. Known = {job.opening} /\ Range(queue) = {job.opening}
    BY DEF BuildInit, Known, Range
  <1>3. Len(Declared) \in Nat
    BY DeclaredAssumption
  <1>4. GraphTypeOK
    <2>1. depth \in [Known -> Nat]
      BY <1>2 DEF BuildInit
    <2>2. found \in Seq(Marking) /\ queue \in Seq(Known) /\ edges \in Seq(Edge)
      BY <1>1, <1>2 DEF BuildInit
    <2>3. next \in 1 .. Len(Declared) + 1
      BY <1>3 DEF BuildInit
    <2> QED
      BY <1>1, <1>2, <2>1, <2>2, <2>3 DEF BuildInit, GraphTypeOK
  <1>5. GraphExact
    BY <1>2 DEF BuildInit, GraphExact
  <1>6. Passed /\ Pending
    BY <1>2 DEF BuildInit, Passed, Pending
  <1> QED
    BY <1>4, <1>5, <1>6 DEF IInv

\* Popping the next marking keeps the invariant.
LEMMA PopKeeps == IInv /\ Pop => IInv'
  <1> SUFFICES ASSUME IInv, Pop PROVE IInv'
    OBVIOUS
  <1> USE DEF IInv
  <1>1. Known' = Known /\ (\A m : Expanded(m)' = Expanded(m))
    BY DEF Pop, Known, Expanded
  <1>2. queue \in Seq(Known) /\ queue # <<>>
    BY DEF GraphTypeOK, Pop
  <1>3. Range(queue) = {at'} \cup Range(queue')
    BY <1>2, RangeHeadTail DEF Pop
  <1>4. at' \in Known /\ queue' \in Seq(Known)
    BY <1>2 DEF Pop
  <1>5. GraphTypeOK'
    BY <1>1, <1>4, DeclaredAssumption DEF GraphTypeOK, Pop
  <1>6. GraphExact'
    BY <1>1 DEF GraphExact, Pop
  <1>7. Passed'
    BY DEF Passed, Pop
  <1>8. Pending'
    BY <1>1, <1>3 DEF Pending, Pop
  <1> QED
    BY <1>5, <1>6, <1>7, <1>8

\* A firing looked at keeps the invariant.
LEMMA DiscoverKeeps ==
  ASSUME NEW i \in DOMAIN Declared PROVE IInv /\ Discover(i) => IInv'
  <1> SUFFICES ASSUME IInv, Discover(i) PROVE IInv'
    OBVIOUS
  <1> USE DEF IInv
  <1> DEFINE new == After(i)
             d == depth[at] + 1
             e == [from |-> at, tr |-> Declared[i], to |-> new]
  <1>1. /\ Declared[i] \in Transition /\ at \in Marking /\ new \in Marking
        /\ d \in Nat /\ Known \subseteq Marking
    BY AfterType
  <1>2. /\ pc = "expand" /\ i >= next /\ Enabled(job.net, Declared[i], at)
        /\ \A j \in next .. i - 1 : ~ Enabled(job.net, Declared[j], at)
        /\ new = Fire(job.net, Declared[i], at)
        /\ job' = job /\ at' = at /\ pc' = pc /\ truncated' = truncated
        /\ next' = i + 1 /\ edges' = Append(edges, e)
    BY DEF Discover, Reaches, After
  <1>3. /\ DOMAIN edges' = 1 .. Len(edges) + 1 /\ DOMAIN edges = 1 .. Len(edges)
        /\ Len(edges) \in Nat
        /\ \A k \in DOMAIN edges : edges'[k] = edges[k]
        /\ edges'[Len(edges) + 1] = e
    <2>1. edges \in Seq(Edge)
      BY DEF GraphTypeOK
    <2> HIDE DEF e
    <2> QED
      BY <1>2, <2>1, EdgesGrow
  <1>4. /\ Known' = Known \cup {new}
        /\ found' \in Seq(Marking)
        /\ queue' \in Seq(Known')
        /\ Range(queue) \subseteq Range(queue')
        /\ new \in Known \/ new \in Range(queue')
    <2>1. CASE new \in Known
      BY <2>1 DEF Discover, Known, GraphTypeOK
    <2>2. CASE new \notin Known
      <3>1. found' = Append(found, new) /\ queue' = Append(queue, new)
        BY <2>2 DEF Discover
      <3>2. found \in Seq(Marking) /\ queue \in Seq(Known)
        BY DEF GraphTypeOK
      <3>3. Known' = Known \cup {new} /\ Range(queue') = Range(queue) \cup {new}
        BY <3>1, <3>2, RangeAppend DEF Known
      <3>4. queue \in Seq(Known') /\ new \in Known'
        BY <3>2, <3>3
      <3>5. queue' \in Seq(Known') /\ found' \in Seq(Marking)
        BY <3>1, <3>2, <3>4, <1>1
      <3> QED
        BY <3>3, <3>5
    <2> QED
      BY <2>1, <2>2
  <1>5. /\ depth' \in [Known' -> Nat]
        /\ \A m \in Known : depth'[m] <= depth[m]
        /\ \A m \in Known' : depth'[m] = (IF m \in Known THEN depth[m] ELSE d)
                              \/ (m = new /\ depth'[m] = d /\ depth'[at] < depth'[m])
        /\ new \notin Known => depth'[at] < depth'[new]
    <2>0. depth \in [Known -> Nat] /\ at \in Known
      BY DEF GraphTypeOK
    <2>1. CASE new \in Known /\ d < depth[new]
      <3>1. depth' = [depth EXCEPT ![new] = d] /\ Known' = Known
        BY <2>1, <1>4 DEF Discover
      <3>2. new # at
        BY <2>0, <2>1
      <3> QED
        BY <1>1, <2>0, <2>1, <3>1, <3>2
    <2>2. CASE new \in Known /\ ~ (d < depth[new])
      <3>1. depth' = depth /\ Known' = Known
        BY <2>2, <1>4 DEF Discover
      <3> QED
        BY <1>1, <2>0, <2>2, <3>1
    <2>3. CASE new \notin Known
      <3>1. depth' = [m \in Known \cup {new} |-> IF m = new THEN d ELSE depth[m]]
        BY <2>3 DEF Discover
      <3> QED
        BY <1>1, <1>4, <2>0, <2>3, <3>1
    <2> QED
      BY <2>1, <2>2, <2>3
  <1>6. GraphTypeOK'
    <2>1. edges' \in Seq(Edge)
      <3>1. e \in Edge
        BY <1>1 DEF Edge
      <3> QED
        BY <1>2, <3>1 DEF GraphTypeOK
    <2>2. next' \in 1 .. Len(Declared) + 1
      BY <1>2, DeclaredAssumption
    <2> QED
      BY <1>2, <1>4, <1>5, <2>1, <2>2 DEF GraphTypeOK
  <1>7. \A m, t : HasEdge(m, t) => HasEdge(m, t)'
    BY <1>2, <1>3 DEF HasEdge
  <1>8. HasEdge(at, Declared[i])'
    <2>1. Len(edges) + 1 \in DOMAIN edges'
      BY <1>3
    <2> QED
      BY <1>2, <1>3, <2>1 DEF HasEdge
  <1>9. GraphExact'
    <2>1. job'.opening \in Known'
      BY <1>2, <1>4 DEF GraphExact
    <2>2. ASSUME NEW k \in DOMAIN edges'
          PROVE  /\ edges'[k].from \in Known' /\ edges'[k].to \in Known'
                 /\ Enabled(job.net, edges'[k].tr, edges'[k].from)
                 /\ edges'[k].to = Fire(job.net, edges'[k].tr, edges'[k].from)
      <3>1. CASE k \in DOMAIN edges
        BY <3>1, <1>3, <1>4 DEF GraphExact
      <3>2. CASE k = Len(edges) + 1
        BY <3>2, <1>2, <1>3, <1>4 DEF GraphTypeOK
      <3> QED
        BY <3>1, <3>2, <1>3
    <2>3. ASSUME NEW m \in Known' \ {job.opening}
          PROVE  \E k \in DOMAIN edges' : edges'[k].to = m /\ depth'[edges'[k].from] < depth'[m]
      <3>1. CASE m = new /\ depth'[at] < depth'[m]
        BY <3>1, <1>3
      <3>2. CASE m \in Known /\ depth'[m] = depth[m]
        <4>1. PICK k \in DOMAIN edges : edges[k].to = m /\ depth[edges[k].from] < depth[m]
          BY <3>2, <2>3 DEF GraphExact
        <4>2. edges[k].from \in Known
          BY DEF GraphExact
        <4>3. depth'[edges[k].from] <= depth[edges[k].from]
          BY <4>2, <1>5
        <4>4. /\ depth[edges[k].from] \in Nat /\ depth[m] \in Nat
              /\ depth'[edges[k].from] \in Nat /\ depth'[m] \in Nat
          BY <4>2, <3>2, <1>4, <1>5 DEF GraphTypeOK
        <4>5. depth'[edges[k].from] < depth'[m]
          BY <3>2, <4>1, <4>3, <4>4
        <4>6. k \in DOMAIN edges' /\ edges'[k] = edges[k]
          BY <1>3
        <4> QED
          BY <4>1, <4>5, <4>6
      <3> QED
        BY <3>1, <3>2, <1>4, <1>5
    <2> QED
      BY <2>1, <2>2, <2>3, <1>2 DEF GraphExact
  <1>10. Passed'
    <2>1. ASSUME NEW j \in 1 .. i, Enabled(job.net, Declared[j], at) PROVE HasEdge(at, Declared[j])'
      <3>1. CASE j < next
        BY <3>1, <2>1, <1>2, <1>7 DEF Passed, GraphTypeOK
      <3>2. CASE j >= next /\ j < i
        BY <3>2, <2>1, <1>2, DeclaredAssumption DEF GraphTypeOK
      <3>3. CASE j = i
        BY <3>3, <1>8
      <3> QED
        BY <3>1, <3>2, <3>3, DeclaredAssumption DEF GraphTypeOK
    <2> QED
      BY <2>1, <1>2, DeclaredAssumption DEF Passed
  <1>11. Pending'
    <2>1. ASSUME NEW m, Expanded(m) PROVE Expanded(m)'
      BY <2>1, <1>2, <1>7 DEF Expanded, HasEdge
    <2> QED
      BY <2>1, <1>2, <1>4 DEF Pending
  <1> QED
    BY <1>6, <1>9, <1>10, <1>11

\* Ending, by an empty queue or by the token limit, keeps the invariant.
LEMMA StopKeeps == IInv /\ (Finish \/ \E i \in DOMAIN Declared : Exceed(i)) => IInv'
  <1> SUFFICES ASSUME IInv, Finish \/ \E i \in DOMAIN Declared : Exceed(i) PROVE IInv'
    OBVIOUS
  <1> USE DEF IInv
  <1>1. /\ UNCHANGED <<job, found, edges, depth, queue, at, next>>
        /\ pc' = "built" /\ truncated' \in BOOLEAN
    <2>1. CASE Finish
      <3>1. (Len(found) >= job.states) \in BOOLEAN
        OBVIOUS
      <3> QED
        BY <2>1, <3>1, Zenon DEF Finish
    <2>2. CASE \E i \in DOMAIN Declared : Exceed(i)
      BY <2>2 DEF Exceed
    <2> QED
      BY <2>1, <2>2
  <1>2. Known' = Known /\ (\A m : Expanded(m)' = Expanded(m))
    BY <1>1 DEF Known, Expanded
  <1>3. GraphTypeOK'
    BY <1>1, <1>2 DEF GraphTypeOK
  <1>4. ~ truncated' => \A m \in Known : Expanded(m)
    <2>1. SUFFICES ASSUME ~ truncated' PROVE \A m \in Known : Expanded(m)
      OBVIOUS
    <2>2. Finish
      BY <2>1 DEF Exceed
    <2>3. pc = "pop" /\ queue = <<>>
      BY <2>1, <2>2 DEF Finish
    <2>4. Range(queue) = {}
      BY <2>3 DEF Range
    <2> QED
      BY <2>3, <2>4 DEF Pending
  <1>5. GraphExact'
    BY <1>1, <1>2, <1>4 DEF GraphExact
  <1>6. Passed' /\ Pending'
    BY <1>1 DEF Passed, Pending
  <1> QED
    BY <1>3, <1>5, <1>6

\* The end of an expansion keeps the invariant.
LEMMA EndExpandKeeps == IInv /\ EndExpand => IInv'
  <1> SUFFICES ASSUME IInv, EndExpand PROVE IInv'
    OBVIOUS
  <1> USE DEF IInv
  <1>1. /\ UNCHANGED <<job, found, edges, depth, queue, at, next, truncated>>
        /\ pc = "expand" /\ pc' = "pop"
    BY DEF EndExpand
  <1>2. Known' = Known /\ (\A m : Expanded(m)' = Expanded(m))
    BY <1>1 DEF Known, Expanded
  <1>3. GraphTypeOK'
    BY <1>1, <1>2 DEF GraphTypeOK
  <1>4. GraphExact'
    BY <1>1, <1>2 DEF GraphExact
  <1>5. Expanded(at)
    <2>1. SUFFICES ASSUME NEW t \in Transition, Enabled(job.net, t, at) PROVE HasEdge(at, t)
      BY DEF Expanded, HasEdge
    <2>2. PICK j \in DOMAIN Declared : Declared[j] = t
      BY DeclaredAssumption
    <2>3. j \in 1 .. next - 1
      <3>1. next \in Nat /\ Len(Declared) \in Nat /\ j \in 1 .. Len(Declared)
        BY DeclaredAssumption DEF GraphTypeOK
      <3>2. j \notin next .. Len(Declared)
        BY <2>1, <2>2 DEF EndExpand
      <3> QED
        BY <3>1, <3>2
    <2> QED
      BY <2>1, <2>2, <2>3, <1>1 DEF Passed
  <1>6. Pending'
    BY <1>1, <1>2, <1>5 DEF Pending
  <1>7. Passed'
    BY <1>1 DEF Passed
  <1> QED
    BY <1>3, <1>4, <1>6, <1>7

\* A step that changes nothing keeps the invariant.
LEMMA StutterKeeps == IInv /\ UNCHANGED graph => IInv'
  <1> SUFFICES ASSUME IInv, UNCHANGED graph PROVE IInv'
    OBVIOUS
  <1> USE DEF graph
  <1>1. Known' = Known /\ (\A m : Expanded(m)' = Expanded(m)) /\ (\A m, t : HasEdge(m, t)' = HasEdge(m, t))
    BY DEF Known, Expanded, HasEdge
  <1>2. GraphTypeOK' /\ GraphExact'
    BY <1>1 DEF IInv, GraphTypeOK, GraphExact
  <1>3. Passed' /\ Pending'
    BY <1>1 DEF IInv, Passed, Pending
  <1> QED
    BY <1>2, <1>3 DEF IInv

\* Every step keeps the invariant.
LEMMA NextIInv == IInv /\ [Build]_graph => IInv'
  BY PopKeeps, DiscoverKeeps, StopKeeps, EndExpandKeeps, StutterKeeps DEF Build

\* The invariant holds at every state of the search.
THEOREM Invariance == BuildSpec => []IInv
  BY InitIInv, NextIInv, PTL DEF BuildSpec

-----------------------------------------------------------------------------
(* What the graph is. *)

\* The state has its type.
THEOREM TypeCorrect == BuildSpec => []GraphTypeOK
  <1>1. IInv => GraphTypeOK
    BY DEF IInv
  <1> QED
    BY <1>1, Invariance, PTL

\* build_graph's graph is real, and whole when it is said to be.
THEOREM GraphIsExact == BuildSpec => []GraphExact
  <1>1. IInv => GraphExact
    BY DEF IInv
  <1> QED
    BY <1>1, Invariance, PTL

\* Holds the opening, and with a marking all that its firings lead to.
ClosedUnder(S) ==
  /\ job.opening \in S
  /\ \A m \in S : \A t \in Transition : Enabled(job.net, t, m) => Fire(job.net, t, m) \in S

\* A complete search (is_complete) has found the reachable markings, the least
\* set that is closed: nothing found lies outside any closed set, and what a
\* complete search found is closed.
THEOREM FindsTheReachable ==
  ASSUME NEW CONSTANT S
  PROVE  BuildSpec => []( /\ ClosedUnder(S) => Known \subseteq S
                          /\ pc = "built" /\ ~ truncated => ClosedUnder(Known) )
  <1> DEFINE Within == ClosedUnder(S) => Known \subseteq S
             Whole == pc = "built" /\ ~ truncated => ClosedUnder(Known)
  <1>1. BuildInit => Within
    BY DEF BuildInit, ClosedUnder, Known, Range
  <1>2. IInv /\ Within /\ [Build]_graph => Within'
    <2> SUFFICES ASSUME IInv, Within, [Build]_graph, ClosedUnder(S)' PROVE Known' \subseteq S
      OBVIOUS
    <2>1. job' = job
      BY DEF Build, Pop, Discover, Exceed, EndExpand, Finish, graph
    <2>2. Known \subseteq S
      BY <2>1 DEF ClosedUnder
    <2>3. CASE \E i \in DOMAIN Declared : Discover(i)
      <3>1. PICK i \in DOMAIN Declared : Discover(i)
        BY <2>3
      <3>2. /\ Declared[i] \in Transition /\ at \in Known /\ found \in Seq(Marking)
            /\ Enabled(job.net, Declared[i], at)
        BY <3>1, DeclaredAssumption DEF IInv, GraphTypeOK, Discover, Reaches
      <3>3. After(i) \in S
        BY <2>1, <2>2, <3>2 DEF ClosedUnder, After
      <3>4. Known' = Known \/ Known' = Known \cup {After(i)}
        <4>1. found' = found \/ found' = Append(found, After(i))
          BY <3>1 DEF Discover
        <4> QED
          BY <4>1, <3>2, RangeAppend DEF Known
      <3> QED
        BY <2>2, <3>3, <3>4
    <2>4. CASE found' = found
      BY <2>2, <2>4 DEF Known
    <2> QED
      BY <2>3, <2>4 DEF Build, Pop, Exceed, EndExpand, Finish, graph
  <1>3. IInv => Whole
    <2> SUFFICES ASSUME IInv, pc = "built", ~ truncated PROVE ClosedUnder(Known)
      OBVIOUS
    <2>1. job.opening \in Known /\ \A m \in Known : Expanded(m)
      BY DEF IInv, GraphExact
    <2>2. ASSUME NEW m \in Known, NEW t \in Transition, Enabled(job.net, t, m)
          PROVE  Fire(job.net, t, m) \in Known
      <3>1. PICK k \in DOMAIN edges : edges[k] = [from |-> m, tr |-> t, to |-> Fire(job.net, t, m)]
        BY <2>1, <2>2 DEF Expanded
      <3> QED
        BY <3>1 DEF IInv, GraphExact
    <2> QED
      BY <2>1, <2>2 DEF ClosedUnder
  <1> HIDE DEF Within, Whole
  <1>4. BuildSpec => [](Within /\ Whole)
    BY <1>1, <1>2, <1>3, Invariance, PTL DEF BuildSpec
  <1>5. Within /\ Whole => /\ ClosedUnder(S) => Known \subseteq S
                           /\ pc = "built" /\ ~ truncated => ClosedUnder(Known)
    BY DEF Within, Whole
  <1> QED
    BY <1>4, <1>5, PTL

-----------------------------------------------------------------------------
(* The state space: what Layers returns. *)

\* The functions from a finite set to a finite set are finitely many.
LEMMA FunctionsFinite ==
  ASSUME NEW D, IsFiniteSet(D), NEW C, IsFiniteSet(C)
  PROVE  IsFiniteSet([D -> C])
<1> DEFINE T == {t \in SUBSET D : IsFiniteSet([t -> C])}
<1>1. {} \in T
  <2>1. [{} -> C] \subseteq {[x \in {} |-> x]}
    OBVIOUS
  <2>2. IsFiniteSet({[x \in {} |-> x]})
    BY FS_Singleton
  <2> HIDE DEF T
  <2>3. IsFiniteSet([{} -> C])
    BY <2>1, <2>2, FS_Subset
  <2> QED BY <2>3 DEF T
<1>2. ASSUME NEW t \in SUBSET D, t # {}, \A x \in t : t \ {x} \in T PROVE t \in T
  <2>1. PICK x \in t : TRUE
    BY <1>2
  <2> DEFINE r == t \ {x}
             from == [r -> C] \X C
             f == [z \in from |-> [y \in t |-> IF y = x THEN z[2] ELSE z[1][y]]]
  <2>2. IsFiniteSet(from)
    BY <1>2, FS_Product
  <2>3. f \in [from -> [t -> C]]
    OBVIOUS
  <2>4. ASSUME NEW g \in [t -> C] PROVE \E z \in from : f[z] = g
    <3> DEFINE z == <<[y \in r |-> g[y]], g[x]>>
    <3>1. z \in from
      OBVIOUS
    <3>2. f[z] = g
      OBVIOUS
    <3> QED BY <3>1, <3>2
  <2> HIDE DEF f, from
  <2>5. f \in Surjection(from, [t -> C])
    BY <2>3, <2>4 DEF Surjection
  <2>6. IsFiniteSet([t -> C])
    BY <2>2, <2>5, FS_Surjection
  <2> QED BY <2>6
<1> HIDE DEF T
<1>3. D \in T
  BY <1>1, <1>2, PartsInduct
<1> QED BY <1>3 DEF T

\* There are finitely many markings.
LEMMA MarkingsFinite == IsFiniteSet(Marking)
  <1>1. IsFiniteSet(Count)
    <2>1. MinInt \in Int /\ MaxInt \in Int
      BY MaxIntAssumption DEF MinInt
    <2> QED BY <2>1, FS_Interval DEF Count
  <1> QED BY <1>1, NodeAssumption, FunctionsFinite DEF Marking

\* A position that is not the last has one after it.
LEMMA NotLast ==
  ASSUME NEW n \in Nat, NEW k \in 1 .. n, k # n
  PROVE  /\ k + 1 \in 2 .. n /\ k + 1 \in 1 .. n /\ (k + 1) - 1 = k
         /\ \A j \in 1 .. k : j \in 1 .. n
  OBVIOUS

\* What the last of the layers s leads to and none of them holds.
Beyond(s, after) == (UNION {after[x] : x \in s[Len(s)]}) \ UNION Range(s)

\* Layers of markings of X, none missing.
Layered(X) == Seq(SUBSET X) \ {<<>>}

\* The layers have the type their number says, and what comes after them.
LEMMA BeyondType ==
  ASSUME NEW X, NEW after \in [X -> SUBSET X], NEW s \in Layered(X)
  PROVE  /\ Len(s) \in Nat \ {0} /\ DOMAIN s = 1 .. Len(s)
         /\ s[Len(s)] \in SUBSET X /\ UNION Range(s) \in SUBSET X
         /\ Beyond(s, after) \in SUBSET X
         /\ Append(s, Beyond(s, after)) \in Layered(X)
         /\ Range(Append(s, Beyond(s, after))) = Range(s) \cup {Beyond(s, after)}
<1>1. s \in Seq(SUBSET X) /\ s # <<>>
  BY DEF Layered
<1>2. Len(s) \in Nat \ {0} /\ DOMAIN s = 1 .. Len(s) /\ s[Len(s)] \in SUBSET X
  BY <1>1
<1>3. \A i \in 1 .. Len(s) : s[i] \in SUBSET X
  BY <1>1
<1>4. UNION Range(s) \in SUBSET X
  BY <1>2, <1>3 DEF Range
<1>5. Beyond(s, after) \in SUBSET X
  BY <1>2 DEF Beyond
<1> DEFINE new == Beyond(s, after)
<1>6. new \in SUBSET X
  BY <1>5
<1> HIDE DEF new
<1>7. Append(s, new) \in Seq(SUBSET X) /\ Append(s, new) # <<>>
  BY <1>1, <1>6
<1>8. Range(Append(s, new)) = Range(s) \cup {new}
  <2>1. /\ DOMAIN Append(s, new) = 1 .. Len(s) + 1
        /\ \A i \in 1 .. Len(s) : Append(s, new)[i] = s[i]
        /\ Append(s, new)[Len(s) + 1] = new
    BY <1>1
  <2> QED BY <1>2, <2>1 DEF Range
<1> QED BY <1>2, <1>4, <1>6, <1>7, <1>8 DEF new, Layered

\* g goes on from each sequence of D until nothing is beyond it.
Grows(g, after, D) ==
  g = [s \in D |-> IF Beyond(s, after) = {} THEN s ELSE g[Append(s, Beyond(s, after))]]

\* Those that leave at most n of X to be reached.
Short(X, n) == {s \in Layered(X) : Cardinality(X \ UNION Range(s)) <= n}

\* A layer more leaves fewer to be reached.
LEMMA ShortStep ==
  ASSUME NEW X, IsFiniteSet(X), NEW after \in [X -> SUBSET X], NEW n \in Nat,
         NEW s \in Short(X, n), Beyond(s, after) # {}
  PROVE  /\ n # 0
         /\ Append(s, Beyond(s, after)) \in Short(X, n - 1)
<1> DEFINE new == Beyond(s, after)
           t == Append(s, new)
           A == X \ UNION Range(s)
           B == X \ UNION Range(t)
<1>0. s \in Layered(X)
  BY DEF Short
<1>1. new \in SUBSET X /\ t \in Layered(X) /\ Range(t) = Range(s) \cup {new}
  BY <1>0, BeyondType
<1>2. new \cap UNION Range(s) = {}
  <2>1. \A P, Q : (P \ Q) \cap Q = {}
    OBVIOUS
  <2> QED BY <2>1, Zenon DEF Beyond
<1>3. B \subseteq A /\ B # A
  BY <1>1, <1>2
<1>4. A \in SUBSET X /\ B \in SUBSET X
  OBVIOUS
<1>5. Cardinality(A) <= n
  BY DEF Short
<1> HIDE DEF A, B, t, new
<1>6. IsFiniteSet(A) /\ Cardinality(A) \in Nat /\ Cardinality(B) \in Nat
  BY <1>4, Parts
<1>7. Cardinality(B) <= Cardinality(A) /\ Cardinality(B) # Cardinality(A)
  BY <1>3, <1>6, FS_Subset
<1>8. n # 0 /\ Cardinality(B) <= n - 1
  BY <1>5, <1>6, <1>7
<1>9. t \in Short(X, n - 1)
  BY <1>1, <1>8 DEF Short, B
<1> QED BY <1>8, <1>9 DEF t, new

\* There is a function that grows layers.
LEMMA GrowsExists ==
  ASSUME NEW X, IsFiniteSet(X), NEW after \in [X -> SUBSET X]
  PROVE  \E g : Grows(g, after, Layered(X))
<1> DEFINE T == {n \in Nat : \E g : Grows(g, after, Short(X, n))}
<1>1. 0 \in T
  <2> DEFINE g == [s \in Short(X, 0) |-> s]
  <2>1. \A s \in Short(X, 0) : Beyond(s, after) = {}
    BY ShortStep
  <2>2. Grows(g, after, Short(X, 0))
    BY <2>1 DEF Grows
  <2> QED BY <2>2
<1>2. ASSUME NEW n \in T PROVE n + 1 \in T
  <2>1. PICK g : Grows(g, after, Short(X, n))
    OBVIOUS
  <2> DEFINE h == [s \in Short(X, n + 1) |-> IF Beyond(s, after) = {} THEN s ELSE g[Append(s, Beyond(s, after))]]
  <2>2. \A s \in Short(X, n) : g[s] = IF Beyond(s, after) = {} THEN s ELSE g[Append(s, Beyond(s, after))]
    BY <2>1 DEF Grows
  <2>3. Short(X, n) \subseteq Short(X, n + 1)
    <3> SUFFICES ASSUME NEW s \in Short(X, n) PROVE Cardinality(X \ UNION Range(s)) <= n + 1
      BY DEF Short
    <3>1. Cardinality(X \ UNION Range(s)) \in Nat
      BY Parts
    <3> QED BY <3>1 DEF Short
  <2>4. \A s \in Short(X, n) : g[s] = h[s]
    BY <2>2, <2>3
  <2>5. ASSUME NEW s \in Short(X, n + 1), Beyond(s, after) # {}
        PROVE  Append(s, Beyond(s, after)) \in Short(X, n)
    <3>1. Append(s, Beyond(s, after)) \in Short(X, (n + 1) - 1)
      BY <2>5, ShortStep
    <3> QED BY <3>1
  <2>6. h = [s \in Short(X, n + 1) |-> IF Beyond(s, after) = {} THEN s ELSE h[Append(s, Beyond(s, after))]]
    BY <2>4, <2>5
  <2>7. Grows(h, after, Short(X, n + 1))
    BY <2>6 DEF Grows
  <2> QED BY <2>7
<1>3. Cardinality(X) \in T
  <2> HIDE DEF T
  <2>1. T \in SUBSET Nat
    BY DEF T
  <2> QED BY <1>1, <1>2, <2>1, Induct, FS_CardinalityType
<1>4. Short(X, Cardinality(X)) = Layered(X)
  <2>1. \A s : X \ UNION Range(s) \in SUBSET X
    OBVIOUS
  <2> QED BY <2>1, Parts DEF Short
<1> QED BY <1>3, <1>4

\* From S: each layer is what the one before leads to and none before holds.
Fits(s, S, after) ==
  /\ s[1] = S
  /\ \A k \in 2 .. Len(s) : /\ s[k] = (UNION {after[x] : x \in s[k - 1]}) \ UNION {s[j] : j \in 1 .. k - 1}
                            /\ s[k] # {}

\* A layer more fits.
LEMMA FitsStep ==
  ASSUME NEW X, NEW after \in [X -> SUBSET X], NEW S \in SUBSET X,
         NEW s \in Layered(X), Fits(s, S, after), Beyond(s, after) # {}
  PROVE  Fits(Append(s, Beyond(s, after)), S, after)
<1> DEFINE new == Beyond(s, after)
           t == Append(s, new)
           n == Len(s)
<1>1. n \in Nat \ {0} /\ DOMAIN s = 1 .. n /\ s \in Seq(SUBSET X)
  BY BeyondType DEF Layered
<1>2. Len(t) = n + 1 /\ (\A i \in 1 .. n : t[i] = s[i]) /\ t[n + 1] = new
  BY <1>1
<1>3. new = (UNION {after[x] : x \in s[n]}) \ UNION {s[j] : j \in 1 .. n}
  BY <1>1 DEF Beyond, Range
<1> HIDE DEF t, n, new
<1>4. t[1] = S
  BY <1>1, <1>2 DEF Fits
<1>5. ASSUME NEW k \in 2 .. Len(t)
      PROVE  /\ t[k] = (UNION {after[x] : x \in t[k - 1]}) \ UNION {t[j] : j \in 1 .. k - 1}
             /\ t[k] # {}
  <2>1. k - 1 \in 1 .. n /\ \A j \in 1 .. k - 1 : j \in 1 .. n
    BY <1>1, <1>2
  <2>2. t[k - 1] = s[k - 1] /\ UNION {t[j] : j \in 1 .. k - 1} = UNION {s[j] : j \in 1 .. k - 1}
    BY <1>2, <2>1
  <2>3. CASE k = n + 1
    <3>1. k - 1 = n
      BY <1>1, <2>3
    <3> QED BY <1>2, <1>3, <2>2, <2>3, <3>1 DEF new
  <2>4. CASE k # n + 1
    <3>1. k \in 2 .. n /\ k \in 1 .. n
      BY <1>1, <1>2, <2>4
    <3>2. t[k] = s[k]
      BY <1>2, <3>1
    <3> QED BY <2>2, <3>1, <3>2 DEF Fits, n
  <2> QED BY <2>3, <2>4
<1> QED BY <1>4, <1>5 DEF Fits, t, new

\* The layers fit, and nothing is beyond them.
LEMMA LayersFit ==
  ASSUME NEW X, IsFiniteSet(X), NEW after \in [X -> SUBSET X], NEW S \in SUBSET X
  PROVE  /\ Layers(S, after) \in Layered(X)
         /\ Fits(Layers(S, after), S, after)
         /\ Beyond(Layers(S, after), after) = {}
<1> DEFINE it == CHOOSE g : g = [s \in Seq(SUBSET DOMAIN after) \ {<<>>} |->
                   LET new == (UNION {after[x] : x \in s[Len(s)]}) \ UNION Range(s)
                   IN  IF new = {} THEN s ELSE g[Append(s, new)]]
<1>1. Layers(S, after) = it[<<S>>]
  BY DEF Layers
<1>2. \E g : g = [s \in Seq(SUBSET DOMAIN after) \ {<<>>} |->
                   LET new == (UNION {after[x] : x \in s[Len(s)]}) \ UNION Range(s)
                   IN  IF new = {} THEN s ELSE g[Append(s, new)]]
  <2>1. PICK g : Grows(g, after, Layered(X))
    BY GrowsExists
  <2>2. g = [s \in Seq(SUBSET DOMAIN after) \ {<<>>} |->
                   LET new == (UNION {after[x] : x \in s[Len(s)]}) \ UNION Range(s)
                   IN  IF new = {} THEN s ELSE g[Append(s, new)]]
    BY <2>1 DEF Grows, Layered, Beyond
  <2> QED BY <2>2
<1>3. it = [s \in Seq(SUBSET DOMAIN after) \ {<<>>} |->
                   LET new == (UNION {after[x] : x \in s[Len(s)]}) \ UNION Range(s)
                   IN  IF new = {} THEN s ELSE it[Append(s, new)]]
  BY <1>2
<1>4. Grows(it, after, Layered(X))
  BY <1>3 DEF Grows, Layered, Beyond
<1> HIDE DEF it
<1> DEFINE Closing(r) == r \in Layered(X) /\ Fits(r, S, after) /\ Beyond(r, after) = {}
           T == {n \in Nat : \A s \in Short(X, n) : Fits(s, S, after) => Closing(it[s])}
<1>5. ASSUME NEW s \in Layered(X), Beyond(s, after) = {}, Fits(s, S, after)
      PROVE  Closing(it[s])
  BY <1>4, <1>5 DEF Grows
<1>6. 0 \in T
  <2>1. \A s \in Short(X, 0) : Beyond(s, after) = {} /\ s \in Layered(X)
    BY ShortStep DEF Short
  <2> QED BY <1>5, <2>1
<1>7. ASSUME NEW n \in T PROVE n + 1 \in T
  <2> SUFFICES ASSUME NEW s \in Short(X, n + 1), Fits(s, S, after) PROVE Closing(it[s])
    OBVIOUS
  <2>1. s \in Layered(X)
    BY DEF Short
  <2>2. CASE Beyond(s, after) = {}
    BY <1>5, <2>1, <2>2
  <2>3. CASE Beyond(s, after) # {}
    <3> DEFINE t == Append(s, Beyond(s, after))
    <3>1. t \in Short(X, (n + 1) - 1)
      BY <2>3, ShortStep
    <3>2. t \in Short(X, n)
      BY <3>1
    <3>3. Fits(t, S, after)
      BY <2>1, <2>3, FitsStep
    <3>4. it[s] = it[t]
      BY <1>4, <2>1, <2>3 DEF Grows
    <3>5. Closing(it[t])
      BY <3>2, <3>3
    <3> QED BY <3>4, <3>5
  <2> QED BY <2>2, <2>3
<1>8. Cardinality(X) \in T
  <2> HIDE DEF T
  <2>1. T \in SUBSET Nat
    BY DEF T
  <2> QED BY <1>6, <1>7, <2>1, Induct, FS_CardinalityType
<1>9. <<S>> \in Layered(X) /\ Fits(<<S>>, S, after)
  BY DEF Layered, Fits
<1>10. <<S>> \in Short(X, Cardinality(X))
  <2>1. X \ UNION Range(<<S>>) \in SUBSET X
    OBVIOUS
  <2> QED BY <1>9, <2>1, Parts DEF Short
<1>11. Closing(it[<<S>>])
  BY <1>8, <1>9, <1>10
<1> QED BY <1>1, <1>11

\* All that after leads to from S.
Onto(S, after) == UNION Range(Layers(S, after))

\* What is in C stays in it.
Shut(C, after) == \A x \in C : after[x] \subseteq C

\* The layers hold S and what it leads to, and no more: they are the least set
\* that holds S and is shut.
LEMMA OntoLeast ==
  ASSUME NEW X, IsFiniteSet(X), NEW after \in [X -> SUBSET X], NEW S \in SUBSET X
  PROVE  /\ Onto(S, after) \in SUBSET X
         /\ S \subseteq Onto(S, after)
         /\ Shut(Onto(S, after), after)
         /\ \A C \in SUBSET X : S \subseteq C /\ Shut(C, after) => Onto(S, after) \subseteq C
<1> DEFINE r == Layers(S, after)
           all == UNION Range(r)
<1>1. r \in Layered(X) /\ Fits(r, S, after) /\ Beyond(r, after) = {}
  BY LayersFit
<1> HIDE DEF r
<1>2. /\ Len(r) \in Nat \ {0} /\ DOMAIN r = 1 .. Len(r) /\ all \in SUBSET X
      /\ \A k \in 1 .. Len(r) : r[k] \in SUBSET X
  <2>1. r \in Seq(SUBSET X)
    BY <1>1 DEF Layered
  <2>2. \A k \in 1 .. Len(r) : r[k] \in SUBSET X
    BY <2>1
  <2>3. Len(r) \in Nat \ {0} /\ DOMAIN r = 1 .. Len(r) /\ all \in SUBSET X
    BY <1>1, BeyondType
  <2> QED BY <2>2, <2>3
<1>3. all = UNION {r[k] : k \in 1 .. Len(r)}
  BY <1>2 DEF Range
<1>4. S \subseteq all
  <2>1. r[1] = S /\ 1 \in 1 .. Len(r)
    BY <1>1, <1>2 DEF Fits
  <2> QED BY <1>3, <2>1
<1>5. ASSUME NEW x \in all PROVE after[x] \subseteq all
  <2>1. PICK k \in 1 .. Len(r) : x \in r[k]
    BY <1>3
  <2>2. CASE k = Len(r)
    <3>1. after[x] \subseteq UNION {after[y] : y \in r[Len(r)]}
      BY <2>1, <2>2
    <3>2. \A P, Q, R : (P \ Q) = {} /\ R \subseteq P => R \subseteq Q
      OBVIOUS
    <3>3. (UNION {after[y] : y \in r[Len(r)]}) \ UNION Range(r) = {}
      BY <1>1 DEF Beyond
    <3> QED BY <3>1, <3>2, <3>3, Zenon
  <2>3. CASE k # Len(r)
    <3>1. k + 1 \in 2 .. Len(r) /\ k + 1 \in 1 .. Len(r) /\ (k + 1) - 1 = k
          /\ \A j \in 1 .. k : j \in 1 .. Len(r)
      BY <1>2, <2>3, NotLast
    <3> DEFINE l == k + 1
    <3>2. r[l] = (UNION {after[y] : y \in r[l - 1]}) \ UNION {r[j] : j \in 1 .. l - 1}
      BY <1>1, <3>1 DEF Fits
    <3>3. r[l] = (UNION {after[y] : y \in r[k]}) \ UNION {r[j] : j \in 1 .. k}
      BY <3>1, <3>2
    <3>4. UNION {r[j] : j \in 1 .. k} \subseteq all
      BY <1>3, <3>1
    <3>5. r[l] \subseteq all
      BY <1>3, <3>1
    <3>6. after[x] \subseteq UNION {after[y] : y \in r[k]}
      BY <2>1
    <3> HIDE DEF l
    <3>7. \A P, Q, R, A, B : R = P \ Q /\ Q \subseteq A /\ R \subseteq A /\ B \subseteq P => B \subseteq A
      OBVIOUS
    <3> QED BY <3>3, <3>4, <3>5, <3>6, <3>7, Zenon
  <2> QED BY <2>2, <2>3
<1>6. ASSUME NEW C \in SUBSET X, S \subseteq C, Shut(C, after)
      PROVE  all \subseteq C
  <2> DEFINE T == {n \in Nat : n \in 1 .. Len(r) => r[n] \subseteq C}
  <2>1. 0 \in T
    OBVIOUS
  <2>2. ASSUME NEW n \in T PROVE n + 1 \in T
    <3> SUFFICES ASSUME n + 1 \in 1 .. Len(r) PROVE r[n + 1] \subseteq C
      OBVIOUS
    <3>1. CASE n = 0
      BY <1>1, <1>6, <3>1 DEF Fits
    <3>2. CASE n # 0
      <4>1. n \in 1 .. Len(r) /\ n + 1 \in 2 .. Len(r) /\ (n + 1) - 1 = n
        BY <1>2, <3>2
      <4>2. r[n] \subseteq C
        BY <4>1
      <4>3. r[n + 1] = (UNION {after[y] : y \in r[(n + 1) - 1]}) \ UNION {r[j] : j \in 1 .. (n + 1) - 1}
        BY <1>1, <4>1 DEF Fits
      <4>4. UNION {after[y] : y \in r[(n + 1) - 1]} \subseteq C
        BY <1>6, <4>1, <4>2 DEF Shut
      <4> QED BY <4>3, <4>4
    <3> QED BY <3>1, <3>2
  <2> HIDE DEF T
  <2>3. T = Nat
    <3>1. T \in SUBSET Nat
      BY DEF T
    <3> QED BY <2>1, <2>2, <3>1, Induct
  <2>4. \A k \in 1 .. Len(r) : r[k] \subseteq C
    BY <1>2, <2>3 DEF T
  <2> QED BY <1>3, <2>4
<1>7. Onto(S, after) = all
  BY DEF Onto, r
<1> HIDE DEF all
<1>8. Shut(all, after)
  BY <1>5 DEF Shut
<1>9. \A C \in SUBSET X : S \subseteq C /\ Shut(C, after) => all \subseteq C
  BY <1>6
<1>10. all \in SUBSET X
  BY <1>2
<1> QED BY <1>4, <1>7, <1>8, <1>9, <1>10

\* The layer a marking is in.
LayerOf(S, after) == [m \in Onto(S, after) |-> CHOOSE k \in DOMAIN Layers(S, after) : m \in Layers(S, after)[k]]

\* The number of its layer is one more than how many moves lead to a marking:
\* S is the first; the next is reached from one of the layer before, and a move
\* leads to the next layer or one before it.
LEMMA LayerIs ==
  ASSUME NEW X, IsFiniteSet(X), NEW after \in [X -> SUBSET X], NEW S \in SUBSET X
  PROVE  \A m \in Onto(S, after) :
           /\ LayerOf(S, after)[m] \in Nat \ {0}
           /\ LayerOf(S, after)[m] = 1 <=> m \in S
           /\ LayerOf(S, after)[m] # 1 =>
                \E u \in Onto(S, after) : m \in after[u] /\ LayerOf(S, after)[u] = LayerOf(S, after)[m] - 1
           /\ \A w \in after[m] : w \in Onto(S, after) /\ LayerOf(S, after)[w] <= LayerOf(S, after)[m] + 1
<1> DEFINE r == Layers(S, after)
           all == Onto(S, after)
           L == LayerOf(S, after)
<1>1. r \in Layered(X) /\ Fits(r, S, after) /\ Beyond(r, after) = {}
  BY LayersFit
<1>2. all = UNION Range(r)
  BY DEF Onto
<1>3. L = [m \in all |-> CHOOSE k \in DOMAIN r : m \in r[k]]
  BY DEF LayerOf
<1>4. Shut(all, after) /\ S \subseteq all /\ all \in SUBSET X
  BY OntoLeast
<1> HIDE DEF r, all, L
<1>5. Len(r) \in Nat \ {0} /\ DOMAIN r = 1 .. Len(r)
  BY <1>1, BeyondType
<1>6. ASSUME NEW i \in 1 .. Len(r), NEW j \in 1 .. Len(r), i < j
      PROVE  r[i] \cap r[j] = {}
  <2>1. j \in 2 .. Len(r) /\ i \in 1 .. j - 1
    BY <1>5, <1>6
  <2>2. r[j] = (UNION {after[x] : x \in r[j - 1]}) \ UNION {r[h] : h \in 1 .. j - 1}
    BY <1>1, <2>1 DEF Fits
  <2>3. r[i] \subseteq UNION {r[h] : h \in 1 .. j - 1}
    BY <2>1
  <2>4. \A P, Q, A, B : A = P \ Q /\ B \subseteq Q => B \cap A = {}
    OBVIOUS
  <2> QED BY <2>2, <2>3, <2>4, Zenon
<1>7. \A i, j \in 1 .. Len(r) : \A m : m \in r[i] /\ m \in r[j] => i = j
  <2> SUFFICES ASSUME NEW i \in 1 .. Len(r), NEW j \in 1 .. Len(r), NEW m, m \in r[i], m \in r[j], i # j
               PROVE  FALSE
    OBVIOUS
  <2>1. i < j \/ j < i
    BY <1>5
  <2> QED BY <1>6, <2>1
<1>8. \A m \in all : L[m] \in 1 .. Len(r) /\ m \in r[L[m]]
  <2> SUFFICES ASSUME NEW m \in all PROVE L[m] \in 1 .. Len(r) /\ m \in r[L[m]]
    OBVIOUS
  <2>1. \E k \in DOMAIN r : m \in r[k]
    BY <1>2 DEF Range
  <2> QED BY <1>3, <1>5, <2>1
<1>9. \A k \in 1 .. Len(r) : \A m \in r[k] : m \in all /\ L[m] = k
  <2> SUFFICES ASSUME NEW k \in 1 .. Len(r), NEW m \in r[k] PROVE m \in all /\ L[m] = k
    OBVIOUS
  <2>1. m \in all
    BY <1>2, <1>5 DEF Range
  <2> QED BY <1>7, <1>8, <2>1
<1>10. SUFFICES ASSUME NEW m \in all
       PROVE  /\ L[m] \in Nat \ {0}
              /\ L[m] = 1 <=> m \in S
              /\ L[m] # 1 => \E u \in all : m \in after[u] /\ L[u] = L[m] - 1
              /\ \A w \in after[m] : w \in all /\ L[w] <= L[m] + 1
  BY DEF all, L
<1>11. L[m] \in Nat \ {0}
  BY <1>5, <1>8
<1>12. L[m] = 1 <=> m \in S
  <2>1. r[1] = S /\ 1 \in 1 .. Len(r)
    BY <1>1, <1>5 DEF Fits
  <2> QED BY <1>8, <1>9, <2>1
<1>13. ASSUME L[m] # 1 PROVE \E u \in all : m \in after[u] /\ L[u] = L[m] - 1
  <2>1. PICK k : k = L[m]
    OBVIOUS
  <2>2. k \in 2 .. Len(r) /\ k - 1 \in 1 .. Len(r) /\ m \in r[k]
    BY <1>5, <1>8, <1>13, <2>1
  <2>3. r[k] = (UNION {after[x] : x \in r[k - 1]}) \ UNION {r[h] : h \in 1 .. k - 1}
    BY <1>1, <2>2 DEF Fits
  <2>4. m \in UNION {after[x] : x \in r[k - 1]}
    <3>1. \A P, Q : m \in P \ Q => m \in P
      OBVIOUS
    <3> QED BY <2>2, <2>3, <3>1, Zenon
  <2>5. PICK u \in r[k - 1] : m \in after[u]
    BY <2>4
  <2>6. u \in all /\ L[u] = k - 1
    BY <1>9, <2>2, <2>5
  <2> QED BY <2>1, <2>5, <2>6
<1>14. ASSUME NEW w \in after[m] PROVE w \in all /\ L[w] <= L[m] + 1
  <2>1. w \in all
    BY <1>4 DEF Shut
  <2>2. PICK k : k = L[m]
    OBVIOUS
  <2>3. k \in 1 .. Len(r) /\ m \in r[k] /\ L[w] \in 1 .. Len(r) /\ w \in r[L[w]]
    BY <1>8, <2>1, <2>2
  <2>4. CASE k = Len(r)
    BY <1>5, <2>1, <2>2, <2>3, <2>4
  <2>5. CASE k # Len(r)
    <3>1. k + 1 \in 2 .. Len(r) /\ k + 1 \in 1 .. Len(r) /\ (k + 1) - 1 = k
          /\ \A j \in 1 .. k : j \in 1 .. Len(r)
      BY <1>5, <2>3, <2>5, NotLast
    <3> DEFINE l == k + 1
    <3>2. r[l] = (UNION {after[y] : y \in r[l - 1]}) \ UNION {r[j] : j \in 1 .. l - 1}
      BY <1>1, <3>1 DEF Fits
    <3>3. r[l] = (UNION {after[y] : y \in r[k]}) \ UNION {r[j] : j \in 1 .. k}
      BY <3>1, <3>2
    <3>4. w \in UNION {after[y] : y \in r[k]}
      BY <2>3
    <3>5. w \in r[l] \/ w \in UNION {r[j] : j \in 1 .. k}
      <4> HIDE DEF l
      <4>1. \A P, Q, R : R = P \ Q /\ w \in P => w \in R \/ w \in Q
        OBVIOUS
      <4> QED BY <3>3, <3>4, <4>1, Zenon
    <3>6. CASE w \in r[l]
      BY <1>9, <2>2, <3>1, <3>6
    <3>7. CASE w \in UNION {r[j] : j \in 1 .. k}
      <4>1. PICK j \in 1 .. k : w \in r[j]
        BY <3>7
      <4>2. L[w] = j
        BY <1>9, <3>1, <4>1
      <4> QED BY <2>1, <2>2, <2>3, <4>2
    <3> QED BY <3>5, <3>6, <3>7
  <2> QED BY <2>4, <2>5
<1> QED BY <1>11, <1>12, <1>13, <1>14

\* A firing leads from marking to marking.
LEMMA OnwardType ==
  ASSUME NEW n \in Nets
  PROVE  /\ Onward(n) \in [Marking -> SUBSET Marking]
         /\ \A m \in Marking : \A w : w \in Onward(n)[m] <=> \E t \in Transition : Enabled(n, t, m) /\ w = Fire(n, t, m)
<1>1. \A m \in Marking, t \in Transition : Fire(n, t, m) \in Marking
  BY FireType
<1> QED BY <1>1 DEF Onward

\* What is shut under the firings of a net.
Closure(n, C) == \A m \in C : \A t \in Transition : Enabled(n, t, m) => Fire(n, t, m) \in C

\* The reachable markings are the least set that holds the opening and is
\* closed, the future of one the least that holds it; the moves are the firings
\* at reachable markings.
LEMMA SpaceIs ==
  ASSUME NEW n \in Nets, NEW o \in Marking
  PROVE  /\ Reachable(Space(n, o)) \in SUBSET Marking
         /\ o \in Reachable(Space(n, o)) /\ Closure(n, Reachable(Space(n, o)))
         /\ \A C \in SUBSET Marking : o \in C /\ Closure(n, C) => Reachable(Space(n, o)) \subseteq C
         /\ \A m \in Reachable(Space(n, o)) :
              /\ m \in Space(n, o).future[m] /\ Closure(n, Space(n, o).future[m])
              /\ Space(n, o).future[m] \subseteq Reachable(Space(n, o))
              /\ \A C \in SUBSET Marking : m \in C /\ Closure(n, C) => Space(n, o).future[m] \subseteq C
         /\ \A x : x \in Space(n, o).moves <=>
              \E m \in Reachable(Space(n, o)), t \in Transition :
                Enabled(n, t, m) /\ x = [from |-> m, tr |-> t, to |-> Fire(n, t, m)]
<1> DEFINE s == Space(n, o)
           R == Onto({o}, Onward(n))
<1>1. /\ Reachable(s) = R
      /\ s.moves = Moves(n, R)
      /\ s.future = [m \in R |-> Onto({m}, Onward(n))]
  BY DEF Space, Reachable, Onto
<1>2. Onward(n) \in [Marking -> SUBSET Marking] /\ IsFiniteSet(Marking)
  BY OnwardType, MarkingsFinite
<1>3. ASSUME NEW C \in SUBSET Marking
      PROVE  Shut(C, Onward(n)) <=> Closure(n, C)
  BY OnwardType DEF Shut, Closure
<1> HIDE DEF s
<1>4. ASSUME NEW m \in Marking
      PROVE  /\ Onto({m}, Onward(n)) \in SUBSET Marking
             /\ m \in Onto({m}, Onward(n)) /\ Closure(n, Onto({m}, Onward(n)))
             /\ \A C \in SUBSET Marking : m \in C /\ Closure(n, C) => Onto({m}, Onward(n)) \subseteq C
  <2> DEFINE S == {m}  W == Onto(S, Onward(n))
  <2>0. S \in SUBSET Marking
    OBVIOUS
  <2>1. /\ W \in SUBSET Marking /\ S \subseteq W /\ Shut(W, Onward(n))
        /\ \A C \in SUBSET Marking : S \subseteq C /\ Shut(C, Onward(n)) => W \subseteq C
    <3> HIDE DEF S
    <3> QED BY <1>2, <2>0, OntoLeast
  <2> HIDE DEF W
  <2>2. \A C \in SUBSET Marking : m \in C /\ Closure(n, C) => W \subseteq C
    BY <1>3, <2>1
  <2>3. Closure(n, W)
    BY <1>3, <2>1
  <2> QED BY <2>1, <2>2, <2>3 DEF W
<1> HIDE DEF R
<1>5. /\ R \in SUBSET Marking /\ o \in R /\ Closure(n, R)
      /\ \A C \in SUBSET Marking : o \in C /\ Closure(n, C) => R \subseteq C
  BY <1>4 DEF R
<1>6. ASSUME NEW m \in R
      PROVE  /\ s.future[m] = Onto({m}, Onward(n))
             /\ m \in Marking
  BY <1>1, <1>5
<1>7. ASSUME NEW m \in R
      PROVE  /\ m \in s.future[m] /\ Closure(n, s.future[m])
             /\ s.future[m] \subseteq R
             /\ \A C \in SUBSET Marking : m \in C /\ Closure(n, C) => s.future[m] \subseteq C
  <2> DEFINE F == Onto({m}, Onward(n))
  <2>1. s.future[m] = F
    BY <1>6
  <2>2. /\ m \in F /\ Closure(n, F)
        /\ \A C \in SUBSET Marking : m \in C /\ Closure(n, C) => F \subseteq C
    BY <1>4, <1>6
  <2> HIDE DEF F
  <2>3. F \subseteq R
    BY <1>5, <2>2
  <2> QED BY <2>1, <2>2, <2>3
<1>8. \A x : x \in Moves(n, R) <=>
        \E m \in R, t \in Transition : Enabled(n, t, m) /\ x = [from |-> m, tr |-> t, to |-> Fire(n, t, m)]
  <2> SUFFICES ASSUME NEW x
               PROVE  x \in Moves(n, R) <=>
                        \E m \in R, t \in Transition : Enabled(n, t, m) /\ x = [from |-> m, tr |-> t, to |-> Fire(n, t, m)]
    OBVIOUS
  <2>1. ASSUME NEW m \in R, NEW t \in Transition, Enabled(n, t, m), x = [from |-> m, tr |-> t, to |-> Fire(n, t, m)]
        PROVE  x \in Moves(n, R)
    <3> DEFINE y == <<m, t>>
    <3>1. y \in {z \in R \X Transition : Enabled(n, z[2], z[1])}
      BY <2>1
    <3>2. x = [from |-> y[1], tr |-> y[2], to |-> Fire(n, y[2], y[1])]
      BY <2>1
    <3> HIDE DEF y
    <3> QED BY <3>1, <3>2 DEF Moves
  <2>2. ASSUME x \in Moves(n, R)
        PROVE  \E m \in R, t \in Transition : Enabled(n, t, m) /\ x = [from |-> m, tr |-> t, to |-> Fire(n, t, m)]
    <3>1. PICK y \in {z \in R \X Transition : Enabled(n, z[2], z[1])} :
                 x = [from |-> y[1], tr |-> y[2], to |-> Fire(n, y[2], y[1])]
      BY <2>2 DEF Moves
    <3>2. y[1] \in R /\ y[2] \in Transition /\ Enabled(n, y[2], y[1])
      OBVIOUS
    <3> QED BY <3>1, <3>2
  <2> QED BY <2>1, <2>2
<1>9. \A x : x \in s.moves <=>
        \E m \in R, t \in Transition : Enabled(n, t, m) /\ x = [from |-> m, tr |-> t, to |-> Fire(n, t, m)]
  BY <1>1, <1>8
<1>10. R = Reachable(s)
  BY <1>1
<1>11. /\ Reachable(s) \in SUBSET Marking /\ o \in Reachable(s) /\ Closure(n, Reachable(s))
       /\ \A C \in SUBSET Marking : o \in C /\ Closure(n, C) => Reachable(s) \subseteq C
       /\ \A m \in Reachable(s) :
            /\ m \in s.future[m] /\ Closure(n, s.future[m]) /\ s.future[m] \subseteq Reachable(s)
            /\ \A C \in SUBSET Marking : m \in C /\ Closure(n, C) => s.future[m] \subseteq C
  BY <1>5, <1>7, <1>10, Zenon
<1>12. \A x : x \in s.moves <=>
        \E m \in Reachable(s), t \in Transition : Enabled(n, t, m) /\ x = [from |-> m, tr |-> t, to |-> Fire(n, t, m)]
  BY <1>9, <1>10, Zenon
<1> QED BY <1>11, <1>12, Zenon DEF s

\* The distance of a marking: none for the opening, one more than that of some
\* marking a firing leads from, and no firing leads further.
LEMMA DistanceIs ==
  ASSUME NEW n \in Nets, NEW o \in Marking
  PROVE  \A m \in Reachable(Space(n, o)) :
           /\ Space(n, o).dist[m] \in Nat
           /\ Space(n, o).dist[m] = 0 <=> m = o
           /\ m # o => \E u \in Reachable(Space(n, o)), t \in Transition :
                         Enabled(n, t, u) /\ m = Fire(n, t, u) /\ Space(n, o).dist[u] = Space(n, o).dist[m] - 1
           /\ \A t \in Transition : Enabled(n, t, m) =>
                Space(n, o).dist[Fire(n, t, m)] <= Space(n, o).dist[m] + 1
<1> DEFINE s == Space(n, o)
           A == Onward(n)
           O == {o}
           R == Onto(O, A)
           L == LayerOf(O, A)
<1>1. Reachable(s) = R /\ \A m \in R : s.dist[m] = L[m] - 1
  <2> DEFINE r == Layers(O, A)
             K(m) == CHOOSE k \in DOMAIN r : m \in r[k]
  <2>1. s.dist = [m \in UNION Range(r) |-> K(m) - 1]
    BY DEF Space
  <2>2. R = UNION Range(r)
    BY DEF Onto
  <2>3. L = [m \in R |-> K(m)]
    BY DEF LayerOf
  <2> HIDE DEF R, L, s, K, r
  <2> QED BY <2>1, <2>2, <2>3 DEF Reachable
<1>2. A \in [Marking -> SUBSET Marking] /\ IsFiniteSet(Marking) /\ O \in SUBSET Marking
  BY OnwardType, MarkingsFinite
<1>3. /\ R \in SUBSET Marking
      /\ \A m \in Marking : \A w : w \in A[m] <=> \E t \in Transition : Enabled(n, t, m) /\ w = Fire(n, t, m)
  <2>1. R \in SUBSET Marking
    <3> HIDE DEF A, O
    <3> QED BY <1>2, OntoLeast
  <2> QED BY <2>1, OnwardType
<1>4. \A m \in R : /\ L[m] \in Nat \ {0}
                   /\ L[m] = 1 <=> m \in O
                   /\ L[m] # 1 => \E u \in R : m \in A[u] /\ L[u] = L[m] - 1
                   /\ \A w \in A[m] : w \in R /\ L[w] <= L[m] + 1
  <2> HIDE DEF A, O
  <2> QED BY <1>2, LayerIs
<1>5. \A m \in R : m \in O <=> m = o
  OBVIOUS
<1> HIDE DEF s, A, O, R, L
<1>6. SUFFICES ASSUME NEW m \in R
       PROVE  /\ s.dist[m] \in Nat
              /\ s.dist[m] = 0 <=> m = o
              /\ m # o => \E u \in R, t \in Transition :
                            Enabled(n, t, u) /\ m = Fire(n, t, u) /\ s.dist[u] = s.dist[m] - 1
              /\ \A t \in Transition : Enabled(n, t, m) => s.dist[Fire(n, t, m)] <= s.dist[m] + 1
  BY <1>1 DEF s
<1>7. \A u \in R : s.dist[u] = L[u] - 1 /\ L[u] \in Nat \ {0} /\ u \in Marking
  BY <1>1, <1>3, <1>4
<1>8. ASSUME m # o
      PROVE  \E u \in R, t \in Transition :
               Enabled(n, t, u) /\ m = Fire(n, t, u) /\ s.dist[u] = s.dist[m] - 1
  <2>1. PICK u \in R : m \in A[u] /\ L[u] = L[m] - 1
    BY <1>4, <1>5, <1>8
  <2>2. PICK t \in Transition : Enabled(n, t, u) /\ m = Fire(n, t, u)
    BY <1>3, <1>7, <2>1
  <2>3. s.dist[u] = s.dist[m] - 1
    BY <1>7, <2>1
  <2> QED BY <2>2, <2>3
<1>9. ASSUME NEW t \in Transition, Enabled(n, t, m)
      PROVE  s.dist[Fire(n, t, m)] <= s.dist[m] + 1
  <2>1. Fire(n, t, m) \in A[m]
    BY <1>3, <1>7, <1>9
  <2>2. Fire(n, t, m) \in R /\ L[Fire(n, t, m)] <= L[m] + 1
    BY <1>4, <2>1
  <2> DEFINE w == Fire(n, t, m)
  <2> HIDE DEF w
  <2>3. w \in R /\ L[w] <= L[m] + 1
    BY <2>2 DEF w
  <2>4. s.dist[w] <= s.dist[m] + 1
    BY <1>7, <2>3
  <2> QED BY <2>4 DEF w
<1>10. s.dist[m] \in Nat /\ (s.dist[m] = 0 <=> m = o)
  BY <1>4, <1>5, <1>7
<1> QED BY <1>8, <1>9, <1>10

-----------------------------------------------------------------------------
(* Tarjan's algorithm.  A state of it is a record here, so that the state *)
(* half way through a step, with its node numbered, is one too.            *)

Kept(sc, C) == \A x \in C : \A j \in DOMAIN sc[x] : sc[x][j] \in C

\* v lies in every set that holds u and that no edge leaves.
Leads(sc, u, v) == \A C \in SUBSET DOMAIN sc : u \in C /\ Kept(sc, C) => v \in C

Saw(s, v) == s.ix[v] # Unseen
On(s, v) == \E k \in DOMAIN s.st : s.st[k] = v
Spot(s, k) == s.wk[k].node
Path(s) == {Spot(s, k) : k \in DOMAIN s.wk}

TarjanType(s) ==
  /\ \E n \in Nat : s.sc \in [1 .. n -> Seq(1 .. n)]
  /\ s.ix \in [DOMAIN s.sc -> Nat \cup {Unseen}]
  /\ s.lo \in [DOMAIN s.sc -> Nat]
  /\ s.st \in Seq(DOMAIN s.sc)
  /\ s.wk \in Seq([node : DOMAIN s.sc, looked : Nat])
  /\ s.co \in [DOMAIN s.sc -> Nat] /\ s.nx \in Nat /\ s.nc \in Nat

\* No two nodes have one index.
Numbered(s) ==
  /\ \A v \in DOMAIN s.sc : Saw(s, v) => s.ix[v] < s.nx
  /\ \A u, v \in DOMAIN s.sc : Saw(s, u) /\ s.ix[u] = s.ix[v] => u = v

\* The stack is in the order of discovery, the latest first.
Stacked(s) ==
  /\ \A k \in DOMAIN s.st : Saw(s, s.st[k])
  /\ \A i, j \in DOMAIN s.st : i < j => s.ix[s.st[j]] < s.ix[s.st[i]]

\* The path is a path, in the order of discovery, and lies on the stack.
Walks(s) ==
  /\ \A k \in DOMAIN s.wk : s.wk[k].looked <= Len(s.sc[Spot(s, k)])
  /\ \A k \in 2 .. Len(s.wk) : Saw(s, Spot(s, k))
  /\ \A k \in DOMAIN s.wk : Saw(s, Spot(s, k)) => On(s, Spot(s, k))
  /\ \A i, j \in DOMAIN s.wk : i < j => /\ Spot(s, i) # Spot(s, j)
                                        /\ Saw(s, Spot(s, i)) => s.ix[Spot(s, j)] < s.ix[Spot(s, i)]
                                        /\ Leads(s.sc, Spot(s, j), Spot(s, i))

\* What is on the stack leads to a node of the path no later than it, and is led
\* to by each of those.
Rooted(s) ==
  /\ \A y \in DOMAIN s.sc : On(s, y) =>
       \E k \in DOMAIN s.wk : Saw(s, Spot(s, k)) /\ s.ix[Spot(s, k)] <= s.ix[y] /\ Leads(s.sc, y, Spot(s, k))
  /\ \A k \in DOMAIN s.wk, y \in DOMAIN s.sc :
       On(s, y) /\ Saw(s, Spot(s, k)) /\ s.ix[Spot(s, k)] <= s.ix[y] => Leads(s.sc, Spot(s, k), y)

\* How low a node of the path is, is where it leads to.
LowReal(s) ==
  \A k \in DOMAIN s.wk : Saw(s, Spot(s, k)) =>
    /\ s.lo[Spot(s, k)] <= s.ix[Spot(s, k)]
    /\ \E y \in DOMAIN s.sc : On(s, y) /\ s.ix[y] = s.lo[Spot(s, k)] /\ Leads(s.sc, Spot(s, k), y)

\* It has heard of every successor looked at.
Heard(s) ==
  \A k \in DOMAIN s.wk : \A j \in 1 .. s.wk[k].looked :
    /\ Saw(s, s.sc[Spot(s, k)][j]) \/ s.sc[Spot(s, k)][j] = Spot(s, 1)
    /\ On(s, s.sc[Spot(s, k)][j]) => s.lo[Spot(s, k)] <= s.ix[s.sc[Spot(s, k)][j]]

\* The latest of the path that is no later than x.
Charged(s, k, x) ==
  /\ Saw(s, Spot(s, k)) /\ s.ix[Spot(s, k)] <= s.ix[x]
  /\ k = 1 \/ ~ Saw(s, Spot(s, k - 1)) \/ s.ix[x] < s.ix[Spot(s, k - 1)]

\* A node left has seen its successors, and who is charged with it has heard of
\* them.
LeftHeard(s) ==
  \A x \in DOMAIN s.sc : Saw(s, x) /\ x \notin Path(s) =>
    \A j \in DOMAIN s.sc[x] :
      /\ Saw(s, s.sc[x][j])
      /\ On(s, x) /\ On(s, s.sc[x][j]) =>
           \A k \in DOMAIN s.wk : Charged(s, k, x) => s.lo[Spot(s, k)] <= s.ix[s.sc[x][j]]

\* The nodes in a component lead to each other, and to none in a later one.
Settled(s) ==
  /\ \A x \in DOMAIN s.sc : Saw(s, x) /\ ~ On(s, x) =>
       /\ s.co[x] < s.nc
       /\ \A j \in DOMAIN s.sc[x] : /\ Saw(s, s.sc[x][j]) /\ ~ On(s, s.sc[x][j])
                                    /\ s.co[s.sc[x][j]] <= s.co[x]
  /\ \A x, y \in DOMAIN s.sc :
       Saw(s, x) /\ ~ On(s, x) /\ Saw(s, y) /\ ~ On(s, y) /\ s.co[x] = s.co[y] => Leads(s.sc, x, y)

Sound(s) ==
  /\ TarjanType(s) /\ Numbered(s) /\ Stacked(s) /\ Walks(s) /\ Rooted(s)
  /\ LowReal(s) /\ Heard(s) /\ LeftHeard(s) /\ Settled(s)

-----------------------------------------------------------------------------
(* What leading is, and the algorithm's steps on such a record. *)

\* Leading is reflexive and transitive, and an edge leads.
LEMMA LeadsSelf == \A sc, u : Leads(sc, u, u)
  BY DEF Leads

\* Leading is transitive.
LEMMA LeadsOn == \A sc, u, v, w : Leads(sc, u, v) /\ Leads(sc, v, w) => Leads(sc, u, w)
  BY DEF Leads

\* An edge leads.
LEMMA LeadsEdge == \A sc, u : \A j \in DOMAIN sc[u] : Leads(sc, u, sc[u][j])
  BY DEF Leads, Kept

\* What the state's type says of a node.
LEMMA NodeType ==
  ASSUME NEW s, TarjanType(s)
  PROVE  /\ \A v \in DOMAIN s.sc : /\ Saw(s, v) => s.ix[v] \in Nat
                                   /\ s.lo[v] \in Nat /\ s.co[v] \in Nat
                                   /\ Len(s.sc[v]) \in Nat /\ DOMAIN s.sc[v] = 1 .. Len(s.sc[v])
                                   /\ \A j \in DOMAIN s.sc[v] : s.sc[v][j] \in DOMAIN s.sc
         /\ Len(s.wk) \in Nat /\ DOMAIN s.wk = 1 .. Len(s.wk)
         /\ \A k \in DOMAIN s.wk : Spot(s, k) \in DOMAIN s.sc /\ s.wk[k].looked \in Nat
         /\ Len(s.st) \in Nat /\ DOMAIN s.st = 1 .. Len(s.st)
         /\ \A k \in DOMAIN s.st : s.st[k] \in DOMAIN s.sc
         /\ \A v : On(s, v) => v \in DOMAIN s.sc
         /\ s.nx \in Nat /\ s.nc \in Nat
  <1>1. PICK n \in Nat : s.sc \in [1 .. n -> Seq(1 .. n)]
    BY DEF TarjanType
  <1>2. \A v \in 1 .. n : Len(s.sc[v]) \in Nat /\ DOMAIN s.sc[v] = 1 .. Len(s.sc[v])
                          /\ \A j \in DOMAIN s.sc[v] : s.sc[v][j] \in 1 .. n
    BY <1>1, LenProperties, ElementOfSeq
  <1>3. DOMAIN s.sc = 1 .. n
    BY <1>1
  <1>4. /\ Len(s.wk) \in Nat /\ DOMAIN s.wk = 1 .. Len(s.wk)
        /\ \A k \in DOMAIN s.wk : s.wk[k] \in [node : DOMAIN s.sc, looked : Nat]
    BY LenProperties, ElementOfSeq DEF TarjanType
  <1>5. /\ Len(s.st) \in Nat /\ DOMAIN s.st = 1 .. Len(s.st)
        /\ \A k \in DOMAIN s.st : s.st[k] \in DOMAIN s.sc
    BY LenProperties, ElementOfSeq DEF TarjanType
  <1>6. \A v \in DOMAIN s.sc : (Saw(s, v) => s.ix[v] \in Nat) /\ s.lo[v] \in Nat /\ s.co[v] \in Nat
    BY DEF TarjanType, Saw
  <1>7. s.nx \in Nat /\ s.nc \in Nat
    BY DEF TarjanType
  <1> QED
    BY <1>2, <1>3, <1>4, <1>5, <1>6, <1>7 DEF Spot, On

\* One put before a sequence.
LEMMA PutFirst ==
  ASSUME NEW S, NEW e \in S, NEW q \in Seq(S), NEW r, r = <<e>> \o q
  PROVE  /\ r \in Seq(S)
         /\ Len(r) = Len(q) + 1
         /\ DOMAIN r = 1 .. Len(q) + 1
         /\ r[1] = e
         /\ \A k \in 1 .. Len(q) : r[k + 1] = q[k]
         /\ \A k \in 2 .. Len(q) + 1 : k - 1 \in 1 .. Len(q) /\ r[k] = q[k - 1]
<1>1. Len(q) \in Nat
  OBVIOUS
<1>2. r \in Seq(S) /\ Len(r) = 1 + Len(q)
      /\ \A k \in 1 .. 1 + Len(q) : r[k] = IF k <= 1 THEN <<e>>[k] ELSE q[k - 1]
  <2>1. <<e>> \in Seq(S) /\ Len(<<e>>) = 1
    OBVIOUS
  <2> QED BY <2>1, ConcatProperties
<1>3. DOMAIN r = 1 .. Len(q) + 1
  <2>1. DOMAIN r = 1 .. Len(r)
    BY <1>2, LenProperties
  <2> QED BY <1>1, <1>2, <2>1
<1>4. r[1] = e
  <2>1. 1 \in 1 .. 1 + Len(q)
    BY <1>1
  <2>2. r[1] = <<e>>[1]
    BY <1>2, <2>1
  <2> QED BY <2>2
<1>5. \A k \in 2 .. Len(q) + 1 : k - 1 \in 1 .. Len(q) /\ r[k] = q[k - 1]
  BY <1>1, <1>2
<1>6. ASSUME NEW k \in 1 .. Len(q) PROVE r[k + 1] = q[k]
  <2>1. k + 1 \in 2 .. Len(q) + 1 /\ (k + 1) - 1 = k
    BY <1>1
  <2> QED BY <1>5, <2>1
<1> QED BY <1>1, <1>2, <1>3, <1>4, <1>5, <1>6

\* A node just seen is put on the stack: nothing is as late.
LEMMA NumberSound ==
  ASSUME NEW s, NEW t, Sound(s), s.wk # <<>>,
         ~ Saw(s, Spot(s, 1)), s.wk[1].looked = 0,
         t.sc = s.sc, t.co = s.co, t.nc = s.nc, t.wk = s.wk, t.nx = s.nx + 1,
         t.ix = [s.ix EXCEPT ![Spot(s, 1)] = s.nx],
         t.lo = [s.lo EXCEPT ![Spot(s, 1)] = s.nx],
         t.st = <<Spot(s, 1)>> \o s.st
  PROVE  Sound(t) /\ Saw(t, Spot(t, 1))
<1> DEFINE v == Spot(s, 1)
           V == DOMAIN s.sc
           P(k) == Spot(s, k)
<1>n. /\ TarjanType(s) /\ Numbered(s) /\ Stacked(s) /\ Walks(s) /\ Rooted(s)
      /\ LowReal(s) /\ Heard(s) /\ LeftHeard(s) /\ Settled(s)
  BY DEF Sound
<1>1. /\ \A x \in V : /\ Saw(s, x) => s.ix[x] \in Nat
                       /\ s.lo[x] \in Nat /\ Len(s.sc[x]) \in Nat
                       /\ DOMAIN s.sc[x] = 1 .. Len(s.sc[x])
                       /\ \A j \in DOMAIN s.sc[x] : s.sc[x][j] \in V
      /\ Len(s.wk) \in Nat /\ DOMAIN s.wk = 1 .. Len(s.wk)
      /\ \A k \in DOMAIN s.wk : P(k) \in V /\ s.wk[k].looked \in Nat
      /\ Len(s.st) \in Nat /\ DOMAIN s.st = 1 .. Len(s.st)
      /\ \A x : On(s, x) => x \in V
      /\ s.nx \in Nat
  BY <1>n, NodeType
<1>2. 1 \in DOMAIN s.wk /\ v \in V
  <2>1. Len(s.wk) # 0
    BY <1>n, EmptySeq DEF TarjanType
  <2> QED BY <2>1, <1>1
<1>3. /\ t.st \in Seq(V) /\ Len(t.st) = Len(s.st) + 1 /\ DOMAIN t.st = 1 .. Len(s.st) + 1
      /\ t.st[1] = v
      /\ \A k \in 1 .. Len(s.st) : t.st[k + 1] = s.st[k]
      /\ \A k \in 2 .. Len(s.st) + 1 : k - 1 \in 1 .. Len(s.st) /\ t.st[k] = s.st[k - 1]
  <2>1. s.st \in Seq(V)
    BY <1>n DEF TarjanType
  <2> HIDE DEF v, V
  <2>2. t.st = <<v>> \o s.st
    BY DEF v
  <2> QED BY <1>2, <2>1, <2>2, PutFirst
<1>4. \A k : Spot(t, k) = P(k)
  BY DEF Spot
<1>5. /\ t.ix[v] = s.nx /\ t.lo[v] = s.nx
      /\ \A x \in V : x # v => t.ix[x] = s.ix[x] /\ t.lo[x] = s.lo[x]
  BY <1>2, <1>n DEF TarjanType
<1>6. Unseen # s.nx
  BY <1>1, UnseenAssumption
<1>7. \A x \in V : Saw(t, x) <=> Saw(s, x) \/ x = v
  BY <1>5, <1>6 DEF Saw
<1>8. \A x : On(t, x) <=> On(s, x) \/ x = v
  <2>1. ASSUME NEW x, On(t, x) PROVE On(s, x) \/ x = v
    <3>1. PICK k \in DOMAIN t.st : t.st[k] = x
      BY <2>1 DEF On
    <3>2. k = 1 \/ k \in 2 .. Len(s.st) + 1
      BY <1>1, <1>3
    <3>3. CASE k = 1
      BY <3>1, <3>3, <1>3
    <3>4. CASE k \in 2 .. Len(s.st) + 1
      BY <3>1, <3>4, <1>3, <1>1 DEF On
    <3> QED BY <3>2, <3>3, <3>4
  <2>2. ASSUME NEW x, On(s, x) PROVE On(t, x)
    <3>1. PICK k \in DOMAIN s.st : s.st[k] = x
      BY <2>2 DEF On
    <3>2. k + 1 \in DOMAIN t.st /\ t.st[k + 1] = x
      BY <3>1, <1>1, <1>3
    <3> QED BY <3>2 DEF On
  <2>3. On(t, v)
    <3>1. 1 \in DOMAIN t.st
      BY <1>1, <1>3
    <3> QED BY <1>3, <3>1 DEF On
  <2> QED BY <2>1, <2>2, <2>3
<1>9. \A x \in V : On(s, x) => Saw(s, x)
  BY <1>n DEF Stacked, On
<1>10. \A x \in V : Saw(s, x) => x # v /\ s.ix[x] < s.nx /\ s.ix[x] \in Nat
  BY <1>1, <1>n DEF Numbered
<1>11. \A k \in DOMAIN s.wk : k # 1 => Saw(s, P(k)) /\ P(k) # v
  BY <1>1, <1>n, <1>10 DEF Walks
<1>12. Path(t) = Path(s) /\ DOMAIN t.sc = V /\ v \in Path(s)
  BY <1>2, <1>4 DEF Path
<1> HIDE DEF v
<1>20. TarjanType(t)
  <2>1. t.ix \in [V -> Nat \cup {Unseen}] /\ t.lo \in [V -> Nat]
    <3>1. s.ix \in [V -> Nat \cup {Unseen}] /\ s.lo \in [V -> Nat] /\ s.nx \in Nat
      BY <1>n DEF TarjanType
    <3>2. t.ix = [s.ix EXCEPT ![v] = s.nx] /\ t.lo = [s.lo EXCEPT ![v] = s.nx]
      BY DEF v
    <3>3. s.nx \in Nat \cup {Unseen}
      BY <3>1
    <3>4. t.ix \in [V -> Nat \cup {Unseen}]
      BY <3>1, <3>2, <3>3
    <3>5. t.lo \in [V -> Nat]
      BY <3>1, <3>2
    <3> QED BY <3>4, <3>5
  <2>2. t.nx \in Nat
    BY <1>1
  <2> QED BY <1>n, <1>3, <1>12, <2>1, <2>2 DEF TarjanType
<1>21. Numbered(t)
  <2>1. \A x, y \in V : Saw(s, x) /\ s.ix[x] = s.ix[y] => x = y
    BY <1>n DEF Numbered
  <2>2. \A x \in V : Saw(t, x) => t.ix[x] < s.nx + 1
    BY <1>1, <1>5, <1>7, <1>10
  <2>3. ASSUME NEW x \in V, NEW y \in V, Saw(t, x), t.ix[x] = t.ix[y] PROVE x = y
    <3>1. Saw(t, y)
      BY <2>3 DEF Saw
    <3> QED BY <2>1, <2>3, <3>1, <1>1, <1>5, <1>7, <1>10
  <2> QED BY <2>2, <2>3, <1>12 DEF Numbered
<1>22. Stacked(t)
  <2>1. ASSUME NEW k \in DOMAIN t.st PROVE Saw(t, t.st[k])
    <3>1. On(t, t.st[k])
      BY <2>1 DEF On
    <3> QED BY <3>1, <1>1, <1>2, <1>7, <1>8, <1>9
  <2>2. ASSUME NEW i \in DOMAIN t.st, NEW j \in DOMAIN t.st, i < j PROVE t.ix[t.st[j]] < t.ix[t.st[i]]
    <3>1. j \in 2 .. Len(s.st) + 1 /\ j - 1 \in DOMAIN s.st /\ t.st[j] = s.st[j - 1]
      BY <1>1, <1>3, <2>2
    <3>2. On(s, t.st[j])
      BY <3>1 DEF On
    <3>3. Saw(s, t.st[j]) /\ t.st[j] \in V
      BY <3>2, <1>1, <1>9
    <3>4. CASE i = 1
      BY <3>3, <3>4, <1>3, <1>5, <1>10
    <3>5. CASE i # 1
      <4>1. i - 1 \in DOMAIN s.st /\ t.st[i] = s.st[i - 1] /\ i - 1 < j - 1
        BY <1>1, <1>3, <2>2, <3>5
      <4>2. On(s, t.st[i])
        BY <4>1 DEF On
      <4>3. s.ix[s.st[j - 1]] < s.ix[s.st[i - 1]]
        BY <1>n, <3>1, <4>1 DEF Stacked
      <4> QED BY <4>1, <4>2, <4>3, <3>1, <3>3, <1>1, <1>5, <1>9, <1>10
    <3> QED BY <3>4, <3>5
  <2> QED BY <2>1, <2>2 DEF Stacked
<1>23. Walks(t)
  <2>1. \A k \in DOMAIN t.wk : t.wk[k].looked <= Len(t.sc[Spot(t, k)])
    BY <1>n, <1>4 DEF Walks
  <2>2. \A k \in DOMAIN s.wk : Saw(t, P(k)) /\ On(t, P(k))
    <3>1. ASSUME NEW k \in DOMAIN s.wk, k # 1 PROVE Saw(s, P(k)) /\ On(s, P(k))
      BY <1>n, <3>1, <1>11 DEF Walks
    <3> QED BY <3>1, <1>1, <1>2, <1>7, <1>8 DEF v
  <2>3. ASSUME NEW i \in DOMAIN t.wk, NEW j \in DOMAIN t.wk, i < j
        PROVE  Spot(t, i) # Spot(t, j) /\ t.ix[Spot(t, j)] < t.ix[Spot(t, i)] /\ Leads(t.sc, Spot(t, j), Spot(t, i))
    <3>1. P(i) # P(j) /\ (Saw(s, P(i)) => s.ix[P(j)] < s.ix[P(i)]) /\ Leads(s.sc, P(j), P(i))
      BY <1>n, <2>3 DEF Walks
    <3>2. j # 1 /\ (i = 1 => P(i) = v)
      BY <1>1, <2>3 DEF v
    <3>3. t.ix[P(j)] < t.ix[P(i)]
      BY <3>1, <3>2, <1>1, <1>5, <1>10, <1>11
    <3> QED BY <3>1, <3>3, <1>4
  <2>4. \A k \in 2 .. Len(t.wk) : k \in DOMAIN s.wk
    BY <1>1
  <2> QED BY <2>1, <2>2, <2>3, <2>4, <1>4 DEF Walks
<1>24. Rooted(t)
  <2>1. ASSUME NEW y \in V, On(t, y)
        PROVE  \E k \in DOMAIN s.wk : Saw(t, P(k)) /\ t.ix[P(k)] <= t.ix[y] /\ Leads(s.sc, y, P(k))
    <3>1. CASE y = v
      <4>1. P(1) = v
        BY DEF v
      <4> QED BY <3>1, <4>1, <1>1, <1>2, <1>5, <1>7, LeadsSelf
    <3>2. CASE y # v
      <4>1. On(s, y)
        BY <2>1, <3>2, <1>8
      <4>2. PICK k \in DOMAIN s.wk : Saw(s, P(k)) /\ s.ix[P(k)] <= s.ix[y] /\ Leads(s.sc, y, P(k))
        BY <4>1, <1>n DEF Rooted
      <4> QED BY <4>2, <3>2, <1>1, <1>5, <1>7, <1>10
    <3> QED BY <3>1, <3>2
  <2>2. ASSUME NEW k \in DOMAIN s.wk, NEW y \in V, On(t, y), Saw(t, P(k)), t.ix[P(k)] <= t.ix[y]
        PROVE  Leads(s.sc, P(k), y)
    <3>1. CASE y = v
      <4>1. k # 1 => Leads(s.sc, P(k), v)
        BY <1>n, <1>1, <1>2 DEF Walks, v
      <4> QED BY <4>1, <3>1, LeadsSelf DEF v
    <3>2. CASE y # v
      <4>1. On(s, y) /\ Saw(s, y) /\ t.ix[y] = s.ix[y] /\ s.ix[y] < s.nx /\ s.ix[y] \in Nat
        BY <2>2, <3>2, <1>5, <1>8, <1>9, <1>10
      <4>2. P(k) # v
        BY <4>1, <2>2, <1>1, <1>5
      <4>3. Saw(s, P(k)) /\ t.ix[P(k)] = s.ix[P(k)]
        BY <4>2, <2>2, <1>1, <1>5, <1>7
      <4> QED BY <4>1, <4>3, <2>2, <1>n DEF Rooted
    <3> QED BY <3>1, <3>2
  <2> QED BY <2>1, <2>2, <1>4, <1>12 DEF Rooted
<1>25. LowReal(t)
  <2>1. ASSUME NEW k \in DOMAIN s.wk, Saw(t, P(k))
        PROVE  /\ t.lo[P(k)] <= t.ix[P(k)]
               /\ \E y \in V : On(t, y) /\ t.ix[y] = t.lo[P(k)] /\ Leads(s.sc, P(k), y)
    <3>1. CASE P(k) = v
      <4>1. t.ix[v] = s.nx /\ t.lo[v] = s.nx /\ s.nx \in Nat
        BY <1>1, <1>5
      <4>2. t.lo[v] <= t.ix[v]
        BY <4>1
      <4>3. v \in V /\ On(t, v)
        BY <1>2, <1>8
      <4>4. Leads(s.sc, v, v)
        BY <4>3, LeadsSelf
      <4>5. \E y \in V : On(t, y) /\ t.ix[y] = t.lo[v] /\ Leads(s.sc, v, y)
        BY <4>1, <4>3, <4>4
      <4> QED BY <3>1, <4>2, <4>5
    <3>2. CASE P(k) # v
      <4>1. Saw(s, P(k)) /\ P(k) \in V
        BY <2>1, <3>2, <1>1, <1>7
      <4>2. /\ s.lo[P(k)] <= s.ix[P(k)]
            /\ \E y \in V : On(s, y) /\ s.ix[y] = s.lo[P(k)] /\ Leads(s.sc, P(k), y)
        BY <4>1, <1>n DEF LowReal
      <4>3. PICK y \in V : On(s, y) /\ s.ix[y] = s.lo[P(k)] /\ Leads(s.sc, P(k), y)
        BY <4>2
      <4>4. On(t, y) /\ t.ix[y] = s.ix[y]
        BY <4>3, <1>5, <1>8, <1>9, <1>10
      <4> QED BY <4>1, <4>2, <4>3, <4>4, <3>2, <1>5
    <3> QED BY <3>1, <3>2
  <2> QED BY <2>1, <1>4, <1>12 DEF LowReal
<1>26. Heard(t)
  <2>1. ASSUME NEW k \in DOMAIN s.wk, NEW j \in 1 .. s.wk[k].looked
        PROVE  /\ Saw(t, s.sc[P(k)][j]) \/ s.sc[P(k)][j] = v
               /\ On(t, s.sc[P(k)][j]) => t.lo[P(k)] <= t.ix[s.sc[P(k)][j]]
    <3>1. k # 1
      BY <2>1
    <3>2. P(k) # v /\ P(k) \in V /\ Saw(s, P(k))
      BY <3>1, <1>1, <1>11
    <3>3. j \in DOMAIN s.sc[P(k)]
      <4>1. s.wk[k].looked <= Len(s.sc[P(k)])
        BY <1>n DEF Walks
      <4>2. s.wk[k].looked \in Nat /\ Len(s.sc[P(k)]) \in Nat /\ DOMAIN s.sc[P(k)] = 1 .. Len(s.sc[P(k)])
        BY <1>1, <3>2
      <4> QED BY <4>1, <4>2
    <3> DEFINE w == s.sc[P(k)][j]
    <3>4. w \in V
      BY <3>2, <3>3, <1>1
    <3>5. /\ Saw(s, w) \/ w = v
          /\ On(s, w) => s.lo[P(k)] <= s.ix[w]
      BY <1>n DEF Heard, v
    <3>6. s.lo[P(k)] <= s.ix[P(k)] /\ s.ix[P(k)] < s.nx /\ s.ix[P(k)] \in Nat /\ s.lo[P(k)] \in Nat
      BY <1>n, <3>2, <1>1, <1>10 DEF LowReal
    <3>7. CASE w = v
      BY <3>6, <3>7, <3>2, <1>1, <1>5
    <3>8. CASE w # v
      BY <3>2, <3>4, <3>5, <3>8, <1>5, <1>7, <1>8
    <3> QED BY <3>7, <3>8
  <2> QED BY <2>1, <1>4 DEF Heard, v
<1>27. LeftHeard(t)
  <2>1. ASSUME NEW x \in V, Saw(t, x), x \notin Path(t), NEW j \in DOMAIN s.sc[x]
        PROVE  /\ Saw(t, s.sc[x][j])
               /\ On(t, x) /\ On(t, s.sc[x][j]) =>
                    \A k \in DOMAIN s.wk : Charged(t, k, x) => t.lo[P(k)] <= t.ix[s.sc[x][j]]
    <3> DEFINE w == s.sc[x][j]
    <3>1. x # v /\ Saw(s, x) /\ x \notin Path(s) /\ w \in V
      BY <2>1, <1>1, <1>7, <1>12
    <3>2. /\ Saw(s, w)
          /\ On(s, x) /\ On(s, w) => \A k \in DOMAIN s.wk : Charged(s, k, x) => s.lo[P(k)] <= s.ix[w]
      BY <3>1, <1>n DEF LeftHeard
    <3>3. ASSUME On(t, x), On(t, w), NEW k \in DOMAIN s.wk, Charged(t, k, x)
          PROVE  t.lo[P(k)] <= t.ix[w]
      <4>1. On(s, x) /\ On(s, w) /\ w # v
        BY <3>1, <3>2, <3>3, <1>8, <1>10
      <4>2. Saw(t, P(k)) /\ t.ix[P(k)] <= t.ix[x] /\ t.ix[x] = s.ix[x] /\ s.ix[x] < s.nx /\ s.ix[x] \in Nat
        BY <3>1, <3>3, <1>4, <1>5, <1>10 DEF Charged
      <4>3. P(k) # v /\ P(k) \in V
        BY <4>2, <1>1, <1>5
      <4>4. Saw(s, P(k)) /\ t.ix[P(k)] = s.ix[P(k)] /\ t.lo[P(k)] = s.lo[P(k)]
        BY <4>2, <4>3, <1>5, <1>7
      <4>5. k # 1 /\ k - 1 \in DOMAIN s.wk
        BY <4>3, <1>1 DEF v
      <4>6. k = 1 \/ ~ Saw(t, P(k - 1)) \/ t.ix[x] < t.ix[P(k - 1)]
        BY <3>3, <1>4 DEF Charged
      <4>7. ~ Saw(s, P(k - 1)) \/ s.ix[x] < s.ix[P(k - 1)]
        BY <4>2, <4>5, <4>6, <1>1, <1>5, <1>7, <1>10
      <4>8. Charged(s, k, x)
        BY <4>2, <4>4, <4>7 DEF Charged
      <4> QED BY <4>1, <4>4, <4>8, <3>1, <3>2, <1>5
    <3> QED BY <3>1, <3>2, <3>3, <1>7
  <2> QED BY <2>1, <1>4, <1>12 DEF LeftHeard
<1>28. Settled(t)
  <2>1. \A x \in V : Saw(t, x) /\ ~ On(t, x) <=> Saw(s, x) /\ ~ On(s, x)
    BY <1>2, <1>7, <1>8 DEF v
  <2> QED BY <2>1, <1>1, <1>12, <1>n DEF Settled
<1> QED
  BY <1>2, <1>4, <1>7, <1>20, <1>21, <1>22, <1>23, <1>24, <1>25, <1>26, <1>27, <1>28 DEF Sound, v

\* The walk goes on to a node not seen.
LEMMA WalkOnSound ==
  ASSUME NEW s, NEW t, Sound(s), 1 \in DOMAIN s.wk, Saw(s, Spot(s, 1)),
         NEW j \in DOMAIN s.sc[Spot(s, 1)], ~ Saw(s, s.sc[Spot(s, 1)][j]),
         j = s.wk[1].looked + 1,
         t.sc = s.sc, t.ix = s.ix, t.lo = s.lo, t.st = s.st, t.co = s.co, t.nx = s.nx, t.nc = s.nc,
         t.wk \in Seq([node : DOMAIN s.sc, looked : Nat]),
         Len(t.wk) = Len(s.wk) + 1,
         t.wk[1] = [node |-> s.sc[Spot(s, 1)][j], looked |-> 0],
         t.wk[2] = [node |-> Spot(s, 1), looked |-> j],
         \A k \in 3 .. Len(s.wk) + 1 : t.wk[k] = s.wk[k - 1]
  PROVE  Sound(t) /\ ~ Saw(t, Spot(t, 1)) /\ t.wk[1].looked = 0
<1> DEFINE v == Spot(s, 1)
           w == s.sc[v][j]
           V == DOMAIN s.sc
           P(k) == Spot(s, k)
<1>n. /\ TarjanType(s) /\ Numbered(s) /\ Stacked(s) /\ Walks(s) /\ Rooted(s)
      /\ LowReal(s) /\ Heard(s) /\ LeftHeard(s) /\ Settled(s)
  BY DEF Sound
<1>1. /\ \A x \in V : /\ Saw(s, x) => s.ix[x] \in Nat
                       /\ s.lo[x] \in Nat /\ Len(s.sc[x]) \in Nat
                       /\ DOMAIN s.sc[x] = 1 .. Len(s.sc[x])
                       /\ \A i \in DOMAIN s.sc[x] : s.sc[x][i] \in V
      /\ Len(s.wk) \in Nat /\ DOMAIN s.wk = 1 .. Len(s.wk)
      /\ \A k \in DOMAIN s.wk : P(k) \in V /\ s.wk[k].looked \in Nat
      /\ \A x : On(s, x) => x \in V
  BY <1>n, NodeType
<1>2. v \in V /\ w \in V /\ j \in Nat /\ ~ Saw(s, w)
  BY <1>1
<1>3. DOMAIN t.wk = 1 .. Len(s.wk) + 1 /\ t.wk[1].looked = 0 /\ Spot(t, 1) = w
  <2>1. DOMAIN t.wk = 1 .. Len(t.wk)
    BY LenProperties
  <2> QED BY <2>1 DEF Spot
<1>4. \A k \in 2 .. Len(s.wk) + 1 : /\ k - 1 \in DOMAIN s.wk /\ Spot(t, k) = P(k - 1)
                                    /\ t.wk[k].looked = IF k = 2 THEN j ELSE s.wk[k - 1].looked
  <2> SUFFICES ASSUME NEW k \in 2 .. Len(s.wk) + 1
               PROVE  /\ k - 1 \in DOMAIN s.wk /\ Spot(t, k) = P(k - 1)
                      /\ t.wk[k].looked = IF k = 2 THEN j ELSE s.wk[k - 1].looked
    OBVIOUS
  <2>1. k = 2 \/ k \in 3 .. Len(s.wk) + 1
    BY <1>1
  <2>2. k - 1 \in DOMAIN s.wk
    BY <1>1
  <2>3. CASE k = 2
    <3>1. t.wk[k] = [node |-> v, looked |-> j] /\ k - 1 = 1
      BY <2>3
    <3>2. Spot(t, k) = v
      BY <3>1 DEF Spot
    <3> QED BY <2>2, <2>3, <3>1, <3>2
  <2>4. CASE k \in 3 .. Len(s.wk) + 1
    <3>1. t.wk[k] = s.wk[k - 1] /\ k # 2
      BY <2>4
    <3>2. Spot(t, k) = P(k - 1)
      BY <3>1 DEF Spot
    <3> QED BY <2>2, <3>1, <3>2
  <2> QED BY <2>1, <2>3, <2>4
<1>5. \A k \in DOMAIN s.wk : k + 1 \in 2 .. Len(s.wk) + 1 /\ Spot(t, k + 1) = P(k)
  <2> SUFFICES ASSUME NEW k \in DOMAIN s.wk
               PROVE  k + 1 \in 2 .. Len(s.wk) + 1 /\ Spot(t, k + 1) = P(k)
    OBVIOUS
  <2>1. k + 1 \in 2 .. Len(s.wk) + 1 /\ (k + 1) - 1 = k
    BY <1>1
  <2> QED BY <1>4, <2>1
<1>6. \A x : (Saw(t, x) <=> Saw(s, x)) /\ (On(t, x) <=> On(s, x))
  BY DEF Saw, On
<1>7. \A k \in DOMAIN s.wk : Saw(s, P(k)) /\ On(s, P(k)) /\ P(k) # w
  <2>1. \A k \in DOMAIN s.wk : k = 1 \/ k \in 2 .. Len(s.wk)
    BY <1>1
  <2>2. \A k \in DOMAIN s.wk : Saw(s, P(k))
    BY <2>1, <1>n DEF Walks
  <2> QED BY <2>2, <1>2, <1>n DEF Walks
<1>8. Path(t) = Path(s) \cup {w}
  <2>1. ASSUME NEW x \in Path(t) PROVE x \in Path(s) \cup {w}
    <3>1. PICK k \in 1 .. Len(s.wk) + 1 : x = Spot(t, k)
      BY <2>1, <1>3 DEF Path
    <3>2. k = 1 \/ k \in 2 .. Len(s.wk) + 1
      BY <1>1
    <3> QED BY <3>1, <3>2, <1>3, <1>4 DEF Path
  <2>2. ASSUME NEW x \in Path(s) PROVE x \in Path(t)
    <3>1. PICK k \in DOMAIN s.wk : x = P(k)
      BY <2>2 DEF Path
    <3>2. k + 1 \in DOMAIN t.wk /\ Spot(t, k + 1) = x
      BY <3>1, <1>1, <1>3, <1>5
    <3> QED BY <3>2 DEF Path
  <2>3. w \in Path(t)
    <3>1. 1 \in DOMAIN t.wk
      BY <1>1, <1>3
    <3> QED BY <1>3, <3>1 DEF Path
  <2> QED BY <2>1, <2>2, <2>3
<1>9. \A k \in DOMAIN t.wk : k = 1 \/ k \in 2 .. Len(s.wk) + 1
  BY <1>1, <1>3
<1> HIDE DEF v, w
<1>20. TarjanType(t)
  BY <1>n DEF TarjanType
<1>21. Numbered(t) /\ Stacked(t) /\ Settled(t)
  <2>1. Numbered(t)
    BY <1>n, <1>6 DEF Numbered
  <2>2. Stacked(t)
    BY <1>n, <1>6 DEF Stacked
  <2>3. Settled(t)
    BY <1>n, <1>6 DEF Settled
  <2> QED BY <2>1, <2>2, <2>3
<1>23. Walks(t)
  <2>1. ASSUME NEW k \in DOMAIN t.wk PROVE t.wk[k].looked <= Len(t.sc[Spot(t, k)])
    <3>1. CASE k = 1
      BY <3>1, <1>1, <1>2, <1>3
    <3>2. CASE k \in 2 .. Len(s.wk) + 1
      <4>1. s.wk[k - 1].looked <= Len(s.sc[P(k - 1)])
        BY <3>2, <1>4, <1>n DEF Walks
      <4>2. CASE k = 2
        <5>1. Spot(t, k) = v /\ t.wk[k].looked = j
          BY <3>2, <4>2, <1>4 DEF v
        <5>2. j <= Len(s.sc[v])
          BY <1>1, <1>2 DEF v
        <5> QED BY <5>1, <5>2
      <4>3. CASE k # 2
        BY <3>2, <4>1, <4>3, <1>4
      <4> QED BY <4>2, <4>3
    <3> QED BY <1>9, <3>1, <3>2
  <2>2. ASSUME NEW k \in 2 .. Len(s.wk) + 1 PROVE Saw(s, Spot(t, k)) /\ On(s, Spot(t, k))
    BY <1>4, <1>7
  <2>3. ASSUME NEW i \in DOMAIN t.wk, NEW k \in DOMAIN t.wk, i < k
        PROVE  /\ Spot(t, i) # Spot(t, k)
               /\ Saw(s, Spot(t, i)) => s.ix[Spot(t, k)] < s.ix[Spot(t, i)]
               /\ Leads(s.sc, Spot(t, k), Spot(t, i))
    <3>1. k \in 2 .. Len(s.wk) + 1 /\ k - 1 \in DOMAIN s.wk /\ Spot(t, k) = P(k - 1)
      BY <2>3, <1>1, <1>3, <1>4
    <3>2. CASE i = 1
      <4>1. Leads(s.sc, v, w)
        BY LeadsEdge DEF v, w
      <4>2. Leads(s.sc, P(k - 1), v)
        <5>1. CASE k - 1 = 1
          BY <5>1, LeadsSelf DEF v
        <5>2. CASE k - 1 # 1
          <6>1. 1 < k - 1
            BY <5>2, <3>1, <1>1
          <6> QED BY <6>1, <3>1, <1>n DEF Walks, v
        <5> QED BY <5>1, <5>2
      <4> QED BY <3>1, <3>2, <4>1, <4>2, <1>2, <1>3, <1>7, LeadsOn
    <3>3. CASE i # 1
      <4>1. i - 1 \in DOMAIN s.wk /\ Spot(t, i) = P(i - 1) /\ i - 1 < k - 1
        BY <2>3, <3>3, <3>1, <1>1, <1>3, <1>4, <1>9
      <4> QED BY <3>1, <4>1, <1>n DEF Walks
    <3> QED BY <3>2, <3>3
  <2>4. ASSUME NEW k \in DOMAIN t.wk, Saw(s, Spot(t, k)) PROVE On(s, Spot(t, k))
    BY <2>2, <2>4, <1>2, <1>3, <1>9
  <2> QED BY <2>1, <2>2, <2>3, <2>4, <1>6 DEF Walks
<1>24. Rooted(t)
  <2>1. ASSUME NEW y \in V, On(s, y)
        PROVE  \E k \in DOMAIN t.wk : Saw(s, Spot(t, k)) /\ s.ix[Spot(t, k)] <= s.ix[y] /\ Leads(s.sc, y, Spot(t, k))
    <3>1. PICK k \in DOMAIN s.wk : Saw(s, P(k)) /\ s.ix[P(k)] <= s.ix[y] /\ Leads(s.sc, y, P(k))
      BY <2>1, <1>n DEF Rooted
    <3>2. k + 1 \in DOMAIN t.wk /\ Spot(t, k + 1) = P(k)
      BY <1>1, <1>3, <1>5
    <3> QED BY <3>1, <3>2
  <2>2. ASSUME NEW k \in DOMAIN t.wk, NEW y \in V, On(s, y), Saw(s, Spot(t, k)), s.ix[Spot(t, k)] <= s.ix[y]
        PROVE  Leads(s.sc, Spot(t, k), y)
    <3>1. k \in 2 .. Len(s.wk) + 1
      BY <2>2, <1>2, <1>3, <1>9
    <3> QED BY <2>2, <3>1, <1>4, <1>n DEF Rooted
  <2> QED BY <2>1, <2>2, <1>6 DEF Rooted
<1>25. LowReal(t)
  <2>1. ASSUME NEW k \in DOMAIN t.wk, Saw(s, Spot(t, k))
        PROVE  /\ s.lo[Spot(t, k)] <= s.ix[Spot(t, k)]
               /\ \E y \in V : On(s, y) /\ s.ix[y] = s.lo[Spot(t, k)] /\ Leads(s.sc, Spot(t, k), y)
    <3>1. k \in 2 .. Len(s.wk) + 1
      BY <2>1, <1>2, <1>3, <1>9
    <3> QED BY <2>1, <3>1, <1>4, <1>n DEF LowReal
  <2> QED BY <2>1, <1>6 DEF LowReal
<1>26. Heard(t)
  <2>1. ASSUME NEW k \in DOMAIN t.wk, NEW i \in 1 .. t.wk[k].looked
        PROVE  /\ Saw(s, s.sc[Spot(t, k)][i]) \/ s.sc[Spot(t, k)][i] = w
               /\ On(s, s.sc[Spot(t, k)][i]) => s.lo[Spot(t, k)] <= s.ix[s.sc[Spot(t, k)][i]]
    <3>1. k \in 2 .. Len(s.wk) + 1
      BY <2>1, <1>3, <1>9
    <3>2. k - 1 \in DOMAIN s.wk /\ Spot(t, k) = P(k - 1)
      BY <3>1, <1>4
    <3>3. CASE i \in 1 .. s.wk[k - 1].looked
      <4>1. Saw(s, v)
        BY DEF v
      <4> QED BY <3>2, <3>3, <4>1, <1>n DEF Heard, v
    <3>4. CASE i \notin 1 .. s.wk[k - 1].looked
      <4>1. k = 2 /\ i \in 1 .. j
        BY <3>1, <3>4, <2>1, <1>4
      <4>2. k - 1 = 1
        BY <4>1
      <4>3. i = j
        <5>1. i \notin 1 .. s.wk[1].looked /\ i \in 1 .. s.wk[1].looked + 1
          BY <3>4, <4>1, <4>2
        <5>2. s.wk[1].looked \in Nat
          BY <1>1
        <5> QED BY <5>1, <5>2
      <4>4. s.sc[Spot(t, k)][i] = w
        BY <3>2, <4>2, <4>3 DEF v, w
      <4>5. ~ On(s, w)
        BY <1>2, <1>n DEF Stacked, On
      <4> QED BY <4>4, <4>5
    <3> QED BY <3>3, <3>4
  <2> QED BY <2>1, <1>3, <1>6 DEF Heard
<1>27. LeftHeard(t)
  <2>1. ASSUME NEW x \in V, Saw(s, x), x \notin Path(t), NEW i \in DOMAIN s.sc[x]
        PROVE  /\ Saw(s, s.sc[x][i])
               /\ On(s, x) /\ On(s, s.sc[x][i]) =>
                    \A k \in DOMAIN t.wk : Charged(t, k, x) => s.lo[Spot(t, k)] <= s.ix[s.sc[x][i]]
    <3>1. x \notin Path(s)
      BY <2>1, <1>8
    <3>2. /\ Saw(s, s.sc[x][i])
          /\ On(s, x) /\ On(s, s.sc[x][i]) => \A k \in DOMAIN s.wk : Charged(s, k, x) => s.lo[P(k)] <= s.ix[s.sc[x][i]]
      BY <2>1, <3>1, <1>n DEF LeftHeard
    <3>3. ASSUME On(s, x), On(s, s.sc[x][i]), NEW k \in DOMAIN t.wk, Charged(t, k, x)
          PROVE  s.lo[Spot(t, k)] <= s.ix[s.sc[x][i]]
      <4>1. Saw(s, Spot(t, k)) /\ s.ix[Spot(t, k)] <= s.ix[x]
            /\ (k = 1 \/ ~ Saw(s, Spot(t, k - 1)) \/ s.ix[x] < s.ix[Spot(t, k - 1)])
        BY <3>3, <1>6 DEF Charged
      <4>2. k \in 2 .. Len(s.wk) + 1
        BY <4>1, <1>2, <1>3, <1>9
      <4>3. k - 1 \in DOMAIN s.wk /\ Spot(t, k) = P(k - 1)
        BY <4>2, <1>4
      <4>4. k - 1 = 1 \/ (k - 1 \in 2 .. Len(s.wk) + 1 /\ Spot(t, k - 1) = P(k - 1 - 1))
        <5>1. k - 1 = 1 \/ k - 1 \in 2 .. Len(s.wk) + 1
          BY <4>2, <1>1
        <5> QED BY <5>1, <1>4
      <4>5. Charged(s, k - 1, x)
        BY <4>1, <4>2, <4>3, <4>4 DEF Charged
      <4> QED BY <3>2, <3>3, <4>3, <4>5
    <3> QED BY <3>2, <3>3
  <2> QED BY <2>1, <1>6 DEF LeftHeard
<1> QED
  BY <1>2, <1>3, <1>6, <1>20, <1>21, <1>23, <1>24, <1>25, <1>26, <1>27 DEF Sound

\* The top looks at its j-th successor, already seen.
Hears(s, t, j) ==
  /\ 1 \in DOMAIN s.wk /\ Saw(s, Spot(s, 1))
  /\ j \in DOMAIN s.sc[Spot(s, 1)] /\ Saw(s, s.sc[Spot(s, 1)][j])
  /\ j = s.wk[1].looked + 1
  /\ t.sc = s.sc /\ t.ix = s.ix /\ t.st = s.st /\ t.co = s.co /\ t.nx = s.nx /\ t.nc = s.nc
  /\ t.lo \in [DOMAIN s.sc -> Nat]
  /\ \A x \in DOMAIN s.sc : x # Spot(s, 1) => t.lo[x] = s.lo[x]
  /\ t.lo[Spot(s, 1)] <= s.lo[Spot(s, 1)]
  /\ On(s, s.sc[Spot(s, 1)][j]) => t.lo[Spot(s, 1)] <= s.ix[s.sc[Spot(s, 1)][j]]
  /\ \/ t.lo[Spot(s, 1)] = s.lo[Spot(s, 1)]
     \/ On(s, s.sc[Spot(s, 1)][j]) /\ t.lo[Spot(s, 1)] = s.ix[s.sc[Spot(s, 1)][j]]
  /\ t.wk \in Seq([node : DOMAIN s.sc, looked : Nat])
  /\ Len(t.wk) = Len(s.wk)
  /\ t.wk[1] = [node |-> Spot(s, 1), looked |-> j]
  /\ \A k \in 2 .. Len(s.wk) : t.wk[k] = s.wk[k]

\* A successor already seen is heard of.
LEMMA HearSound ==
  ASSUME NEW s, NEW t, NEW j, Sound(s), Hears(s, t, j)
  PROVE  Sound(t) /\ Saw(t, Spot(t, 1)) /\ t.wk[1].looked # 0
<1> DEFINE v == Spot(s, 1)
           w == s.sc[v][j]
           V == DOMAIN s.sc
           P(k) == Spot(s, k)
<1>n. /\ TarjanType(s) /\ Numbered(s) /\ Stacked(s) /\ Walks(s) /\ Rooted(s)
      /\ LowReal(s) /\ Heard(s) /\ LeftHeard(s) /\ Settled(s)
  BY DEF Sound
<1>1. /\ \A x \in V : /\ Saw(s, x) => s.ix[x] \in Nat
                       /\ s.lo[x] \in Nat /\ Len(s.sc[x]) \in Nat
                       /\ DOMAIN s.sc[x] = 1 .. Len(s.sc[x])
                       /\ \A i \in DOMAIN s.sc[x] : s.sc[x][i] \in V
      /\ Len(s.wk) \in Nat /\ DOMAIN s.wk = 1 .. Len(s.wk)
      /\ \A k \in DOMAIN s.wk : P(k) \in V /\ s.wk[k].looked \in Nat
      /\ \A x : On(s, x) => x \in V
  BY <1>n, NodeType
<1>e. t.sc = s.sc /\ t.ix = s.ix /\ t.st = s.st /\ t.co = s.co /\ t.nx = s.nx /\ t.nc = s.nc
  BY DEF Hears
<1>l. /\ t.lo \in [V -> Nat]
      /\ \A x \in V : x # v => t.lo[x] = s.lo[x]
      /\ t.lo[v] <= s.lo[v]
      /\ On(s, w) => t.lo[v] <= s.ix[w]
      /\ t.lo[v] = s.lo[v] \/ (On(s, w) /\ t.lo[v] = s.ix[w])
  BY DEF Hears
<1>w. /\ t.wk \in Seq([node : V, looked : Nat]) /\ Len(t.wk) = Len(s.wk)
      /\ t.wk[1] = [node |-> v, looked |-> j]
      /\ \A k \in 2 .. Len(s.wk) : t.wk[k] = s.wk[k]
  BY DEF Hears
<1>t. 1 \in DOMAIN s.wk /\ Saw(s, v) /\ j \in DOMAIN s.sc[v] /\ Saw(s, w) /\ j = s.wk[1].looked + 1
  BY DEF Hears
<1>2. v \in V /\ w \in V /\ j \in Nat /\ Saw(s, w) /\ j \in 1 .. Len(s.sc[v]) /\ s.wk[1].looked \in Nat
  BY <1>1, <1>t
<1>3. DOMAIN t.wk = DOMAIN s.wk
  BY <1>1, <1>w, LenProperties
<1>4. \A k \in DOMAIN s.wk : k = 1 \/ k \in 2 .. Len(s.wk)
  BY <1>1
<1>5. /\ \A k \in DOMAIN s.wk : Spot(t, k) = P(k)
      /\ t.wk[1].looked = j /\ \A k \in DOMAIN s.wk : k # 1 => t.wk[k].looked = s.wk[k].looked
  <2>1. Spot(t, 1) = v /\ t.wk[1].looked = j
    BY <1>w DEF Spot
  <2>2. \A k \in 2 .. Len(s.wk) : Spot(t, k) = P(k) /\ t.wk[k].looked = s.wk[k].looked
    BY <1>w DEF Spot
  <2> QED BY <2>1, <2>2, <1>4
<1>6. \A x : (Saw(t, x) <=> Saw(s, x)) /\ (On(t, x) <=> On(s, x))
  BY <1>e DEF Saw, On
<1>7. Path(t) = Path(s)
  BY <1>3, <1>5 DEF Path
<1>8. \A k, x : k \in DOMAIN s.wk => (Charged(t, k, x) <=> Charged(s, k, x))
  <2>1. \A k \in DOMAIN s.wk : k # 1 => k - 1 \in DOMAIN s.wk
    BY <1>1
  <2> QED BY <2>1, <1>e, <1>5, <1>6 DEF Charged
<1>9. \A x \in V : t.lo[x] <= s.lo[x] /\ t.lo[x] \in Nat /\ s.lo[x] \in Nat
  <2>1. \A x \in V : t.lo[x] \in Nat
    BY <1>l
  <2>2. \A x \in V : t.lo[x] <= s.lo[x]
    BY <2>1, <1>1, <1>l
  <2>3. \A x \in V : s.lo[x] \in Nat
    BY <1>n DEF TarjanType
  <2> QED BY <2>1, <2>2, <2>3
<1>10. P(1) = v
  OBVIOUS
<1> HIDE DEF v, w
<1>20. TarjanType(t)
  BY <1>n, <1>e, <1>l, <1>w DEF TarjanType
<1>21. Numbered(t) /\ Stacked(t) /\ Settled(t)
  <2>1. Numbered(t)
    BY <1>n, <1>6, <1>e DEF Numbered
  <2>2. Stacked(t)
    BY <1>n, <1>6, <1>e DEF Stacked
  <2>3. Settled(t)
    BY <1>n, <1>6, <1>e DEF Settled
  <2> QED BY <2>1, <2>2, <2>3
<1>22. Walks(t)
  <2>1. ASSUME NEW k \in DOMAIN s.wk PROVE t.wk[k].looked <= Len(s.sc[P(k)])
    <3>1. CASE k = 1
      BY <3>1, <1>2, <1>5, <1>10
    <3>2. CASE k # 1
      BY <3>2, <1>5, <1>n, <1>e DEF Walks
    <3> QED BY <3>1, <3>2
  <2>2. \A k \in 2 .. Len(s.wk) : k \in DOMAIN s.wk /\ Saw(s, P(k))
    BY <1>1, <1>n, <1>e DEF Walks
  <2>3. \A k \in DOMAIN s.wk : Saw(s, P(k)) => On(s, P(k))
    BY <1>n, <1>e DEF Walks
  <2>4. \A i, k \in DOMAIN s.wk : i < k => /\ P(i) # P(k)
                                           /\ Saw(s, P(i)) => s.ix[P(k)] < s.ix[P(i)]
                                           /\ Leads(s.sc, P(k), P(i))
    BY <1>n, <1>e DEF Walks
  <2> QED BY <2>1, <2>2, <2>3, <2>4, <1>3, <1>5, <1>6, <1>e DEF Walks
<1>23. Rooted(t)
  BY <1>3, <1>5, <1>6, <1>n, <1>e DEF Rooted
<1>24. LowReal(t)
  <2>1. ASSUME NEW k \in DOMAIN s.wk, Saw(s, P(k))
        PROVE  /\ t.lo[P(k)] <= s.ix[P(k)]
               /\ \E y \in V : On(s, y) /\ s.ix[y] = t.lo[P(k)] /\ Leads(s.sc, P(k), y)
    <3>1. /\ s.lo[P(k)] <= s.ix[P(k)]
          /\ \E y \in V : On(s, y) /\ s.ix[y] = s.lo[P(k)] /\ Leads(s.sc, P(k), y)
      BY <2>1, <1>n, <1>e DEF LowReal
    <3>2. t.lo[P(k)] <= s.ix[P(k)]
      <4>1. s.ix[P(k)] \in Nat /\ P(k) \in V
        BY <2>1, <1>1
      <4> QED BY <3>1, <4>1, <1>9
    <3>3. CASE t.lo[P(k)] = s.lo[P(k)]
      BY <3>1, <3>2, <3>3
    <3>4. CASE t.lo[P(k)] # s.lo[P(k)]
      <4>1. P(k) = v
        BY <3>4, <1>1, <1>l
      <4>2. On(s, w) /\ t.lo[v] = s.ix[w]
        BY <3>4, <4>1, <1>l
      <4>3. Leads(s.sc, v, w)
        BY <1>t, LeadsEdge DEF w
      <4> QED BY <3>2, <4>1, <4>2, <4>3, <1>2
    <3> QED BY <3>3, <3>4
  <2> QED BY <2>1, <1>3, <1>5, <1>6, <1>e DEF LowReal
<1>25. Heard(t)
  <2>1. ASSUME NEW k \in DOMAIN s.wk, NEW i \in 1 .. t.wk[k].looked
        PROVE  /\ Saw(s, s.sc[P(k)][i])
               /\ On(s, s.sc[P(k)][i]) => t.lo[P(k)] <= s.ix[s.sc[P(k)][i]]
    <3>1. CASE i \in 1 .. s.wk[k].looked
      <4>1. Saw(s, v)
        BY <1>t
      <4>2. /\ Saw(s, s.sc[P(k)][i])
            /\ On(s, s.sc[P(k)][i]) => s.lo[P(k)] <= s.ix[s.sc[P(k)][i]]
        BY <3>1, <4>1, <1>10, <1>n, <1>e DEF Heard
      <4>3. t.lo[P(k)] <= s.lo[P(k)] /\ t.lo[P(k)] \in Nat /\ s.lo[P(k)] \in Nat
        BY <1>1, <1>9
      <4>4. On(s, s.sc[P(k)][i]) => s.ix[s.sc[P(k)][i]] \in Nat
        BY <4>2, <1>1
      <4> HIDE DEF P
      <4> QED BY <4>2, <4>3, <4>4
    <3>2. CASE i \notin 1 .. s.wk[k].looked
      <4>1. k = 1 /\ i \in 1 .. j
        BY <3>2, <2>1, <1>5
      <4>2. i = j
        <5>1. i \notin 1 .. s.wk[1].looked /\ i \in 1 .. s.wk[1].looked + 1
          BY <3>2, <4>1, <1>t
        <5>2. s.wk[1].looked \in Nat
          BY <1>2
        <5> QED BY <5>1, <5>2, <1>t
      <4>3. s.sc[P(k)][i] = w /\ P(k) = v
        BY <4>1, <4>2, <1>10 DEF w
      <4> QED BY <4>3, <1>t, <1>l
    <3> QED BY <3>1, <3>2
  <2> QED BY <2>1, <1>3, <1>5, <1>6, <1>e DEF Heard
<1>26. LeftHeard(t)
  <2>1. ASSUME NEW x \in V, Saw(s, x), x \notin Path(s), NEW i \in DOMAIN s.sc[x]
        PROVE  /\ Saw(s, s.sc[x][i])
               /\ On(s, x) /\ On(s, s.sc[x][i]) =>
                    \A k \in DOMAIN s.wk : Charged(s, k, x) => t.lo[P(k)] <= s.ix[s.sc[x][i]]
    <3>1. /\ Saw(s, s.sc[x][i])
          /\ On(s, x) /\ On(s, s.sc[x][i]) => \A k \in DOMAIN s.wk : Charged(s, k, x) => s.lo[P(k)] <= s.ix[s.sc[x][i]]
      BY <2>1, <1>n, <1>e DEF LeftHeard
    <3>2. s.ix[s.sc[x][i]] \in Nat
      BY <2>1, <3>1, <1>1
    <3>3. ASSUME On(s, x), On(s, s.sc[x][i]), NEW k \in DOMAIN s.wk, Charged(s, k, x)
          PROVE  t.lo[P(k)] <= s.ix[s.sc[x][i]]
      <4>1. s.lo[P(k)] <= s.ix[s.sc[x][i]] /\ P(k) \in V
        BY <3>1, <3>3, <1>1
      <4>2. t.lo[P(k)] <= s.lo[P(k)] /\ t.lo[P(k)] \in Nat /\ s.lo[P(k)] \in Nat
        BY <4>1, <1>9
      <4> HIDE DEF P
      <4> QED BY <4>1, <4>2, <3>2
    <3> QED BY <3>1, <3>3
  <2> QED BY <2>1, <1>3, <1>5, <1>6, <1>7, <1>8, <1>e DEF LeftHeard
<1> QED
  <2>1. Sound(t)
    BY <1>20, <1>21, <1>22, <1>23, <1>24, <1>25, <1>26 DEF Sound
  <2>2. Spot(t, 1) = v /\ t.wk[1].looked # 0
    BY <1>2, <1>t, <1>5, <1>10
  <2> QED BY <2>1, <2>2, <1>t, <1>6

\* The top is left, lower than itself, and who walked to it hears how low it is.
Remains(s, t) ==
  /\ 1 \in DOMAIN s.wk /\ Saw(s, Spot(s, 1))
  /\ s.wk[1].looked >= Len(s.sc[Spot(s, 1)])
  /\ s.lo[Spot(s, 1)] # s.ix[Spot(s, 1)]
  /\ t.sc = s.sc /\ t.ix = s.ix /\ t.st = s.st /\ t.co = s.co /\ t.nx = s.nx /\ t.nc = s.nc
  /\ t.lo \in [DOMAIN s.sc -> Nat]
  /\ \A x \in DOMAIN s.sc : x # Spot(s, 2) => t.lo[x] = s.lo[x]
  /\ Len(s.wk) > 1 => /\ t.lo[Spot(s, 2)] <= s.lo[Spot(s, 2)]
                       /\ t.lo[Spot(s, 2)] <= s.lo[Spot(s, 1)]
                       /\ t.lo[Spot(s, 2)] \in {s.lo[Spot(s, 1)], s.lo[Spot(s, 2)]}
  /\ t.wk \in Seq([node : DOMAIN s.sc, looked : Nat])
  /\ Len(t.wk) = Len(s.wk) - 1
  /\ \A k \in 1 .. Len(s.wk) - 1 : t.wk[k] = s.wk[k + 1]

\* The top is left, lower than itself: it stays on the stack.
LEMMA StaysSound ==
  ASSUME NEW s, NEW t, Sound(s), Remains(s, t)
  PROVE  Sound(t) /\ (t.wk # <<>> => Saw(t, Spot(t, 1)))
<1> DEFINE v == Spot(s, 1)
           u == Spot(s, 2)
           V == DOMAIN s.sc
           P(k) == Spot(s, k)
<1>n. /\ TarjanType(s) /\ Numbered(s) /\ Stacked(s) /\ Walks(s) /\ Rooted(s)
      /\ LowReal(s) /\ Heard(s) /\ LeftHeard(s) /\ Settled(s)
  BY DEF Sound
<1>1. /\ \A x \in V : /\ Saw(s, x) => s.ix[x] \in Nat
                       /\ s.lo[x] \in Nat /\ Len(s.sc[x]) \in Nat
                       /\ DOMAIN s.sc[x] = 1 .. Len(s.sc[x])
                       /\ \A i \in DOMAIN s.sc[x] : s.sc[x][i] \in V
      /\ Len(s.wk) \in Nat /\ DOMAIN s.wk = 1 .. Len(s.wk)
      /\ \A k \in DOMAIN s.wk : P(k) \in V /\ s.wk[k].looked \in Nat
      /\ \A x : On(s, x) => x \in V
  BY <1>n, NodeType
<1>e. t.sc = s.sc /\ t.ix = s.ix /\ t.st = s.st /\ t.co = s.co /\ t.nx = s.nx /\ t.nc = s.nc
  BY DEF Remains
<1>l. /\ t.lo \in [V -> Nat]
      /\ \A x \in V : x # u => t.lo[x] = s.lo[x]
  BY DEF Remains
<1>m. Len(s.wk) > 1 => /\ t.lo[u] <= s.lo[u] /\ t.lo[u] <= s.lo[v]
                       /\ t.lo[u] = s.lo[v] \/ t.lo[u] = s.lo[u]
  BY DEF Remains
<1>w. /\ t.wk \in Seq([node : V, looked : Nat]) /\ Len(t.wk) = Len(s.wk) - 1
      /\ \A k \in 1 .. Len(s.wk) - 1 : t.wk[k] = s.wk[k + 1]
  BY DEF Remains
<1>t. 1 \in DOMAIN s.wk /\ Saw(s, v) /\ s.wk[1].looked >= Len(s.sc[v]) /\ s.lo[v] # s.ix[v]
  BY DEF Remains
<1>v. P(1) = v /\ P(2) = u
  OBVIOUS
<1>2. v \in V /\ s.ix[v] \in Nat /\ s.lo[v] \in Nat
  BY <1>1, <1>t
<1>3. \A k \in DOMAIN s.wk : Saw(s, P(k)) /\ On(s, P(k)) /\ s.ix[P(k)] \in Nat /\ P(k) \in V
  <2>1. \A k \in DOMAIN s.wk : k = 1 \/ k \in 2 .. Len(s.wk)
    BY <1>1
  <2>2. \A k \in DOMAIN s.wk : Saw(s, P(k))
    BY <2>1, <1>t, <1>n DEF Walks
  <2> QED BY <2>2, <1>1, <1>n DEF Walks
<1>4. \A k \in DOMAIN s.wk : k # 1 => s.ix[P(k)] < s.ix[v] /\ Leads(s.sc, P(k), v) /\ P(k) # v
  <2>1. \A k \in DOMAIN s.wk : k # 1 => 1 < k
    BY <1>1
  <2> QED BY <2>1, <1>t, <1>n DEF Walks
<1>5. PICK z \in V : On(s, z) /\ s.ix[z] = s.lo[v] /\ Leads(s.sc, v, z)
  BY <1>t, <1>n DEF LowReal
<1>6. s.lo[v] < s.ix[v]
  <2>1. s.lo[v] <= s.ix[v]
    BY <1>t, <1>n DEF LowReal
  <2> QED BY <2>1, <1>2, <1>t
<1>7. PICK h \in DOMAIN s.wk : s.ix[P(h)] <= s.ix[z] /\ Leads(s.sc, z, P(h))
  BY <1>5, <1>n, <1>e DEF Rooted
<1>8. h # 1 /\ s.ix[P(h)] < s.ix[v] /\ Leads(s.sc, v, P(h))
  <2>1. h # 1
    <3>1. s.ix[P(h)] \in Nat /\ (h = 1 => s.ix[P(h)] = s.ix[v])
      BY <1>3
    <3> HIDE DEF P, v
    <3> QED BY <3>1, <1>2, <1>5, <1>6, <1>7
  <2> QED BY <2>1, <1>4, <1>5, <1>7, LeadsOn
<1>9. Len(s.wk) > 1 /\ 2 \in DOMAIN s.wk
  BY <1>1, <1>8
<1>10. DOMAIN t.wk = 1 .. Len(s.wk) - 1
  BY <1>w, LenProperties
<1>11. \A k \in DOMAIN t.wk : k + 1 \in DOMAIN s.wk /\ k + 1 # 1 /\ t.wk[k] = s.wk[k + 1] /\ Spot(t, k) = P(k + 1)
  <2> SUFFICES ASSUME NEW k \in DOMAIN t.wk
               PROVE  k + 1 \in DOMAIN s.wk /\ k + 1 # 1 /\ t.wk[k] = s.wk[k + 1] /\ Spot(t, k) = P(k + 1)
    OBVIOUS
  <2>1. k \in 1 .. Len(s.wk) - 1 /\ k + 1 \in DOMAIN s.wk /\ k + 1 # 1
    BY <1>1, <1>10
  <2>2. t.wk[k] = s.wk[k + 1]
    BY <2>1, <1>w
  <2> QED BY <2>1, <2>2 DEF Spot
<1>12. \A k \in DOMAIN s.wk : k # 1 => k - 1 \in DOMAIN t.wk /\ Spot(t, k - 1) = P(k)
  <2> SUFFICES ASSUME NEW k \in DOMAIN s.wk, k # 1 PROVE k - 1 \in DOMAIN t.wk /\ Spot(t, k - 1) = P(k)
    OBVIOUS
  <2>1. k - 1 \in DOMAIN t.wk /\ (k - 1) + 1 = k
    BY <1>1, <1>10
  <2> QED BY <2>1, <1>11
<1>13. \A x : (Saw(t, x) <=> Saw(s, x)) /\ (On(t, x) <=> On(s, x))
  BY <1>e DEF Saw, On
<1>14. Path(s) = Path(t) \cup {v}
  <2>1. \A x \in Path(t) : x \in Path(s)
    BY <1>11 DEF Path
  <2>2. \A x \in Path(s) : x \in Path(t) \/ x = v
    BY <1>12 DEF Path
  <2>3. v \in Path(s)
    BY <1>t DEF Path
  <2> QED BY <2>1, <2>2, <2>3
<1>15. \A x \in V : t.lo[x] <= s.lo[x] /\ t.lo[x] \in Nat /\ s.lo[x] \in Nat
  <2>1. \A x \in V : t.lo[x] \in Nat
    BY <1>l
  <2>2. \A x \in V : s.lo[x] \in Nat
    BY <1>n DEF TarjanType
  <2>3. \A x \in V : t.lo[x] <= s.lo[x]
    BY <2>1, <2>2, <1>9, <1>l, <1>m
  <2> QED BY <2>1, <2>2, <2>3
<1>16. Spot(t, 1) = u /\ 1 \in DOMAIN t.wk
  <2>1. 1 \in DOMAIN t.wk
    BY <1>1, <1>9, <1>10
  <2>2. Spot(t, 1) = P(1 + 1) /\ 1 + 1 = 2
    BY <2>1, <1>11
  <2> QED BY <2>1, <2>2
<1> HIDE DEF v, u
<1>20. TarjanType(t)
  BY <1>n, <1>e, <1>l, <1>w DEF TarjanType
<1>21. Numbered(t) /\ Stacked(t) /\ Settled(t)
  <2>1. Numbered(t)
    BY <1>n, <1>13, <1>e DEF Numbered
  <2>2. Stacked(t)
    BY <1>n, <1>13, <1>e DEF Stacked
  <2>3. Settled(t)
    BY <1>n, <1>13, <1>e DEF Settled
  <2> QED BY <2>1, <2>2, <2>3
<1>22. Walks(t)
  <2>1. \A k \in DOMAIN t.wk : t.wk[k].looked <= Len(s.sc[Spot(t, k)])
    <3> SUFFICES ASSUME NEW k \in DOMAIN t.wk PROVE t.wk[k].looked <= Len(s.sc[Spot(t, k)])
      OBVIOUS
    <3>1. s.wk[k + 1].looked <= Len(s.sc[P(k + 1)])
      BY <1>11, <1>n DEF Walks
    <3> QED BY <3>1, <1>11
  <2>2. \A k \in DOMAIN t.wk : Saw(s, Spot(t, k)) /\ On(s, Spot(t, k))
    BY <1>3, <1>11
  <2>3. ASSUME NEW i \in DOMAIN t.wk, NEW k \in DOMAIN t.wk, i < k
        PROVE  /\ Spot(t, i) # Spot(t, k) /\ s.ix[Spot(t, k)] < s.ix[Spot(t, i)]
               /\ Leads(s.sc, Spot(t, k), Spot(t, i))
    <3>1. i + 1 < k + 1
      BY <2>3, <1>1, <1>10
    <3>2. /\ P(i + 1) # P(k + 1) /\ Leads(s.sc, P(k + 1), P(i + 1))
          /\ Saw(s, P(i + 1)) => s.ix[P(k + 1)] < s.ix[P(i + 1)]
      BY <3>1, <1>11, <1>n DEF Walks
    <3>3. Saw(s, P(i + 1))
      BY <1>3, <1>11
    <3>4. Spot(t, i) = P(i + 1) /\ Spot(t, k) = P(k + 1)
      BY <1>11
    <3> HIDE DEF P
    <3> QED BY <3>2, <3>3, <3>4
  <2>4. \A k \in 2 .. Len(t.wk) : k \in DOMAIN t.wk
    BY <1>1, <1>10, <1>w
  <2> QED BY <2>1, <2>2, <2>3, <2>4, <1>13, <1>e DEF Walks
<1>23. Rooted(t)
  <2>1. ASSUME NEW y \in V, On(s, y)
        PROVE  \E k \in DOMAIN s.wk : k # 1 /\ s.ix[P(k)] <= s.ix[y] /\ Leads(s.sc, y, P(k))
    <3>1. PICK k \in DOMAIN s.wk : Saw(s, P(k)) /\ s.ix[P(k)] <= s.ix[y] /\ Leads(s.sc, y, P(k))
      BY <2>1, <1>n, <1>e DEF Rooted
    <3>2. CASE k # 1
      BY <3>1, <3>2
    <3>3. CASE k = 1
      <4>1. s.ix[v] <= s.ix[y] /\ Leads(s.sc, y, v)
        BY <3>1, <3>3, <1>v
      <4>2. s.ix[y] \in Nat
        BY <2>1, <1>1, <1>n, <1>e DEF Stacked, On
      <4>3. s.ix[P(h)] <= s.ix[y]
        <5>1. s.ix[P(h)] \in Nat /\ s.ix[P(h)] < s.ix[v]
          BY <1>3, <1>8
        <5> HIDE DEF P
        <5> QED BY <4>1, <4>2, <5>1, <1>2
      <4> QED BY <4>1, <4>3, <1>8, LeadsOn
    <3> QED BY <3>2, <3>3
  <2>2. ASSUME NEW y \in V, On(s, y)
        PROVE  \E k \in DOMAIN t.wk : Saw(s, Spot(t, k)) /\ s.ix[Spot(t, k)] <= s.ix[y] /\ Leads(s.sc, y, Spot(t, k))
    <3>1. PICK k \in DOMAIN s.wk : k # 1 /\ s.ix[P(k)] <= s.ix[y] /\ Leads(s.sc, y, P(k))
      BY <2>1, <2>2
    <3> QED BY <3>1, <1>3, <1>12
  <2>3. ASSUME NEW k \in DOMAIN t.wk, NEW y \in V, On(s, y), Saw(s, Spot(t, k)), s.ix[Spot(t, k)] <= s.ix[y]
        PROVE  Leads(s.sc, Spot(t, k), y)
    BY <2>3, <1>11, <1>n, <1>e DEF Rooted
  <2> QED BY <2>2, <2>3, <1>13, <1>e DEF Rooted
<1>24. LowReal(t)
  <2>1. ASSUME NEW k \in DOMAIN s.wk, k # 1
        PROVE  /\ t.lo[P(k)] <= s.ix[P(k)]
               /\ \E y \in V : On(s, y) /\ s.ix[y] = t.lo[P(k)] /\ Leads(s.sc, P(k), y)
    <3>1. /\ s.lo[P(k)] <= s.ix[P(k)]
          /\ \E y \in V : On(s, y) /\ s.ix[y] = s.lo[P(k)] /\ Leads(s.sc, P(k), y)
      BY <1>3, <1>n, <1>e DEF LowReal
    <3>2. t.lo[P(k)] <= s.ix[P(k)]
      <4>1. s.ix[P(k)] \in Nat /\ t.lo[P(k)] <= s.lo[P(k)] /\ t.lo[P(k)] \in Nat /\ s.lo[P(k)] \in Nat
        BY <1>3, <1>15
      <4> HIDE DEF P
      <4> QED BY <3>1, <4>1
    <3>3. CASE t.lo[P(k)] = s.lo[P(k)]
      BY <3>1, <3>2, <3>3
    <3>4. CASE t.lo[P(k)] # s.lo[P(k)]
      <4>1. P(k) = u /\ t.lo[P(k)] = s.lo[v]
        BY <3>4, <1>1, <1>9, <1>l, <1>m
      <4>2. Leads(s.sc, P(k), z)
        BY <2>1, <1>4, <1>5, LeadsOn
      <4> QED BY <3>2, <4>1, <4>2, <1>5
    <3> QED BY <3>3, <3>4
  <2> QED BY <2>1, <1>11, <1>13, <1>e DEF LowReal
<1>25. Heard(t)
  <2>1. \A k \in DOMAIN s.wk : \A i \in 1 .. s.wk[k].looked :
          /\ Saw(s, s.sc[P(k)][i])
          /\ On(s, s.sc[P(k)][i]) => s.lo[P(k)] <= s.ix[s.sc[P(k)][i]]
    BY <1>t, <1>v, <1>n DEF Heard
  <2>2. ASSUME NEW k \in DOMAIN s.wk, NEW i \in 1 .. s.wk[k].looked, On(s, s.sc[P(k)][i])
        PROVE  t.lo[P(k)] <= s.ix[s.sc[P(k)][i]]
    <3>1. s.lo[P(k)] <= s.ix[s.sc[P(k)][i]] /\ s.ix[s.sc[P(k)][i]] \in Nat
      BY <2>1, <2>2, <1>1
    <3>2. t.lo[P(k)] <= s.lo[P(k)] /\ t.lo[P(k)] \in Nat /\ s.lo[P(k)] \in Nat
      BY <1>1, <1>15
    <3> HIDE DEF P
    <3> QED BY <3>1, <3>2
  <2>3. \A k \in DOMAIN t.wk : /\ k + 1 \in DOMAIN s.wk /\ Spot(t, k) = P(k + 1)
                               /\ t.wk[k].looked = s.wk[k + 1].looked
    BY <1>11
  <2>4. ASSUME NEW k \in DOMAIN t.wk, NEW i \in 1 .. t.wk[k].looked
        PROVE  /\ Saw(s, s.sc[Spot(t, k)][i])
               /\ On(s, s.sc[Spot(t, k)][i]) => t.lo[Spot(t, k)] <= s.ix[s.sc[Spot(t, k)][i]]
    BY <2>1, <2>2, <2>3
  <2> QED BY <2>4, <1>13, <1>e DEF Heard
<1>26. LeftHeard(t)
  <2>0. \A i \in DOMAIN s.sc[v] : /\ Saw(s, s.sc[v][i])
                                  /\ On(s, s.sc[v][i]) => s.lo[v] <= s.ix[s.sc[v][i]]
    <3>1. \A i \in DOMAIN s.sc[v] : i \in 1 .. s.wk[1].looked
      <4>1. Len(s.sc[v]) \in Nat /\ DOMAIN s.sc[v] = 1 .. Len(s.sc[v]) /\ s.wk[1].looked \in Nat
        BY <1>1, <1>2, <1>t
      <4> QED BY <4>1, <1>t
    <3> QED BY <3>1, <1>t, <1>v, <1>n DEF Heard
  <2>1. ASSUME NEW x \in V, Saw(s, x), x \notin Path(t), NEW i \in DOMAIN s.sc[x]
        PROVE  /\ Saw(s, s.sc[x][i])
               /\ On(s, x) /\ On(s, s.sc[x][i]) =>
                    \A k \in DOMAIN t.wk : Charged(t, k, x) => t.lo[Spot(t, k)] <= s.ix[s.sc[x][i]]
    <3> DEFINE w == s.sc[x][i]
    <3>1. /\ Saw(s, w)
          /\ On(s, x) /\ On(s, w) /\ x # v => \A k \in DOMAIN s.wk : Charged(s, k, x) => s.lo[P(k)] <= s.ix[w]
      <4>1. CASE x = v
        BY <4>1, <2>0
      <4>2. CASE x # v
        <5>1. x \notin Path(s)
          BY <2>1, <4>2, <1>14
        <5> QED BY <2>1, <5>1, <1>n, <1>e DEF LeftHeard
      <4> QED BY <4>1, <4>2
    <3>2. w \in V /\ s.ix[w] \in Nat /\ s.ix[x] \in Nat
      BY <2>1, <3>1, <1>1
    <3>3. ASSUME On(s, x), On(s, w), NEW k \in DOMAIN t.wk, Charged(t, k, x)
          PROVE  t.lo[Spot(t, k)] <= s.ix[w]
      <4>1. s.ix[Spot(t, k)] <= s.ix[x] /\ (k = 1 \/ s.ix[x] < s.ix[Spot(t, k - 1)])
        <5>1. k # 1 => k - 1 \in DOMAIN t.wk
          BY <1>1, <1>10
        <5> QED BY <3>3, <5>1, <1>3, <1>11, <1>13, <1>e DEF Charged
      <4>2. k # 1 => k - 1 \in DOMAIN t.wk /\ Spot(t, k - 1) = P(k)
        BY <1>11, <1>12, <1>1, <1>10
      <4>3. CASE Charged(s, k + 1, x) /\ x # v
        <5>1. s.lo[P(k + 1)] <= s.ix[w]
          BY <3>1, <3>3, <4>3, <1>11
        <5>2. /\ Spot(t, k) = P(k + 1) /\ t.lo[P(k + 1)] <= s.lo[P(k + 1)]
              /\ t.lo[P(k + 1)] \in Nat /\ s.lo[P(k + 1)] \in Nat
          BY <1>1, <1>11, <1>15
        <5> HIDE DEF P
        <5> QED BY <5>1, <5>2, <3>2
      <4>4. CASE x # v /\ ~ Charged(s, k + 1, x)
        <5>1. k = 1 /\ s.ix[v] <= s.ix[x]
          <6>1. (k + 1) - 1 = k
            BY <1>1, <1>10
          <6>2. ~ (s.ix[x] < s.ix[P(k)])
            BY <4>1, <4>4, <6>1, <1>3, <1>11 DEF Charged
          <6>3. k = 1
            BY <4>1, <4>2, <6>2
          <6>4. ~ (s.ix[x] < s.ix[v])
            BY <6>2, <6>3, <1>v
          <6> QED BY <6>3, <6>4, <3>2, <1>2
        <5>2. Charged(s, 1, x)
          BY <5>1, <1>t, <1>v DEF Charged
        <5>3. s.lo[v] <= s.ix[w]
          BY <3>1, <3>3, <4>4, <5>2, <1>t, <1>v
        <5>4. t.lo[u] <= s.lo[v]
          BY <1>9, <1>m
        <5>5. Spot(t, k) = u /\ u \in V
          BY <5>1, <1>9, <1>1, <1>16, <1>v
        <5>6. t.lo[u] \in Nat
          BY <5>5, <1>15
        <5>7. t.lo[u] <= s.ix[w]
          BY <5>3, <5>4, <5>6, <3>2, <1>2
        <5> QED BY <5>5, <5>7
      <4>5. CASE x = v
        <5>1. k = 1
          <6> SUFFICES ASSUME k # 1 PROVE FALSE
            OBVIOUS
          <6>1. k \in DOMAIN s.wk /\ s.ix[v] < s.ix[P(k)]
            BY <4>1, <4>2, <4>5, <1>1, <1>10
          <6>2. s.ix[P(k)] < s.ix[v] /\ s.ix[P(k)] \in Nat
            BY <6>1, <1>3, <1>4
          <6> HIDE DEF P
          <6> QED BY <6>1, <6>2, <1>2
        <5>3. s.lo[v] <= s.ix[w]
          BY <2>0, <3>3, <4>5
        <5>4. t.lo[u] <= s.lo[v]
          BY <1>9, <1>m
        <5>5. Spot(t, k) = u /\ u \in V
          BY <5>1, <1>9, <1>1, <1>16, <1>v
        <5>6. t.lo[u] \in Nat
          BY <5>5, <1>15
        <5>7. t.lo[u] <= s.ix[w]
          BY <5>3, <5>4, <5>6, <3>2, <1>2
        <5> QED BY <5>5, <5>7
      <4> QED BY <4>3, <4>4, <4>5
    <3> QED BY <3>1, <3>3
  <2> QED BY <2>1, <1>13, <1>e DEF LeftHeard
<1> QED
  <2>1. Sound(t)
    BY <1>20, <1>21, <1>22, <1>23, <1>24, <1>25, <1>26 DEF Sound
  <2> QED BY <2>1, <1>3, <1>9, <1>13, <1>16, <1>v

\* The top is left, as low as itself: what is on the stack down to it is a
\* component.
Closes(s, t) ==
  /\ 1 \in DOMAIN s.wk /\ Saw(s, Spot(s, 1))
  /\ s.wk[1].looked >= Len(s.sc[Spot(s, 1)])
  /\ s.lo[Spot(s, 1)] = s.ix[Spot(s, 1)]
  /\ t.sc = s.sc /\ t.ix = s.ix /\ t.nx = s.nx /\ t.nc = s.nc + 1
  /\ t.lo \in [DOMAIN s.sc -> Nat]
  /\ \A x \in DOMAIN s.sc : x # Spot(s, 2) => t.lo[x] = s.lo[x]
  /\ Len(s.wk) <= 1 => t.lo = s.lo
  /\ Len(s.wk) > 1 => /\ t.lo[Spot(s, 2)] <= s.lo[Spot(s, 2)]
                      /\ t.lo[Spot(s, 2)] \in {s.lo[Spot(s, 1)], s.lo[Spot(s, 2)]}
  /\ t.wk \in Seq([node : DOMAIN s.sc, looked : Nat])
  /\ Len(t.wk) = Len(s.wk) - 1
  /\ \A k \in 1 .. Len(s.wk) - 1 : t.wk[k] = s.wk[k + 1]
  /\ \E r \in DOMAIN s.st :
       /\ s.st[r] = Spot(s, 1)
       /\ t.st \in Seq(DOMAIN s.sc) /\ Len(t.st) = Len(s.st) - r
       /\ \A k \in 1 .. Len(s.st) - r : t.st[k] = s.st[r + k]
       /\ t.co \in [DOMAIN s.sc -> Nat]
       /\ \A x \in DOMAIN s.sc : t.co[x] = IF x \in {s.st[k] : k \in 1 .. r} THEN s.nc ELSE s.co[x]

\* The top is left with its component.
LEMMA ClosesSound ==
  ASSUME NEW s, NEW t, Sound(s), Closes(s, t)
  PROVE  Sound(t) /\ (t.wk # <<>> => Saw(t, Spot(t, 1)))
<1> DEFINE v == Spot(s, 1)
           u == Spot(s, 2)
           V == DOMAIN s.sc
           P(k) == Spot(s, k)
<1>n. /\ TarjanType(s) /\ Numbered(s) /\ Stacked(s) /\ Walks(s) /\ Rooted(s)
      /\ LowReal(s) /\ Heard(s) /\ LeftHeard(s) /\ Settled(s)
  BY DEF Sound
<1>1. /\ \A x \in V : /\ Saw(s, x) => s.ix[x] \in Nat
                       /\ Len(s.sc[x]) \in Nat
                       /\ DOMAIN s.sc[x] = 1 .. Len(s.sc[x])
                       /\ \A i \in DOMAIN s.sc[x] : s.sc[x][i] \in V
      /\ Len(s.wk) \in Nat /\ DOMAIN s.wk = 1 .. Len(s.wk)
      /\ \A k \in DOMAIN s.wk : P(k) \in V /\ s.wk[k].looked \in Nat
      /\ \A x : On(s, x) => x \in V
      /\ Len(s.st) \in Nat /\ DOMAIN s.st = 1 .. Len(s.st)
      /\ \A k \in DOMAIN s.st : s.st[k] \in V
  BY <1>n, NodeType
<1>o. \A x \in V : s.lo[x] \in Nat /\ s.co[x] \in Nat
  BY <1>n DEF TarjanType
<1>p. s.nc \in Nat
  BY <1>n DEF TarjanType
<1>q. \A x \in V : \A i \in DOMAIN s.sc[x] : s.sc[x][i] \in V
  BY <1>n, NodeType
<1>e. t.sc = s.sc /\ t.ix = s.ix /\ t.nx = s.nx /\ t.nc = s.nc + 1
  BY DEF Closes
<1>l. /\ t.lo \in [V -> Nat]
      /\ \A x \in V : x # u => t.lo[x] = s.lo[x]
  BY DEF Closes
<1>m. Len(s.wk) > 1 => t.lo[u] <= s.lo[u] /\ (t.lo[u] = s.lo[v] \/ t.lo[u] = s.lo[u])
  BY DEF Closes
<1>s. Len(s.wk) <= 1 => t.lo = s.lo
  BY DEF Closes
<1>w. /\ t.wk \in Seq([node : V, looked : Nat]) /\ Len(t.wk) = Len(s.wk) - 1
      /\ \A k \in 1 .. Len(s.wk) - 1 : t.wk[k] = s.wk[k + 1]
  BY DEF Closes
<1>t. 1 \in DOMAIN s.wk /\ Saw(s, v) /\ s.wk[1].looked >= Len(s.sc[v]) /\ s.lo[v] = s.ix[v]
  BY DEF Closes
<1>r. PICK r \in DOMAIN s.st :
        /\ s.st[r] = v
        /\ t.st \in Seq(V) /\ Len(t.st) = Len(s.st) - r
        /\ \A k \in 1 .. Len(s.st) - r : t.st[k] = s.st[r + k]
        /\ t.co \in [V -> Nat]
        /\ \A x \in V : t.co[x] = IF x \in {s.st[k] : k \in 1 .. r} THEN s.nc ELSE s.co[x]
  BY DEF Closes
<1>v. P(1) = v /\ P(2) = u
  OBVIOUS
<1>2. v \in V /\ s.ix[v] \in Nat /\ On(s, v)
  BY <1>1, <1>t, <1>r DEF On
<1>3. \A k \in DOMAIN s.wk : Saw(s, P(k)) /\ On(s, P(k)) /\ s.ix[P(k)] \in Nat /\ P(k) \in V
  <2>1. \A k \in DOMAIN s.wk : k = 1 \/ k \in 2 .. Len(s.wk)
    BY <1>1
  <2>2. \A k \in DOMAIN s.wk : Saw(s, P(k))
    BY <2>1, <1>t, <1>n DEF Walks
  <2> QED BY <2>2, <1>1, <1>n DEF Walks
<1>4. \A k \in DOMAIN s.wk : k # 1 => s.ix[P(k)] < s.ix[v] /\ P(k) # v
  <2>1. \A k \in DOMAIN s.wk : k # 1 => 1 < k
    BY <1>1
  <2> QED BY <2>1, <1>t, <1>n DEF Walks
<1>5. \A x : On(s, x) => Saw(s, x) /\ x \in V /\ s.ix[x] \in Nat
  <2>1. \A x : On(s, x) => Saw(s, x)
    BY <1>n DEF Stacked, On
  <2> QED BY <2>1, <1>1
<1>10. DOMAIN t.wk = 1 .. Len(s.wk) - 1
  BY <1>w, LenProperties
<1>11. \A k \in DOMAIN t.wk : k + 1 \in DOMAIN s.wk /\ k + 1 # 1 /\ t.wk[k] = s.wk[k + 1] /\ Spot(t, k) = P(k + 1)
  <2> SUFFICES ASSUME NEW k \in DOMAIN t.wk
               PROVE  k + 1 \in DOMAIN s.wk /\ k + 1 # 1 /\ t.wk[k] = s.wk[k + 1] /\ Spot(t, k) = P(k + 1)
    OBVIOUS
  <2>1. k \in 1 .. Len(s.wk) - 1 /\ k + 1 \in DOMAIN s.wk /\ k + 1 # 1
    BY <1>1, <1>10
  <2>2. t.wk[k] = s.wk[k + 1]
    BY <2>1, <1>w
  <2> QED BY <2>1, <2>2 DEF Spot
<1>12. \A k \in DOMAIN s.wk : k # 1 => k - 1 \in DOMAIN t.wk /\ Spot(t, k - 1) = P(k)
  <2> SUFFICES ASSUME NEW k \in DOMAIN s.wk, k # 1 PROVE k - 1 \in DOMAIN t.wk /\ Spot(t, k - 1) = P(k)
    OBVIOUS
  <2>1. k - 1 \in DOMAIN t.wk /\ (k - 1) + 1 = k
    BY <1>1, <1>10
  <2> QED BY <2>1, <1>11
\* What is taken off the stack: what is on it and no earlier than v.
<1> DEFINE Off(x) == On(s, x) /\ s.ix[v] <= s.ix[x]
<1>6. \A k \in DOMAIN s.st : k <= r <=> s.ix[v] <= s.ix[s.st[k]]
  <2> SUFFICES ASSUME NEW k \in DOMAIN s.st PROVE k <= r <=> s.ix[v] <= s.ix[s.st[k]]
    OBVIOUS
  <2>1. /\ k < r => s.ix[v] < s.ix[s.st[k]]
        /\ r < k => s.ix[s.st[k]] < s.ix[v]
    BY <1>r, <1>n DEF Stacked
  <2>2. s.ix[s.st[k]] \in Nat
    BY <1>5 DEF On
  <2>3. k = r => s.ix[v] = s.ix[s.st[k]]
    BY <1>r
  <2>4. k \in Int /\ r \in Int
    BY <1>1
  <2> HIDE DEF v
  <2> QED BY <2>1, <2>2, <2>3, <2>4, <1>2
<1>7. \A x : x \in {s.st[k] : k \in 1 .. r} <=> Off(x)
  <2>1. ASSUME NEW k \in 1 .. r PROVE Off(s.st[k])
    <3>1. k \in DOMAIN s.st /\ k <= r
      BY <1>1
    <3> QED BY <3>1, <1>6 DEF On
  <2>2. ASSUME NEW x, Off(x) PROVE \E k \in 1 .. r : x = s.st[k]
    <3>1. PICK k \in DOMAIN s.st : s.st[k] = x
      BY <2>2 DEF On
    <3>2. k <= r
      BY <2>2, <3>1, <1>6
    <3>3. k \in 1 .. r
      BY <3>1, <3>2, <1>1
    <3> QED BY <3>1, <3>3
  <2> QED BY <2>1, <2>2
<1>8. \A x : On(t, x) <=> On(s, x) /\ s.ix[x] < s.ix[v]
  <2>1. DOMAIN t.st = 1 .. Len(s.st) - r
    BY <1>r, LenProperties
  <2>2. ASSUME NEW x, On(t, x) PROVE On(s, x) /\ s.ix[x] < s.ix[v]
    <3>1. PICK k \in 1 .. Len(s.st) - r : t.st[k] = x
      BY <2>1, <2>2 DEF On
    <3>2. r + k \in DOMAIN s.st /\ ~ (r + k <= r)
      BY <1>1
    <3>3. s.st[r + k] = x
      BY <3>1, <1>r
    <3>4. On(s, x) /\ ~ (s.ix[v] <= s.ix[x])
      BY <3>2, <3>3, <1>6 DEF On
    <3>5. s.ix[x] \in Nat
      BY <3>4, <1>5
    <3> QED BY <3>4, <3>5, <1>2
  <2>3. ASSUME NEW x, On(s, x), s.ix[x] < s.ix[v] PROVE On(t, x)
    <3>1. PICK k \in DOMAIN s.st : s.st[k] = x
      BY <2>3 DEF On
    <3>2. ~ (s.ix[v] <= s.ix[x])
      BY <2>3, <1>2, <1>5
    <3>3. ~ (k <= r)
      BY <3>1, <3>2, <1>6
    <3>4. k - r \in 1 .. Len(s.st) - r /\ r + (k - r) = k
      BY <3>3, <1>1
    <3>5. t.st[k - r] = s.st[r + (k - r)]
      BY <3>4, <1>r
    <3> QED BY <3>1, <3>4, <3>5, <2>1 DEF On
  <2> QED BY <2>2, <2>3
<1>9. \A x \in V : Saw(s, x) /\ ~ On(t, x) <=> (Saw(s, x) /\ ~ On(s, x)) \/ Off(x)
  <2> SUFFICES ASSUME NEW x \in V
               PROVE  Saw(s, x) /\ ~ On(t, x) <=> (Saw(s, x) /\ ~ On(s, x)) \/ Off(x)
    OBVIOUS
  <2>1. On(s, x) => (s.ix[x] < s.ix[v] <=> ~ (s.ix[v] <= s.ix[x]))
    BY <1>2, <1>5
  <2> HIDE DEF v
  <2> QED BY <2>1, <1>5, <1>8
<1>13. \A x : Saw(t, x) <=> Saw(s, x)
  BY <1>e DEF Saw
<1>14. Path(s) = Path(t) \cup {v}
  <2>1. \A x \in Path(t) : x \in Path(s)
    BY <1>11 DEF Path
  <2>2. \A x \in Path(s) : x \in Path(t) \/ x = v
    BY <1>12 DEF Path
  <2>3. v \in Path(s)
    BY <1>t DEF Path
  <2> QED BY <2>1, <2>2, <2>3
<1>15. t.lo = s.lo
  <2>1. ASSUME NEW x \in V, x = u, Len(s.wk) > 1 PROVE t.lo[x] = s.lo[x]
    <3>1. 2 \in DOMAIN s.wk /\ P(2) = u
      BY <2>1, <1>1
    <3>2. s.ix[u] < s.ix[v] /\ s.ix[u] \in Nat /\ s.lo[u] <= s.ix[u]
      BY <3>1, <1>3, <1>4, <1>n DEF LowReal
    <3>3. s.lo[u] \in Nat
      BY <2>1, <1>o
    <3>4. t.lo[u] <= s.lo[u] /\ (t.lo[u] = s.ix[v] \/ t.lo[u] = s.lo[u])
      BY <2>1, <1>m, <1>t
    <3> HIDE DEF u, v
    <3> QED BY <2>1, <3>2, <3>3, <3>4, <1>2
  <2>2. ASSUME NEW x \in V PROVE t.lo[x] = s.lo[x]
    <3>1. CASE x = u /\ Len(s.wk) > 1
      BY <2>1, <3>1
    <3>2. CASE x # u
      BY <3>2, <1>l
    <3>3. CASE ~ (Len(s.wk) > 1)
      BY <3>3, <1>1, <1>s
    <3> QED BY <3>1, <3>2, <3>3
  <2> QED BY <2>2, <1>l, <1>n DEF TarjanType
<1> HIDE DEF v, u
\* No edge leaves it but to what is settled.
<1>16. \A x : Off(x) /\ x # v => x \notin Path(s)
  <2>1. ASSUME NEW k \in DOMAIN s.wk, Off(P(k)) PROVE k = 1
    <3>1. k # 1 => s.ix[P(k)] < s.ix[v] /\ s.ix[P(k)] \in Nat
      BY <1>3, <1>4
    <3>2. s.ix[v] <= s.ix[P(k)]
      BY <2>1
    <3> HIDE DEF P
    <3> QED BY <3>1, <3>2, <1>2
  <2> QED BY <2>1, <1>v DEF Path
<1>17. \A i \in DOMAIN s.sc[v] : /\ Saw(s, s.sc[v][i])
                                 /\ On(s, s.sc[v][i]) => s.lo[v] <= s.ix[s.sc[v][i]]
  <2>1. \A i \in DOMAIN s.sc[v] : i \in 1 .. s.wk[1].looked
    <3>1. Len(s.sc[v]) \in Nat /\ DOMAIN s.sc[v] = 1 .. Len(s.sc[v]) /\ s.wk[1].looked \in Nat
      BY <1>1, <1>2, <1>t
    <3> QED BY <3>1, <1>t
  <2> QED BY <2>1, <1>t, <1>v, <1>n DEF Heard
<1>18. ASSUME NEW x, Off(x), NEW i \in DOMAIN s.sc[x]
       PROVE  Saw(s, s.sc[x][i]) /\ (On(s, s.sc[x][i]) => Off(s.sc[x][i]))
  <2>1. CASE x = v
    BY <2>1, <1>17, <1>t
  <2>2. CASE x # v
    <3>1. x \notin Path(s) /\ Saw(s, x) /\ x \in V
      BY <2>2, <1>18, <1>5, <1>16
    <3>2. Charged(s, 1, x)
      BY <1>18, <1>t, <1>v DEF Charged
    <3>3. Saw(s, s.sc[x][i]) /\ (On(s, s.sc[x][i]) => s.lo[v] <= s.ix[s.sc[x][i]])
      BY <1>18, <3>1, <3>2, <1>t, <1>v, <1>n DEF LeftHeard
    <3> QED BY <3>3, <1>t
  <2> QED BY <2>1, <2>2
\* Its nodes lead to v and v leads to them.
<1>19. ASSUME NEW x, Off(x) PROVE Leads(s.sc, v, x) /\ Leads(s.sc, x, v)
  <2>1. x \in V
    BY <1>19, <1>5
  <2>2. Leads(s.sc, v, x)
    BY <2>1, <1>19, <1>t, <1>v, <1>n DEF Rooted
  <2>3. PICK k \in DOMAIN s.wk : Leads(s.sc, x, P(k))
    BY <2>1, <1>19, <1>n DEF Rooted
  <2> DEFINE C == {y \in V : Saw(s, y) /\ (On(s, y) => Off(y))}
  <2>4. Kept(s.sc, C)
    <3>1. ASSUME NEW y \in C, NEW i \in DOMAIN s.sc[y] PROVE s.sc[y][i] \in C
      <4>1. s.sc[y][i] \in V
        BY <1>1
      <4>2. CASE On(s, y)
        BY <4>1, <4>2, <1>18
      <4>3. CASE ~ On(s, y)
        BY <4>1, <4>3, <1>n DEF Settled
      <4> QED BY <4>2, <4>3
    <3> QED BY <3>1 DEF Kept
  <2>5. x \in C
    BY <2>1, <1>19, <1>5
  <2>6. P(k) \in C
    BY <2>3, <2>4, <2>5 DEF Leads
  <2>7. k = 1
    <3>1. s.ix[v] <= s.ix[P(k)]
      BY <2>6, <1>3
    <3>2. k # 1 => s.ix[P(k)] < s.ix[v] /\ s.ix[P(k)] \in Nat
      BY <1>3, <1>4
    <3> HIDE DEF P
    <3> QED BY <3>1, <3>2, <1>2
  <2> QED BY <2>2, <2>3, <2>7, <1>v
<1>20. TarjanType(t)
  <2>1. t.nc \in Nat
    BY <1>e, <1>p
  <2> QED BY <2>1, <1>n, <1>e, <1>l, <1>w, <1>r DEF TarjanType
<1>21. Numbered(t)
  BY <1>n, <1>13, <1>e DEF Numbered
<1>22. Stacked(t)
  <2>1. DOMAIN t.st = 1 .. Len(s.st) - r
    BY <1>r, LenProperties
  <2>2. \A k \in DOMAIN t.st : On(t, t.st[k])
    BY DEF On
  <2>3. \A k \in DOMAIN t.st : Saw(s, t.st[k])
    BY <2>2, <1>5, <1>8
  <2>4. ASSUME NEW i \in DOMAIN t.st, NEW j \in DOMAIN t.st, i < j PROVE s.ix[t.st[j]] < s.ix[t.st[i]]
    <3>1. r + i \in DOMAIN s.st /\ r + j \in DOMAIN s.st /\ r + i < r + j
      BY <2>1, <2>4, <1>1
    <3>2. t.st[i] = s.st[r + i] /\ t.st[j] = s.st[r + j]
      BY <2>1, <1>r
    <3> QED BY <3>1, <3>2, <1>n DEF Stacked
  <2> QED BY <2>3, <2>4, <1>13, <1>e DEF Stacked
<1>23. \A k \in DOMAIN t.wk : On(t, Spot(t, k)) /\ Saw(s, Spot(t, k))
  <2> SUFFICES ASSUME NEW k \in DOMAIN t.wk PROVE On(t, Spot(t, k)) /\ Saw(s, Spot(t, k))
    OBVIOUS
  <2>1. k + 1 \in DOMAIN s.wk /\ k + 1 # 1 /\ Spot(t, k) = P(k + 1)
    BY <1>11
  <2> QED BY <2>1, <1>3, <1>4, <1>8
<1>24. Walks(t)
  <2>1. \A k \in DOMAIN t.wk : t.wk[k].looked <= Len(s.sc[Spot(t, k)])
    <3> SUFFICES ASSUME NEW k \in DOMAIN t.wk PROVE t.wk[k].looked <= Len(s.sc[Spot(t, k)])
      OBVIOUS
    <3>1. s.wk[k + 1].looked <= Len(s.sc[P(k + 1)])
      BY <1>11, <1>n DEF Walks
    <3> QED BY <3>1, <1>11
  <2>3. ASSUME NEW i \in DOMAIN t.wk, NEW k \in DOMAIN t.wk, i < k
        PROVE  /\ Spot(t, i) # Spot(t, k) /\ s.ix[Spot(t, k)] < s.ix[Spot(t, i)]
               /\ Leads(s.sc, Spot(t, k), Spot(t, i))
    <3>1. i + 1 < k + 1
      BY <2>3, <1>1, <1>10
    <3>2. /\ P(i + 1) # P(k + 1) /\ Leads(s.sc, P(k + 1), P(i + 1))
          /\ Saw(s, P(i + 1)) => s.ix[P(k + 1)] < s.ix[P(i + 1)]
      BY <3>1, <1>11, <1>n DEF Walks
    <3>3. Saw(s, P(i + 1))
      BY <1>3, <1>11
    <3>4. Spot(t, i) = P(i + 1) /\ Spot(t, k) = P(k + 1)
      BY <1>11
    <3> HIDE DEF P
    <3> QED BY <3>2, <3>3, <3>4
  <2>4. \A k \in 2 .. Len(t.wk) : k \in DOMAIN t.wk
    BY <1>1, <1>10, <1>w
  <2> QED BY <2>1, <2>3, <2>4, <1>13, <1>23, <1>e DEF Walks
<1>25. Rooted(t)
  <2>1. ASSUME NEW y \in V, On(t, y)
        PROVE  \E k \in DOMAIN t.wk : Saw(s, Spot(t, k)) /\ s.ix[Spot(t, k)] <= s.ix[y] /\ Leads(s.sc, y, Spot(t, k))
    <3>1. On(s, y) /\ s.ix[y] < s.ix[v] /\ s.ix[y] \in Nat
      BY <2>1, <1>5, <1>8
    <3>2. PICK k \in DOMAIN s.wk : Saw(s, P(k)) /\ s.ix[P(k)] <= s.ix[y] /\ Leads(s.sc, y, P(k))
      BY <3>1, <1>n DEF Rooted
    <3>3. k # 1
      <4>1. k = 1 => s.ix[v] <= s.ix[y]
        BY <3>2, <1>v
      <4> QED BY <3>1, <4>1, <1>2
    <3> QED BY <3>2, <3>3, <1>12
  <2>2. ASSUME NEW k \in DOMAIN t.wk, NEW y \in V, On(t, y), s.ix[Spot(t, k)] <= s.ix[y]
        PROVE  Leads(s.sc, Spot(t, k), y)
    <3>1. On(s, y)
      BY <2>2, <1>8
    <3> QED BY <2>2, <3>1, <1>3, <1>11, <1>n DEF Rooted
  <2> QED BY <2>1, <2>2, <1>13, <1>e DEF Rooted
<1>26. LowReal(t)
  <2>1. ASSUME NEW k \in DOMAIN s.wk, k # 1
        PROVE  /\ s.lo[P(k)] <= s.ix[P(k)]
               /\ \E y \in V : On(t, y) /\ s.ix[y] = s.lo[P(k)] /\ Leads(s.sc, P(k), y)
    <3>1. s.lo[P(k)] <= s.ix[P(k)]
      BY <1>3, <1>n DEF LowReal
    <3>2. PICK y \in V : On(s, y) /\ s.ix[y] = s.lo[P(k)] /\ Leads(s.sc, P(k), y)
      BY <1>3, <1>n DEF LowReal
    <3>3. s.ix[y] < s.ix[v]
      <4>1. s.ix[P(k)] < s.ix[v] /\ s.ix[P(k)] \in Nat /\ s.lo[P(k)] \in Nat
        BY <2>1, <1>3, <1>4, <1>o
      <4> HIDE DEF P
      <4> QED BY <3>1, <3>2, <4>1, <1>2
    <3> QED BY <3>1, <3>2, <3>3, <1>8
  <2> QED BY <2>1, <1>11, <1>13, <1>15, <1>e DEF LowReal
<1>27. Heard(t)
  <2>1. \A k \in DOMAIN s.wk : \A i \in 1 .. s.wk[k].looked :
          /\ Saw(s, s.sc[P(k)][i])
          /\ On(s, s.sc[P(k)][i]) => s.lo[P(k)] <= s.ix[s.sc[P(k)][i]]
    BY <1>t, <1>v, <1>n DEF Heard
  <2>2. \A k \in DOMAIN t.wk : /\ k + 1 \in DOMAIN s.wk /\ Spot(t, k) = P(k + 1)
                               /\ t.wk[k].looked = s.wk[k + 1].looked
    BY <1>11
  <2>3. ASSUME NEW k \in DOMAIN t.wk, NEW i \in 1 .. t.wk[k].looked
        PROVE  /\ Saw(s, s.sc[Spot(t, k)][i])
               /\ On(t, s.sc[Spot(t, k)][i]) => s.lo[Spot(t, k)] <= s.ix[s.sc[Spot(t, k)][i]]
    BY <2>1, <2>2, <1>8
  <2> QED BY <2>3, <1>13, <1>15, <1>e DEF Heard
<1>28. LeftHeard(t)
  <2>1. ASSUME NEW x \in V, Saw(s, x), x \notin Path(t), NEW i \in DOMAIN s.sc[x]
        PROVE  /\ Saw(s, s.sc[x][i])
               /\ On(t, x) /\ On(t, s.sc[x][i]) =>
                    \A k \in DOMAIN t.wk : Charged(t, k, x) => s.lo[Spot(t, k)] <= s.ix[s.sc[x][i]]
    <3> DEFINE w == s.sc[x][i]
    <3>1. CASE x = v
      <4>1. ~ On(t, v)
        BY <1>2, <1>8
      <4> QED BY <3>1, <4>1, <1>17
    <3>2. CASE x # v
      <4>1. x \notin Path(s)
        BY <2>1, <3>2, <1>14
      <4>2. /\ Saw(s, w)
            /\ On(s, x) /\ On(s, w) => \A k \in DOMAIN s.wk : Charged(s, k, x) => s.lo[P(k)] <= s.ix[w]
        BY <2>1, <4>1, <1>n DEF LeftHeard
      <4>3. ASSUME On(t, x), On(t, w), NEW k \in DOMAIN t.wk, Charged(t, k, x)
            PROVE  s.lo[Spot(t, k)] <= s.ix[w]
        <5>1. k + 1 \in DOMAIN s.wk /\ Spot(t, k) = P(k + 1)
          BY <1>11
        <5>2. On(s, x) /\ s.ix[x] < s.ix[v] /\ On(s, w)
          BY <4>3, <1>8
        <5>3. k = 1 \/ (k - 1 \in DOMAIN t.wk /\ Spot(t, k - 1) = P(k))
          <6>1. k # 1 => k \in DOMAIN s.wk
            BY <1>1, <1>10
          <6> QED BY <6>1, <1>12
        <5>4. Saw(s, P(k + 1)) /\ s.ix[P(k + 1)] <= s.ix[x]
              /\ (k = 1 \/ ~ Saw(s, Spot(t, k - 1)) \/ s.ix[x] < s.ix[Spot(t, k - 1)])
          BY <4>3, <5>1, <1>13, <1>e DEF Charged
        <5>5. ~ Saw(s, P(k)) \/ s.ix[x] < s.ix[P(k)]
          BY <5>2, <5>3, <5>4, <1>v
        <5>6. (k + 1) - 1 = k
          BY <1>1, <1>10
        <5>7. Charged(s, k + 1, x)
          BY <5>4, <5>5, <5>6 DEF Charged
        <5> QED BY <4>2, <5>1, <5>2, <5>7
      <4> QED BY <4>2, <4>3
    <3> QED BY <3>1, <3>2
  <2> QED BY <2>1, <1>13, <1>15, <1>e DEF LeftHeard
<1>29. Settled(t)
  <2>1. \A x \in V : /\ Off(x) => t.co[x] = s.nc
                     /\ ~ Off(x) => t.co[x] = s.co[x]
    BY <1>7, <1>r
  <2>2. \A x \in V : Saw(s, x) /\ ~ On(s, x) => s.co[x] < s.nc /\ s.co[x] \in Nat
    BY <1>n, <1>o DEF Settled
  <2>3. ASSUME NEW x \in V, Saw(s, x), ~ On(t, x)
        PROVE  /\ t.co[x] < s.nc + 1
               /\ \A i \in DOMAIN s.sc[x] : /\ Saw(s, s.sc[x][i]) /\ ~ On(t, s.sc[x][i])
                                            /\ t.co[s.sc[x][i]] <= t.co[x]
    <3>1. CASE ~ On(s, x)
      <4>1. t.co[x] = s.co[x]
        BY <3>1, <2>1
      <4>2. ASSUME NEW i \in DOMAIN s.sc[x]
            PROVE  /\ Saw(s, s.sc[x][i]) /\ ~ On(t, s.sc[x][i])
                   /\ t.co[s.sc[x][i]] <= t.co[x]
        <5>1. Saw(s, s.sc[x][i]) /\ ~ On(s, s.sc[x][i]) /\ s.co[s.sc[x][i]] <= s.co[x]
          BY <2>3, <3>1, <1>n DEF Settled
        <5>2. s.sc[x][i] \in V
          BY <1>q
        <5> QED BY <4>1, <5>1, <5>2, <2>1, <1>8
      <4> QED BY <4>1, <4>2, <2>2, <2>3, <3>1, <1>p
    <3>2. CASE On(s, x)
      <4>1. Off(x)
        BY <2>3, <3>2, <1>9
      <4>2. t.co[x] = s.nc
        BY <4>1, <2>1
      <4>3. ASSUME NEW i \in DOMAIN s.sc[x]
            PROVE  /\ Saw(s, s.sc[x][i]) /\ ~ On(t, s.sc[x][i])
                   /\ t.co[s.sc[x][i]] <= t.co[x]
        <5>1. Saw(s, s.sc[x][i]) /\ (On(s, s.sc[x][i]) => Off(s.sc[x][i]))
          BY <4>1, <1>18
        <5>2. s.sc[x][i] \in V
          BY <1>q
        <5>3. ~ On(t, s.sc[x][i])
          BY <5>1, <5>2, <1>9
        <5>4. CASE On(s, s.sc[x][i])
          BY <5>1, <5>2, <5>3, <5>4, <4>2, <2>1, <1>p
        <5>5. CASE ~ On(s, s.sc[x][i])
          BY <5>1, <5>2, <5>3, <5>5, <4>2, <2>1, <2>2, <1>p
        <5> QED BY <5>4, <5>5
      <4> QED BY <4>2, <4>3, <1>p
    <3> QED BY <3>1, <3>2
  <2>4. ASSUME NEW x \in V, NEW y \in V, Saw(s, x), ~ On(t, x), Saw(s, y), ~ On(t, y), t.co[x] = t.co[y]
        PROVE  Leads(s.sc, x, y)
    <3>1. (~ On(s, x) \/ Off(x)) /\ (~ On(s, y) \/ Off(y))
      BY <2>4, <1>9
    <3>2. CASE Off(x) /\ Off(y)
      BY <3>2, <1>19, LeadsOn
    <3>3. CASE ~ On(s, x) /\ ~ On(s, y)
      BY <2>1, <2>4, <3>3, <1>n DEF Settled
    <3>4. CASE Off(x) /\ ~ On(s, y)
      BY <2>1, <2>2, <2>4, <3>4, <1>p
    <3>5. CASE ~ On(s, x) /\ Off(y)
      BY <2>1, <2>2, <2>4, <3>5, <1>p
    <3> QED BY <3>1, <3>2, <3>3, <3>4, <3>5
  <2> QED BY <2>3, <2>4, <1>13, <1>e DEF Settled
<1> QED
  <2>1. Sound(t)
    BY <1>15, <1>20, <1>21, <1>22, <1>24, <1>25, <1>26, <1>27, <1>28, <1>29 DEF Sound
  <2>2. t.wk # <<>> => 1 \in DOMAIN t.wk
    <3>1. Len(t.wk) \in Nat /\ (t.wk # <<>> => Len(t.wk) # 0) /\ DOMAIN t.wk = 1 .. Len(t.wk)
      BY <1>w, EmptySeq, LenProperties
    <3> QED BY <3>1
  <2> QED BY <2>1, <2>2, <1>13, <1>23

\* The walk starts from a node not seen.
Restarts(s, t) ==
  /\ s.wk = <<>>
  /\ \E v \in DOMAIN s.sc : ~ Saw(s, v) /\ t.wk = <<[node |-> v, looked |-> 0]>>
  /\ t.sc = s.sc /\ t.ix = s.ix /\ t.lo = s.lo /\ t.st = s.st /\ t.co = s.co /\ t.nx = s.nx /\ t.nc = s.nc

\* Between two walks the stack is empty.
LEMMA RestartSound ==
  ASSUME NEW s, NEW t, Sound(s), Restarts(s, t)
  PROVE  Sound(t) /\ ~ Saw(t, Spot(t, 1)) /\ t.wk[1].looked = 0 /\ t.wk # <<>>
<1>n. /\ TarjanType(s) /\ Numbered(s) /\ Stacked(s) /\ Walks(s) /\ Rooted(s)
      /\ LowReal(s) /\ Heard(s) /\ LeftHeard(s) /\ Settled(s)
  BY DEF Sound
<1>e. t.sc = s.sc /\ t.ix = s.ix /\ t.lo = s.lo /\ t.st = s.st /\ t.co = s.co /\ t.nx = s.nx /\ t.nc = s.nc
  BY DEF Restarts
<1>1. PICK v \in DOMAIN s.sc : ~ Saw(s, v) /\ t.wk = <<[node |-> v, looked |-> 0]>>
  BY DEF Restarts
<1>2. DOMAIN t.wk = {1} /\ t.wk[1].looked = 0 /\ t.wk[1].node = v /\ Len(t.wk) = 1 /\ t.wk # <<>>
      /\ t.wk \in Seq([node : DOMAIN s.sc, looked : Nat])
  BY <1>1
<1>3. DOMAIN s.wk = {}
  BY DEF Restarts
<1>4. \A x : ~ On(s, x)
  BY <1>n, <1>3, NodeType DEF Rooted
<1>5. \A x : (Saw(t, x) <=> Saw(s, x)) /\ (On(t, x) <=> On(s, x))
  BY <1>e DEF Saw, On
<1>6. Spot(t, 1) = v
  BY <1>2 DEF Spot
<1>7. Path(s) = {} /\ Path(t) = {v}
  BY <1>2, <1>3, <1>6 DEF Path
<1>8. Len(s.sc[v]) \in Nat
  BY <1>n, NodeType
<1>20. TarjanType(t)
  BY <1>n, <1>e, <1>2 DEF TarjanType
<1>21. Numbered(t)
  BY <1>n, <1>5, <1>e DEF Numbered
<1>22. Stacked(t)
  BY <1>n, <1>5, <1>e DEF Stacked
<1>23. Settled(t)
  BY <1>n, <1>5, <1>e DEF Settled
<1>24. Walks(t)
  BY <1>1, <1>2, <1>5, <1>6, <1>8, <1>e DEF Walks
<1>25. Rooted(t)
  BY <1>4, <1>5, <1>e DEF Rooted
<1>26. LowReal(t)
  BY <1>1, <1>2, <1>5, <1>6, <1>e DEF LowReal
<1>27. Heard(t)
  BY <1>2 DEF Heard
<1>28. LeftHeard(t)
  BY <1>4, <1>5, <1>7, <1>e, <1>n DEF LeftHeard
<1> QED
  BY <1>1, <1>2, <1>5, <1>6, <1>20, <1>21, <1>22, <1>23, <1>24, <1>25, <1>26, <1>27, <1>28 DEF Sound

\* Nothing has been seen.
Untouched(s) ==
  /\ \E n \in Nat : s.sc \in [1 .. n -> Seq(1 .. n)]
  /\ s.ix = [v \in DOMAIN s.sc |-> Unseen] /\ s.lo \in [DOMAIN s.sc -> Nat] /\ s.co \in [DOMAIN s.sc -> Nat]
  /\ s.st = <<>> /\ s.wk = <<>> /\ s.nx \in Nat /\ s.nc \in Nat

\* The algorithm starts in order.
LEMMA UntouchedSound ==
  ASSUME NEW s, Untouched(s)
  PROVE  Sound(s)
<1>1. \A x \in DOMAIN s.sc : ~ Saw(s, x)
  BY DEF Untouched, Saw
<1>2. DOMAIN s.wk = {} /\ DOMAIN s.st = {} /\ Len(s.wk) = 0
  BY DEF Untouched
<1>3. \A x : ~ On(s, x)
  BY <1>2 DEF On
<1>4. TarjanType(s)
  <2>1. s.ix \in [DOMAIN s.sc -> Nat \cup {Unseen}]
    BY DEF Untouched
  <2>2. s.st \in Seq(DOMAIN s.sc) /\ s.wk \in Seq([node : DOMAIN s.sc, looked : Nat])
    BY DEF Untouched
  <2> QED BY <2>1, <2>2 DEF TarjanType, Untouched
<1>5. Numbered(s) /\ Settled(s) /\ LeftHeard(s)
  BY <1>1 DEF Numbered, Settled, LeftHeard
<1>6. Stacked(s) /\ Rooted(s)
  BY <1>2, <1>3 DEF Stacked, Rooted
<1>7. Walks(s) /\ LowReal(s) /\ Heard(s)
  BY <1>2 DEF Walks, LowReal, Heard
<1> QED BY <1>4, <1>5, <1>6, <1>7 DEF Sound

\* Once every node has been seen and the path is empty, two nodes are in one
\* component just if each leads to the other, and no edge leads to a later one.
LEMMA SoundGrouped ==
  ASSUME NEW s, Sound(s), s.wk = <<>>, \A v \in DOMAIN s.sc : Saw(s, v)
  PROVE  /\ \A u, v \in DOMAIN s.sc : s.co[u] = s.co[v] <=> Leads(s.sc, u, v) /\ Leads(s.sc, v, u)
         /\ \A u \in DOMAIN s.sc : \A j \in DOMAIN s.sc[u] : s.co[s.sc[u][j]] <= s.co[u]
         /\ \A u \in DOMAIN s.sc : s.co[u] < s.nc
<1>n. TarjanType(s) /\ Rooted(s) /\ Settled(s)
  BY DEF Sound
<1>1. DOMAIN s.wk = {}
  OBVIOUS
<1>2. \A x : ~ On(s, x)
  BY <1>n, <1>1, NodeType DEF Rooted
<1>3. \A u \in DOMAIN s.sc : \A j \in DOMAIN s.sc[u] : s.co[s.sc[u][j]] <= s.co[u]
  BY <1>2, <1>n DEF Settled
<1>4. \A u \in DOMAIN s.sc : s.co[u] \in Nat
  BY <1>n DEF TarjanType
<1>5. \A u \in DOMAIN s.sc : \A j \in DOMAIN s.sc[u] : s.sc[u][j] \in DOMAIN s.sc
  BY <1>n, NodeType
<1>6. ASSUME NEW u \in DOMAIN s.sc, NEW v \in DOMAIN s.sc, Leads(s.sc, u, v)
      PROVE  s.co[v] <= s.co[u]
  <2> DEFINE C == {x \in DOMAIN s.sc : s.co[x] <= s.co[u]}
  <2>1. u \in C
    BY <1>4
  <2>2. ASSUME NEW x \in C, NEW j \in DOMAIN s.sc[x] PROVE s.sc[x][j] \in C
    <3>1. s.co[s.sc[x][j]] <= s.co[x] /\ s.co[x] <= s.co[u]
      BY <1>3
    <3>2. s.sc[x][j] \in DOMAIN s.sc /\ s.co[s.sc[x][j]] \in Nat /\ s.co[x] \in Nat /\ s.co[u] \in Nat
      BY <1>4, <1>5
    <3> QED BY <3>1, <3>2
  <2>3. Kept(s.sc, C)
    BY <2>2 DEF Kept
  <2> QED BY <1>6, <2>1, <2>3 DEF Leads
<1>7. ASSUME NEW u \in DOMAIN s.sc, NEW v \in DOMAIN s.sc
      PROVE  s.co[u] = s.co[v] <=> Leads(s.sc, u, v) /\ Leads(s.sc, v, u)
  <2>1. s.co[u] = s.co[v] => Leads(s.sc, u, v) /\ Leads(s.sc, v, u)
    BY <1>2, <1>n DEF Settled
  <2>2. Leads(s.sc, u, v) /\ Leads(s.sc, v, u) => s.co[u] <= s.co[v] /\ s.co[v] <= s.co[u]
    BY <1>6
  <2> QED BY <2>1, <2>2, <1>4
<1>8. \A u \in DOMAIN s.sc : s.co[u] < s.nc
  BY <1>2, <1>n DEF Settled
<1> QED BY <1>3, <1>7, <1>8

-----------------------------------------------------------------------------
(* The steps of the model are those. *)

Now == [sc |-> successors, ix |-> index, lo |-> low, st |-> stack, wk |-> work,
        co |-> component, nx |-> nextIndex, nc |-> nextComponent]

\* Half way through a step, with the top numbered.
Half == [sc |-> successors, ix |-> IndexNow, lo |-> LowNow, st |-> StackNow, wk |-> work,
         co |-> component, nx |-> IF Fresh THEN nextIndex + 1 ELSE nextIndex, nc |-> nextComponent]

\* The top has been seen just if something of it has been looked at; of the rest
\* of the path something has.
TarjanInv ==
  /\ Sound(Now)
  /\ work # <<>> => (Saw(Now, Spot(Now, 1)) <=> work[1].looked # 0)
  /\ \A k \in DOMAIN work : k # 1 => work[k].looked # 0

\* The fields of the two.
LEMMA Fields ==
  /\ Now.sc = successors /\ Now.ix = index /\ Now.lo = low /\ Now.st = stack /\ Now.wk = work
  /\ Now.co = component /\ Now.nx = nextIndex /\ Now.nc = nextComponent
  /\ Half.sc = successors /\ Half.ix = IndexNow /\ Half.lo = LowNow /\ Half.st = StackNow /\ Half.wk = work
  /\ Half.co = component /\ Half.nx = (IF Fresh THEN nextIndex + 1 ELSE nextIndex) /\ Half.nc = nextComponent
  BY DEF Now, Half

\* The path's first is the top.
LEMMA TopIs ==
  ASSUME Sound(Now), work # <<>>
  PROVE  /\ work \in Seq([node : Vertex, looked : Nat])
         /\ 1 \in DOMAIN work /\ Head(work) = work[1] /\ Head(work) \in [node : Vertex, looked : Nat]
         /\ Top = Spot(Now, 1) /\ Looked = work[1].looked /\ Top \in Vertex /\ Looked \in Nat
  <1>1. work \in Seq([node : Vertex, looked : Nat])
    BY Fields DEF Sound, TarjanType, Vertex
  <1>2. 1 \in DOMAIN work /\ Head(work) = work[1] /\ Head(work) \in [node : Vertex, looked : Nat]
    <2>1. Len(work) \in Nat \ {0} /\ DOMAIN work = 1 .. Len(work)
      BY <1>1, EmptySeq, LenProperties
    <2>2. Head(work) = work[1]
      BY <1>1 DEF Head
    <2>3. work[1] \in [node : Vertex, looked : Nat]
      <3> DEFINE E == [node : Vertex, looked : Nat]
      <3> HIDE DEF E
      <3>1. work \in Seq(E)
        BY <1>1 DEF E
      <3>2. work[1] \in E
        BY <2>1, <3>1, ElementOfSeq
      <3> QED BY <3>2 DEF E
    <2> QED BY <2>1, <2>2, <2>3
  <1> QED BY <1>1, <1>2, Fields DEF Spot, Top, Looked

\* Numbering the top keeps order.
LEMMA HalfSound ==
  ASSUME TarjanInv, work # <<>>
  PROVE  Sound(Half) /\ Saw(Half, Spot(Half, 1)) /\ Spot(Half, 1) = Top
  <1>1. Sound(Now) /\ (Saw(Now, Spot(Now, 1)) <=> work[1].looked # 0)
    BY DEF TarjanInv
  <1>2. Top = Spot(Now, 1) /\ Looked = work[1].looked /\ Spot(Half, 1) = Spot(Now, 1)
    BY <1>1, TopIs, Fields DEF Spot
  <1>3. CASE Fresh
    <2> DEFINE s == Now  t == Half
    <2>1. /\ s.wk # <<>> /\ ~ Saw(s, Spot(s, 1)) /\ s.wk[1].looked = 0
          /\ t.sc = s.sc /\ t.co = s.co /\ t.nc = s.nc /\ t.wk = s.wk /\ t.nx = s.nx + 1
          /\ t.ix = [s.ix EXCEPT ![Spot(s, 1)] = s.nx]
          /\ t.lo = [s.lo EXCEPT ![Spot(s, 1)] = s.nx]
          /\ t.st = <<Spot(s, 1)>> \o s.st
      BY <1>1, <1>2, <1>3, Fields DEF Fresh, IndexNow, LowNow, StackNow
    <2> HIDE DEF s, t
    <2>2. Sound(s)
      BY <1>1 DEF s
    <2>3. Sound(t) /\ Saw(t, Spot(t, 1))
      BY <2>1, <2>2, NumberSound
    <2> QED BY <2>3, <1>2 DEF t
  <1>4. CASE ~ Fresh
    <2>1. Half = Now
      BY <1>4 DEF Half, Now, IndexNow, LowNow, StackNow
    <2> QED BY <2>1, <1>1, <1>2, <1>4 DEF Fresh
  <1> QED BY <1>3, <1>4

\* The least of two.
LEMMA MinTwo ==
  ASSUME NEW a \in Nat, NEW b \in Nat
  PROVE  Min({a, b}) \in {a, b} /\ Min({a, b}) <= a /\ Min({a, b}) <= b
  <1>1. \E x \in {a, b} : \A y \in {a, b} : x <= y
    <2>1. a <= b \/ b <= a
      OBVIOUS
    <2> QED BY <2>1
  <1> QED BY <1>1 DEF Min

\* A walk started anew keeps order.
LEMMA RestartKeeps == TarjanInv /\ Restart => TarjanInv'
  <1> SUFFICES ASSUME TarjanInv, Restart PROVE TarjanInv'
    OBVIOUS
  <1> DEFINE s == Now  t == Now'
  <1>1. /\ Restarts(s, t) /\ Sound(s)
    <2>1. Now'.sc = successors' /\ Now'.ix = index' /\ Now'.lo = low' /\ Now'.st = stack' /\ Now'.wk = work'
          /\ Now'.co = component' /\ Now'.nx = nextIndex' /\ Now'.nc = nextComponent'
      BY DEF Now
    <2>2. PICK v \in Vertex : index[v] = Unseen /\ work' = <<[node |-> v, looked |-> 0]>>
      BY DEF Restart
    <2> QED BY <2>1, <2>2, Fields DEF Restarts, Restart, TarjanInv, Vertex, Saw
  <1> HIDE DEF s, t
  <1>2. Sound(t) /\ ~ Saw(t, Spot(t, 1)) /\ t.wk[1].looked = 0 /\ t.wk # <<>>
    BY <1>1, RestartSound
  <1>3. Sound(Now') /\ ~ Saw(Now', Spot(Now', 1)) /\ work'[1].looked = 0
    BY <1>2 DEF t, Now
  <1>4. DOMAIN work' = {1}
    BY DEF Restart
  <1> QED BY <1>3, <1>4 DEF TarjanInv

\* The rest of the path.
LEMMA RestIs ==
  ASSUME Sound(Now), work # <<>>
  PROVE  /\ Tail(work) \in Seq([node : Vertex, looked : Nat])
         /\ Len(work) \in Nat /\ Len(Tail(work)) = Len(work) - 1
         /\ \A k \in 1 .. Len(work) - 1 : Tail(work)[k] = work[k + 1]
  BY TopIs, HeadTailProperties, LenProperties

\* A look at a successor keeps order.
LEMMA LookKeeps == TarjanInv /\ Look => TarjanInv'
  <1> SUFFICES ASSUME TarjanInv, Look PROVE TarjanInv'
    OBVIOUS
  <1> DEFINE E == [node : Vertex, looked : Nat]
             j == Looked + 1
             w == successors[Top][j]
             e == [node |-> Top, looked |-> j]
             rest == <<e>> \o Tail(work)
             s == Half
             t == Now'
  <1>1. work # <<>> /\ Looked < Len(successors[Top])
    BY DEF Look
  <1>2. Sound(Half) /\ Saw(Half, Spot(Half, 1)) /\ Spot(Half, 1) = Top /\ Sound(Now)
    BY <1>1, HalfSound DEF TarjanInv
  <1>3. /\ work \in Seq(E) /\ 1 \in DOMAIN work /\ Head(work) = work[1] /\ Head(work) \in E
        /\ Top \in Vertex /\ Looked \in Nat /\ Looked = work[1].looked
    BY <1>1, <1>2, TopIs
  <1>4. [Head(work) EXCEPT !.looked = @ + 1] = e /\ e \in E
    <2>1. Top = Head(work).node /\ Looked = Head(work).looked
      BY DEF Top, Looked
    <2>2. e \in E
      BY <1>3
    <2> QED BY <1>3, <2>1, <2>2
  <1>5. j \in DOMAIN successors[Top] /\ w \in Vertex
    <2>1. /\ \A v \in DOMAIN Half.sc : /\ Len(Half.sc[v]) \in Nat /\ DOMAIN Half.sc[v] = 1 .. Len(Half.sc[v])
                                       /\ \A i \in DOMAIN Half.sc[v] : Half.sc[v][i] \in DOMAIN Half.sc
      BY <1>2, NodeType DEF Sound
    <2>2. Half.sc = successors
      BY Fields
    <2>3. Len(successors[Top]) \in Nat /\ DOMAIN successors[Top] = 1 .. Len(successors[Top])
          /\ \A i \in DOMAIN successors[Top] : successors[Top][i] \in Vertex
      BY <2>1, <2>2, <1>3 DEF Vertex
    <2>4. j \in 1 .. Len(successors[Top])
      BY <2>3, <1>1, <1>3
    <2> QED BY <2>3, <2>4
  <1>6. /\ rest \in Seq(E) /\ Len(rest) = Len(work) /\ rest[1] = e
        /\ \A k \in 2 .. Len(work) : rest[k] = work[k]
        /\ Len(work) \in Nat
    <2>1. /\ Tail(work) \in Seq(E) /\ Len(work) \in Nat /\ Len(Tail(work)) = Len(work) - 1
          /\ \A k \in 1 .. Len(work) - 1 : Tail(work)[k] = work[k + 1]
      BY <1>1, <1>2, RestIs
    <2> DEFINE q == Tail(work)
    <2> HIDE DEF E, e, q
    <2>2. rest = <<e>> \o q
      BY DEF q
    <2>3. /\ rest \in Seq(E) /\ Len(rest) = Len(q) + 1 /\ rest[1] = e
          /\ \A k \in 2 .. Len(q) + 1 : k - 1 \in 1 .. Len(q) /\ rest[k] = q[k - 1]
      BY <1>4, <2>1, <2>2, PutFirst DEF q
    <2> HIDE DEF rest
    <2>4. ASSUME NEW k \in 2 .. Len(work) PROVE rest[k] = work[k]
      <3>1. k \in 2 .. Len(q) + 1 /\ k - 1 \in 1 .. Len(work) - 1 /\ (k - 1) + 1 = k
        BY <2>1 DEF q
      <3>2. rest[k] = q[k - 1] /\ q[k - 1] = work[(k - 1) + 1]
        BY <2>1, <2>3, <3>1 DEF q
      <3> QED BY <3>1, <3>2
    <2> QED BY <2>1, <2>3, <2>4 DEF q
  <1>7. /\ t.sc = s.sc /\ t.ix = s.ix /\ t.st = s.st /\ t.co = s.co /\ t.nx = s.nx /\ t.nc = s.nc
        /\ t.lo = low' /\ t.wk = work'
    <2>1. Now'.sc = successors' /\ Now'.ix = index' /\ Now'.lo = low' /\ Now'.st = stack' /\ Now'.wk = work'
          /\ Now'.co = component' /\ Now'.nx = nextIndex' /\ Now'.nc = nextComponent'
      BY DEF Now
    <2> QED BY <2>1, Fields DEF Look, Number
  <1>8. /\ s.sc = successors /\ s.wk = work /\ s.lo = LowNow /\ s.ix = IndexNow /\ DOMAIN s.sc = Vertex
        /\ Spot(s, 1) = Top /\ Sound(s) /\ Saw(s, Top)
        /\ 1 \in DOMAIN s.wk /\ j = s.wk[1].looked + 1
    BY <1>2, <1>3, Fields DEF Vertex
  <1>9. IF IndexNow[w] = Unseen
        THEN work' = <<[node |-> w, looked |-> 0]>> \o rest /\ low' = LowNow
        ELSE work' = rest /\ low' = IF OnStack(w, StackNow)
                                    THEN [LowNow EXCEPT ![Top] = Min({@, IndexNow[w]})] ELSE LowNow
    BY <1>4 DEF Look
  <1>10. Saw(s, w) <=> IndexNow[w] # Unseen
    BY <1>8 DEF Saw
  <1>11. s.lo \in [Vertex -> Nat] /\ (Saw(s, w) => s.ix[w] \in Nat)
    <2>1. TarjanType(s)
      BY <1>8 DEF Sound
    <2> HIDE DEF s, w
    <2> QED BY <2>1, <1>5, <1>8, NodeType DEF TarjanType
  <1>12. On(s, w) <=> OnStack(w, StackNow)
    BY Fields DEF On, OnStack
  <1>13. w = s.sc[Spot(s, 1)][j] /\ j \in DOMAIN s.sc[Spot(s, 1)] /\ j # 0
    <2>1. j # 0
      BY <1>3
    <2> QED BY <1>5, <1>8, <2>1
  <1>17. \A k \in 2 .. Len(s.wk) : s.wk[k].looked # 0
    <2>1. DOMAIN work = 1 .. Len(work)
      BY <1>3, LenProperties
    <2> QED BY <2>1, <1>8 DEF TarjanInv
  <1> HIDE DEF E, j, w, e, rest, s, t
  <1>18. t.wk \in Seq(E) => DOMAIN t.wk = 1 .. Len(t.wk)
    BY LenProperties
  <1>14. CASE ~ Saw(s, w)
    <2> DEFINE d == [node |-> w, looked |-> 0]
    <2>1. t.wk = <<d>> \o rest /\ t.lo = s.lo
      BY <1>7, <1>8, <1>9, <1>10, <1>14
    <2>2. d \in E
      BY <1>5 DEF E
    <2> HIDE DEF d
    <2>3. /\ t.wk \in Seq(E) /\ Len(t.wk) = Len(s.wk) + 1 /\ t.wk[1] = d
          /\ \A k \in 1 .. Len(s.wk) : t.wk[k + 1] = rest[k]
          /\ \A k \in 2 .. Len(s.wk) + 1 : k - 1 \in 1 .. Len(s.wk) /\ t.wk[k] = rest[k - 1]
      BY <1>6, <1>8, <2>1, <2>2, PutFirst
    <2>4. Len(s.wk) \in Nat /\ Len(s.wk) >= 1
      <3>1. DOMAIN work = 1 .. Len(work)
        BY <1>3, LenProperties
      <3> QED BY <3>1, <1>3, <1>6, <1>8
    <2>5. t.wk[2] = e
      <3>1. 2 \in 2 .. Len(s.wk) + 1 /\ 2 - 1 = 1
        BY <2>4
      <3>2. t.wk[2] = rest[2 - 1]
        BY <2>3, <3>1
      <3> QED BY <3>1, <3>2, <1>6
    <2>6. ASSUME NEW k \in 3 .. Len(s.wk) + 1 PROVE t.wk[k] = s.wk[k - 1]
      <3>1. k \in 2 .. Len(s.wk) + 1 /\ k - 1 \in 2 .. Len(s.wk)
        BY <2>4
      <3> QED BY <3>1, <2>3, <1>6, <1>8
    <2>7. /\ 1 \in DOMAIN s.wk /\ Saw(s, Spot(s, 1))
          /\ j \in DOMAIN s.sc[Spot(s, 1)] /\ ~ Saw(s, s.sc[Spot(s, 1)][j])
          /\ j = s.wk[1].looked + 1
          /\ t.sc = s.sc /\ t.ix = s.ix /\ t.lo = s.lo /\ t.st = s.st /\ t.co = s.co /\ t.nx = s.nx /\ t.nc = s.nc
          /\ t.wk \in Seq([node : DOMAIN s.sc, looked : Nat])
          /\ Len(t.wk) = Len(s.wk) + 1
          /\ t.wk[1] = [node |-> s.sc[Spot(s, 1)][j], looked |-> 0]
          /\ t.wk[2] = [node |-> Spot(s, 1), looked |-> j]
          /\ \A k \in 3 .. Len(s.wk) + 1 : t.wk[k] = s.wk[k - 1]
      BY <1>7, <1>8, <1>13, <1>14, <2>1, <2>3, <2>5, <2>6 DEF d, e, E
    <2>8. Sound(t) /\ ~ Saw(t, Spot(t, 1)) /\ t.wk[1].looked = 0
      BY <1>8, <2>7, WalkOnSound
    <2>9. ASSUME NEW k \in DOMAIN t.wk, k # 1 PROVE t.wk[k].looked # 0
      <3>1. k = 2 \/ k \in 3 .. Len(s.wk) + 1
        BY <1>18, <2>3, <2>4, <2>9
      <3>2. CASE k = 2
        BY <3>2, <2>5, <1>13 DEF e
      <3>3. CASE k \in 3 .. Len(s.wk) + 1
        <4>1. k - 1 \in 2 .. Len(s.wk)
          BY <3>3, <2>4
        <4> QED BY <3>3, <4>1, <2>6, <1>17
      <3> QED BY <3>1, <3>2, <3>3
    <2> QED BY <1>7, <2>8, <2>9 DEF TarjanInv, t
  <1>15. CASE Saw(s, w)
    <2>1. /\ t.wk = rest
          /\ t.lo = IF On(s, w) THEN [s.lo EXCEPT ![Top] = Min({@, s.ix[w]})] ELSE s.lo
      BY <1>7, <1>8, <1>9, <1>10, <1>12, <1>15
    <2>2. /\ t.lo \in [Vertex -> Nat] /\ (\A x \in Vertex : x # Top => t.lo[x] = s.lo[x])
          /\ t.lo[Top] <= s.lo[Top]
          /\ On(s, w) => t.lo[Top] <= s.ix[w]
          /\ t.lo[Top] = s.lo[Top] \/ (On(s, w) /\ t.lo[Top] = s.ix[w])
      <3>1. s.lo[Top] \in Nat
        BY <1>3, <1>11
      <3>2. CASE On(s, w)
        <4> DEFINE m == Min({s.lo[Top], s.ix[w]})
        <4>1. m \in Nat /\ m \in {s.lo[Top], s.ix[w]} /\ m <= s.lo[Top] /\ m <= s.ix[w]
          BY <1>11, <1>15, <3>1, MinTwo
        <4>2. t.lo = [s.lo EXCEPT ![Top] = m]
          BY <2>1, <3>2
        <4> HIDE DEF m
        <4>3. t.lo \in [Vertex -> Nat] /\ t.lo[Top] = m /\ \A x \in Vertex : x # Top => t.lo[x] = s.lo[x]
          BY <1>3, <1>11, <4>1, <4>2
        <4> QED BY <3>2, <4>1, <4>3
      <3>3. CASE ~ On(s, w)
        BY <1>11, <2>1, <3>1, <3>3
      <3> QED BY <3>2, <3>3
    <2>3. Hears(s, t, j)
      <3>1. t.wk \in Seq([node : DOMAIN s.sc, looked : Nat]) /\ Len(t.wk) = Len(s.wk)
            /\ t.wk[1] = [node |-> Spot(s, 1), looked |-> j]
            /\ \A k \in 2 .. Len(s.wk) : t.wk[k] = s.wk[k]
        BY <1>6, <1>8, <2>1 DEF E, e
      <3>2. /\ t.lo \in [DOMAIN s.sc -> Nat] /\ \A x \in DOMAIN s.sc : x # Spot(s, 1) => t.lo[x] = s.lo[x]
            /\ t.lo[Spot(s, 1)] <= s.lo[Spot(s, 1)]
            /\ On(s, w) => t.lo[Spot(s, 1)] <= s.ix[w]
            /\ t.lo[Spot(s, 1)] = s.lo[Spot(s, 1)] \/ (On(s, w) /\ t.lo[Spot(s, 1)] = s.ix[w])
        BY <1>8, <2>2
      <3>3. s.sc[Spot(s, 1)][j] = w /\ Saw(s, w) /\ Saw(s, Spot(s, 1))
            /\ j \in DOMAIN s.sc[Spot(s, 1)] /\ 1 \in DOMAIN s.wk /\ j = s.wk[1].looked + 1
        BY <1>8, <1>13, <1>15
      <3>4. t.sc = s.sc /\ t.ix = s.ix /\ t.st = s.st /\ t.co = s.co /\ t.nx = s.nx /\ t.nc = s.nc
        BY <1>7
      <3> QED BY <3>1, <3>2, <3>3, <3>4, Zenon DEF Hears
    <2>4. Sound(t) /\ Saw(t, Spot(t, 1)) /\ t.wk[1].looked # 0
      BY <1>8, <2>3, HearSound
    <2>5. ASSUME NEW k \in DOMAIN t.wk, k # 1 PROVE t.wk[k].looked # 0
      <3>1. Len(t.wk) = Len(s.wk) /\ t.wk \in Seq(E)
        BY <1>6, <1>8, <2>1
      <3>2. k \in 2 .. Len(s.wk)
        BY <2>5, <3>1, <1>6, <1>8, <1>18
      <3> QED BY <3>2, <2>1, <1>6, <1>8, <1>17
    <2> QED BY <1>7, <2>4, <2>5 DEF TarjanInv, t
  <1> QED BY <1>14, <1>15

\* Leaving a node keeps order.
LEMMA LeaveKeeps == TarjanInv /\ Leave => TarjanInv'
  <1> SUFFICES ASSUME TarjanInv, Leave PROVE TarjanInv'
    OBVIOUS
  <1> DEFINE E == [node : Vertex, looked : Nat]
             s == Half
             t == Now'
             u == work[2].node
  <1>1. work # <<>> /\ Looked >= Len(successors[Top])
    BY DEF Leave
  <1>2. Sound(Half) /\ Saw(Half, Spot(Half, 1)) /\ Spot(Half, 1) = Top /\ Sound(Now)
    BY <1>1, HalfSound DEF TarjanInv
  <1>3. 1 \in DOMAIN work /\ Top \in Vertex /\ Looked \in Nat /\ Looked = work[1].looked
    BY <1>1, <1>2, TopIs
  <1>4. /\ Tail(work) \in Seq(E) /\ Len(work) \in Nat /\ Len(Tail(work)) = Len(work) - 1
        /\ \A k \in 1 .. Len(work) - 1 : Tail(work)[k] = work[k + 1]
    BY <1>1, <1>2, RestIs
  <1>5. /\ t.sc = s.sc /\ t.ix = s.ix /\ t.nx = s.nx /\ t.lo = low' /\ t.wk = Tail(s.wk)
        /\ t.st = stack' /\ t.co = component' /\ t.nc = nextComponent'
    <2>1. Now'.sc = successors' /\ Now'.ix = index' /\ Now'.lo = low' /\ Now'.st = stack' /\ Now'.wk = work'
          /\ Now'.co = component' /\ Now'.nx = nextIndex' /\ Now'.nc = nextComponent'
      BY DEF Now
    <2> QED BY <2>1, Fields DEF Leave, Number
  <1>6. /\ s.sc = successors /\ s.wk = work /\ s.lo = LowNow /\ s.ix = IndexNow /\ s.st = StackNow
        /\ s.co = component /\ s.nc = nextComponent /\ DOMAIN s.sc = Vertex
        /\ Spot(s, 1) = Top /\ Sound(s) /\ Saw(s, Top)
        /\ 1 \in DOMAIN s.wk /\ s.wk[1].looked >= Len(s.sc[Top]) /\ Spot(s, 2) = u
    BY <1>1, <1>2, <1>3, Fields DEF Vertex, Spot
  <1>7. low' = IF Len(work) > 1 THEN [LowNow EXCEPT ![u] = Min({@, LowNow[Top]})] ELSE LowNow
    BY DEF Leave
  <1>8. TarjanType(s) /\ s.lo \in [Vertex -> Nat] /\ s.st \in Seq(Vertex) /\ s.co \in [Vertex -> Nat] /\ s.nc \in Nat
    BY <1>6 DEF Sound, TarjanType
  <1>9. Len(work) > 1 => u \in Vertex
    <2>1. \A k \in DOMAIN Now.wk : Spot(Now, k) \in DOMAIN Now.sc
      BY <1>2, NodeType DEF Sound
    <2>2. DOMAIN work = 1 .. Len(work)
      BY <1>1, <1>2, TopIs, LenProperties
    <2>3. Len(work) > 1 => 2 \in DOMAIN Now.wk
      BY <2>2, <1>4, Fields
    <2> QED BY <2>1, <2>3, Fields DEF Spot, Vertex
  <1>10. IF LowNow[Top] = IndexNow[Top]
         THEN LET root == CHOOSE k \in DOMAIN StackNow : StackNow[k] = Top
                  off == {StackNow[k] : k \in 1 .. root}
              IN  /\ stack' = SubSeq(StackNow, root + 1, Len(StackNow))
                  /\ component' = [v \in Vertex |-> IF v \in off THEN nextComponent ELSE component[v]]
                  /\ nextComponent' = nextComponent + 1
         ELSE stack' = StackNow /\ UNCHANGED <<component, nextComponent>>
    BY DEF Leave
  <1>11. /\ t.wk \in Seq(E) /\ Len(t.wk) = Len(s.wk) - 1
         /\ \A k \in 1 .. Len(s.wk) - 1 : t.wk[k] = s.wk[k + 1]
    BY <1>4, <1>5, <1>6
  <1>12. On(s, Top)
    BY <1>6 DEF Sound, Walks
  <1>17. \A k \in DOMAIN s.wk : k # 1 => s.wk[k].looked # 0
    BY <1>6 DEF TarjanInv
  <1> HIDE DEF E, u, s, t
  <1>13. /\ t.lo \in [Vertex -> Nat] /\ (\A x \in Vertex : x # u => t.lo[x] = s.lo[x])
         /\ Len(s.wk) <= 1 => t.lo = s.lo
         /\ Len(s.wk) > 1 => /\ t.lo[u] <= s.lo[u] /\ t.lo[u] <= s.lo[Top]
                             /\ t.lo[u] \in {s.lo[Top], s.lo[u]}
    <2>1. CASE Len(work) > 1
      <3> DEFINE m == Min({s.lo[u], s.lo[Top]})
      <3>1. m \in Nat /\ m \in {s.lo[u], s.lo[Top]} /\ m <= s.lo[u] /\ m <= s.lo[Top]
        <4>1. s.lo[u] \in Nat /\ s.lo[Top] \in Nat
          BY <1>3, <1>8, <1>9, <2>1
        <4> QED BY <4>1, MinTwo
      <3>2. t.lo = [s.lo EXCEPT ![u] = m]
        BY <1>5, <1>6, <1>7, <2>1
      <3> HIDE DEF m
      <3>3. t.lo \in [Vertex -> Nat] /\ t.lo[u] = m /\ \A x \in Vertex : x # u => t.lo[x] = s.lo[x]
        BY <1>8, <1>9, <2>1, <3>1, <3>2
      <3>4. ~ (Len(s.wk) <= 1)
        BY <1>4, <1>6, <2>1
      <3> QED BY <3>1, <3>3, <3>4
    <2>2. CASE ~ (Len(work) > 1)
      BY <1>5, <1>6, <1>7, <1>8, <2>2
    <2> QED BY <2>1, <2>2
  <1>15. ASSUME Sound(t), t.wk # <<>> => Saw(t, Spot(t, 1)) PROVE TarjanInv'
    <2>1. DOMAIN t.wk = 1 .. Len(s.wk) - 1 /\ DOMAIN s.wk = 1 .. Len(s.wk) /\ Len(s.wk) \in Nat
      <3>1. work \in Seq([node : Vertex, looked : Nat])
        BY <1>1, <1>2, TopIs
      <3> QED BY <3>1, <1>4, <1>6, <1>11, LenProperties
    <2>2. \A k \in DOMAIN t.wk : t.wk[k].looked # 0
      BY <2>1, <1>11, <1>17
    <2>3. t.wk # <<>> => 1 \in DOMAIN t.wk
      <3>1. Len(t.wk) \in Nat /\ (t.wk # <<>> => Len(t.wk) # 0) /\ DOMAIN t.wk = 1 .. Len(t.wk)
        BY <1>11, EmptySeq, LenProperties
      <3> QED BY <3>1
    <2>4. t = Now' /\ t.wk = work'
      <3>1. Now'.wk = work'
        BY DEF Now
      <3> QED BY <3>1 DEF t
    <2> QED BY <1>15, <2>2, <2>3, <2>4 DEF TarjanInv
  <1>14. CASE LowNow[Top] # IndexNow[Top]
    <2>1. t.st = s.st /\ t.co = s.co /\ t.nc = s.nc
      BY <1>5, <1>6, <1>10, <1>14
    <2>2. s.lo[Spot(s, 1)] # s.ix[Spot(s, 1)] /\ Saw(s, Spot(s, 1)) /\ s.wk[1].looked >= Len(s.sc[Spot(s, 1)])
      BY <1>6, <1>14
    <2>3. t.wk \in Seq([node : DOMAIN s.sc, looked : Nat])
      BY <1>6, <1>11 DEF E
    <2>4. /\ t.lo \in [DOMAIN s.sc -> Nat] /\ \A x \in DOMAIN s.sc : x # Spot(s, 2) => t.lo[x] = s.lo[x]
          /\ Len(s.wk) > 1 => /\ t.lo[Spot(s, 2)] <= s.lo[Spot(s, 2)] /\ t.lo[Spot(s, 2)] <= s.lo[Spot(s, 1)]
                              /\ t.lo[Spot(s, 2)] \in {s.lo[Spot(s, 1)], s.lo[Spot(s, 2)]}
      BY <1>6, <1>13
    <2>5. Remains(s, t)
      BY <1>5, <1>6, <1>11, <2>1, <2>2, <2>3, <2>4, Zenon DEF Remains
    <2>6. Sound(t) /\ (t.wk # <<>> => Saw(t, Spot(t, 1)))
      BY <1>6, <2>5, StaysSound
    <2> QED BY <2>6, <1>15
  <1>16. CASE LowNow[Top] = IndexNow[Top]
    <2> DEFINE root == CHOOSE k \in DOMAIN StackNow : StackNow[k] = Top
               off == {StackNow[k] : k \in 1 .. root}
    <2>2. root \in DOMAIN s.st /\ s.st[root] = Top
      BY <1>6, <1>12 DEF On
    <2>0. /\ stack' = SubSeq(StackNow, root + 1, Len(StackNow))
          /\ component' = [v \in Vertex |-> IF v \in off THEN nextComponent ELSE component[v]]
          /\ nextComponent' = nextComponent + 1
      BY <1>10, <1>16, Zenon
    <2> HIDE DEF root
    <2>1. /\ t.st = SubSeq(s.st, root + 1, Len(s.st))
          /\ t.co = [v \in Vertex |-> IF v \in {s.st[k] : k \in 1 .. root} THEN s.nc ELSE s.co[v]]
          /\ t.nc = s.nc + 1
      BY <1>5, <1>6, <2>0
    <2>3. Len(s.st) \in Nat /\ DOMAIN s.st = 1 .. Len(s.st) /\ \A k \in DOMAIN s.st : s.st[k] \in Vertex
      BY <1>8, LenProperties, ElementOfSeq
    <2>4. /\ t.st \in Seq(Vertex) /\ Len(t.st) = Len(s.st) - root
          /\ \A k \in 1 .. Len(s.st) - root : t.st[k] = s.st[root + k]
      <3> DEFINE b == root + 1  n == Len(s.st)
      <3>1. b \in Int /\ n \in Int /\ \A k \in b .. n : s.st[k] \in Vertex
        BY <2>2, <2>3
      <3> HIDE DEF b, n
      <3>2. /\ SubSeq(s.st, b, n) \in Seq(Vertex)
            /\ Len(SubSeq(s.st, b, n)) = IF b <= n THEN n - b + 1 ELSE 0
            /\ \A k \in 1 .. n - b + 1 : SubSeq(s.st, b, n)[k] = s.st[b + k - 1]
        BY <3>1, SubSeqProperties
      <3>3. t.st = SubSeq(s.st, b, n)
        BY <2>1 DEF b, n
      <3>4. (IF b <= n THEN n - b + 1 ELSE 0) = n - root /\ n - b + 1 = n - root
        BY <2>2, <2>3 DEF b, n
      <3>5. \A k \in 1 .. n - root : b + k - 1 = root + k
        BY <2>2, <2>3 DEF b, n
      <3> QED BY <3>2, <3>3, <3>4, <3>5 DEF n
    <2>5. t.co \in [Vertex -> Nat] /\ \A x \in Vertex : t.co[x] = IF x \in {s.st[k] : k \in 1 .. root} THEN s.nc ELSE s.co[x]
      BY <2>1, <1>8
    <2>6. \E h \in DOMAIN s.st :
            /\ s.st[h] = Spot(s, 1)
            /\ t.st \in Seq(DOMAIN s.sc) /\ Len(t.st) = Len(s.st) - h
            /\ \A k \in 1 .. Len(s.st) - h : t.st[k] = s.st[h + k]
            /\ t.co \in [DOMAIN s.sc -> Nat]
            /\ \A x \in DOMAIN s.sc : t.co[x] = IF x \in {s.st[k] : k \in 1 .. h} THEN s.nc ELSE s.co[x]
      BY <1>6, <2>2, <2>4, <2>5
    <2>7. s.lo[Spot(s, 1)] = s.ix[Spot(s, 1)] /\ Saw(s, Spot(s, 1)) /\ s.wk[1].looked >= Len(s.sc[Spot(s, 1)])
      BY <1>6, <1>16
    <2>8. t.wk \in Seq([node : DOMAIN s.sc, looked : Nat])
      BY <1>6, <1>11 DEF E
    <2>9. /\ t.lo \in [DOMAIN s.sc -> Nat] /\ \A x \in DOMAIN s.sc : x # Spot(s, 2) => t.lo[x] = s.lo[x]
          /\ Len(s.wk) > 1 => /\ t.lo[Spot(s, 2)] <= s.lo[Spot(s, 2)]
                              /\ t.lo[Spot(s, 2)] \in {s.lo[Spot(s, 1)], s.lo[Spot(s, 2)]}
      BY <1>6, <1>13
    <2>10. Closes(s, t)
      BY <1>5, <1>6, <1>11, <1>13, <2>1, <2>6, <2>7, <2>8, <2>9, Zenon DEF Closes
    <2>11. Sound(t) /\ (t.wk # <<>> => Saw(t, Spot(t, 1)))
      BY <1>6, <2>10, ClosesSound
    <2> QED BY <2>11, <1>15
  <1> QED BY <1>14, <1>16

\* The algorithm's every step keeps order.
LEMMA WalkingKeeps == TarjanInv /\ Walking => TarjanInv'
  BY RestartKeeps, LookKeeps, LeaveKeeps DEF Walking

\* Where nothing happens to it, order is kept.
LEMMA TarjanStays == TarjanInv /\ UNCHANGED tarjan => TarjanInv'
  <1> SUFFICES ASSUME TarjanInv, UNCHANGED tarjan PROVE TarjanInv'
    OBVIOUS
  <1>1. Now' = Now /\ work' = work
    BY DEF Now, tarjan
  <1> QED BY <1>1 DEF TarjanInv

-----------------------------------------------------------------------------
(* The graph as Tarjan's algorithm is given it. *)

\* g starts with x, and each of its values follows from the one before.
Follows(g, F, x, L) == g[0] = x /\ \A i \in 1 .. L : g[i] = F[i][g[i - 1]]

\* A recursion over the numbers up to L has a solution.
LEMMA Unfolds ==
  ASSUME NEW X, NEW x \in X, NEW L \in Nat, NEW F \in [1 .. L -> [X -> X]]
  PROVE  \E g \in [0 .. L -> X] : Follows(g, F, x, L)
<1> DEFINE Solved(g, n) == g \in [0 .. n -> X] /\ g[0] = x /\ \A i \in 1 .. n : g[i] = F[i][g[i - 1]]
           T == {n \in Nat : n <= L => \E g : Solved(g, n)}
<1>1. 0 \in T
  <2>1. Solved([i \in 0 .. 0 |-> x], 0)
    OBVIOUS
  <2> QED BY <2>1
<1>2. ASSUME NEW n \in T PROVE n + 1 \in T
  <2> SUFFICES ASSUME n + 1 <= L PROVE \E g : Solved(g, n + 1)
    OBVIOUS
  <2>1. n \in Nat /\ n <= L
    OBVIOUS
  <2>2. PICK g : Solved(g, n)
    BY <2>1
  <2> DEFINE h == [i \in 0 .. n + 1 |-> IF i = n + 1 THEN F[n + 1][g[n]] ELSE g[i]]
  <2>3. n + 1 \in 1 .. L /\ n \in 0 .. n /\ g[n] \in X
    BY <2>1, <2>2
  <2>4. F[n + 1][g[n]] \in X
    BY <2>3
  <2>5. h \in [0 .. n + 1 -> X]
    BY <2>1, <2>2, <2>4
  <2>6. h[0] = x
    BY <2>1, <2>2
  <2>7. ASSUME NEW i \in 1 .. n + 1 PROVE h[i] = F[i][h[i - 1]]
    <3>1. CASE i = n + 1
      <4>1. i - 1 = n /\ n \in 0 .. n + 1 /\ n # n + 1
        BY <2>1, <3>1
      <4>2. h[i - 1] = g[n]
        BY <4>1
      <4>3. h[n + 1] = F[n + 1][g[n]]
        BY <2>1
      <4> HIDE DEF h
      <4> QED BY <3>1, <4>2, <4>3
    <3>2. CASE i # n + 1
      <4>1. i \in 1 .. n /\ i - 1 \in 0 .. n + 1 /\ i - 1 # n + 1 /\ i \in 0 .. n + 1
        BY <2>1, <3>2
      <4>2. h[i] = g[i] /\ h[i - 1] = g[i - 1]
        BY <3>2, <4>1
      <4> QED BY <2>2, <4>1, <4>2
    <3> QED BY <3>1, <3>2
  <2> HIDE DEF h
  <2>8. Solved(h, n + 1)
    BY <2>5, <2>6, <2>7
  <2> QED BY <2>8
<1>3. L \in T
  <2> HIDE DEF T
  <2>1. T \in SUBSET Nat
    BY DEF T
  <2> QED BY <1>1, <1>2, <2>1, Induct
<1> QED BY <1>3 DEF Follows

\* No marking is found twice.
Once == \A i, j \in DOMAIN found : found[i] = found[j] => i = j

\* The edges from the k-th marking, of the first i.
From(k, i) == {j \in 1 .. i : edges[j].from = found[k]}

\* The number of a marking found.
LEMMA IdIs ==
  ASSUME NEW m \in Known
  PROVE  Id(m) \in DOMAIN found /\ found[Id(m)] = m
  BY DEF Known, Range, Id

\* The successors of a node are what its edges lead to, and as many.
LEMMA SuccessorsAre ==
  ASSUME GraphTypeOK, GraphExact, NEW k \in DOMAIN found
  PROVE  /\ SuccessorLists[k] \in Seq(DOMAIN found)
         /\ Len(SuccessorLists[k]) = Cardinality(From(k, Len(edges)))
         /\ {found[w] : w \in Range(SuccessorLists[k])} = {edges[j].to : j \in From(k, Len(edges))}
<1> DEFINE L == Len(edges)
           D == DOMAIN found
           X == Seq(D)
           F == [i \in 1 .. L |-> [y \in X |-> IF edges[i].from = found[k] THEN Append(y, Id(edges[i].to)) ELSE y]]
           out == CHOOSE g : g = [i \in 0 .. L |->
                    IF i = 0 THEN <<>>
                    ELSE IF edges[i].from = found[k] THEN Append(g[i - 1], Id(edges[i].to))
                    ELSE g[i - 1]]
<1>1. SuccessorLists[k] = out[L]
  BY DEF SuccessorLists
<1>2. L \in Nat /\ DOMAIN edges = 1 .. L
  BY DEF GraphTypeOK
<1>3. \A i \in 1 .. L : edges[i].to \in Known /\ Id(edges[i].to) \in D /\ found[Id(edges[i].to)] = edges[i].to
  BY <1>2, IdIs DEF GraphExact
<1> HIDE DEF L, D
<1>4. F \in [1 .. L -> [X -> X]] /\ <<>> \in X
  <2>1. \A i \in 1 .. L : \A y \in X : (IF edges[i].from = found[k] THEN Append(y, Id(edges[i].to)) ELSE y) \in X
    BY <1>3
  <2> QED BY <2>1
<1> HIDE DEF X, F
<1> DEFINE first == <<>>
<1> HIDE DEF first, out
<1>5. PICK g0 \in [0 .. L -> X] : Follows(g0, F, first, L)
  <2>1. first \in X
    BY <1>4 DEF first
  <2> QED BY <1>2, <1>4, <2>1, Unfolds
<1>5a. g0[0] = <<>> /\ \A i \in 1 .. L : g0[i] = F[i][g0[i - 1]]
  BY <1>5 DEF Follows, first
<1> USE DEF out
<1>6. g0 = [i \in 0 .. L |->
                    IF i = 0 THEN <<>>
                    ELSE IF edges[i].from = found[k] THEN Append(g0[i - 1], Id(edges[i].to))
                    ELSE g0[i - 1]]
  <2>1. \A i \in 1 .. L : i - 1 \in 0 .. L /\ i \in 0 .. L
    BY <1>2
  <2>2. \A i \in 1 .. L : g0[i] = IF edges[i].from = found[k] THEN Append(g0[i - 1], Id(edges[i].to)) ELSE g0[i - 1]
    <3>1. \A i \in 1 .. L : g0[i - 1] \in X
      BY <2>1
    <3>2. \A i \in 1 .. L : F[i][g0[i - 1]] = IF edges[i].from = found[k] THEN Append(g0[i - 1], Id(edges[i].to)) ELSE g0[i - 1]
      BY <3>1 DEF F
    <3> QED BY <1>5a, <3>2
  <2>3. \A i \in 0 .. L : i = 0 \/ i \in 1 .. L
    BY <1>2
  <2> QED BY <1>5a, <2>2, <2>3
<1>7. out = [i \in 0 .. L |->
                    IF i = 0 THEN <<>>
                    ELSE IF edges[i].from = found[k] THEN Append(out[i - 1], Id(edges[i].to))
                    ELSE out[i - 1]]
  BY <1>6
<1> HIDE DEF out
<1>8. out[0] = <<>> /\ \A i \in 1 .. L : out[i] = IF edges[i].from = found[k] THEN Append(out[i - 1], Id(edges[i].to)) ELSE out[i - 1]
  <2>1. \A i \in 1 .. L : i \in 0 .. L /\ i # 0
    BY <1>2
  <2>2. 0 \in 0 .. L
    BY <1>2
  <2> QED BY <1>7, <2>1, <2>2
<1> DEFINE Fits1(i) == /\ out[i] \in X
                       /\ Len(out[i]) = Cardinality(From(k, i))
                       /\ {found[w] : w \in Range(out[i])} = {edges[j].to : j \in From(k, i)}
           T == {i \in Nat : i <= L => Fits1(i)}
<1>9. 0 \in T
  <2>1. From(k, 0) = {}
    BY DEF From
  <2>2. Len(<<>>) = 0 /\ Range(<<>>) = {} /\ <<>> \in X
    BY DEF Range, X
  <2>3. Fits1(0)
    BY <1>8, <2>1, <2>2, FS_EmptySet
  <2> QED BY <2>3
<1>10. ASSUME NEW i \in T PROVE i + 1 \in T
  <2> HIDE DEF Fits1
  <2> SUFFICES ASSUME i + 1 <= L PROVE Fits1(i + 1)
    OBVIOUS
  <2>1. i \in Nat /\ i + 1 \in 1 .. L /\ (i + 1) - 1 = i /\ i <= L
    BY <1>2
  <2>2. Fits1(i)
    BY <2>1
  <2> HIDE DEF T
  <2> USE DEF Fits1
  <2> DEFINE n == i + 1
  <2>3. n \in 1 .. L /\ n \notin 1 .. i /\ 1 .. n = (1 .. i) \cup {n}
    BY <2>1
  <2>4. out[n] = IF edges[n].from = found[k] THEN Append(out[i], Id(edges[n].to)) ELSE out[i]
    BY <1>8, <2>1
  <2> HIDE DEF n
  <2>5. IsFiniteSet(From(k, i)) /\ n \notin From(k, i)
    <3>1. From(k, i) \in SUBSET (1 .. i)
      BY DEF From
    <3> QED BY <2>1, <2>3, <3>1, Positions
  <2>6. CASE edges[n].from = found[k]
    <3>1. From(k, n) = From(k, i) \cup {n}
      BY <2>3, <2>6 DEF From
    <3>2. Cardinality(From(k, n)) = Cardinality(From(k, i)) + 1
      BY <2>5, <3>1, FS_AddElement
    <3>3. out[n] = Append(out[i], Id(edges[n].to)) /\ out[i] \in Seq(D)
      BY <2>2, <2>4, <2>6 DEF X
    <3>4. Range(out[n]) = Range(out[i]) \cup {Id(edges[n].to)}
      BY <3>3, RangeAppend
    <3>5. out[n] \in X /\ Len(out[n]) = Len(out[i]) + 1
      BY <1>3, <2>3, <3>3 DEF X
    <3>6. {found[w] : w \in Range(out[n])} = {found[w] : w \in Range(out[i])} \cup {edges[n].to}
      BY <1>3, <2>3, <3>4
    <3>7. {edges[j].to : j \in From(k, n)} = {edges[j].to : j \in From(k, i)} \cup {edges[n].to}
      BY <3>1
    <3> QED BY <2>2, <3>2, <3>5, <3>6, <3>7 DEF n
  <2>7. CASE edges[n].from # found[k]
    <3>1. From(k, n) = From(k, i)
      BY <2>3, <2>7 DEF From
    <3> QED BY <2>2, <2>4, <2>7, <3>1 DEF n
  <2> QED BY <2>6, <2>7
<1>11. L \in T
  <2> HIDE DEF T
  <2>1. T \in SUBSET Nat
    BY DEF T
  <2> QED BY <1>2, <1>9, <1>10, <2>1, Induct
<1>12. Fits1(L)
  <2> HIDE DEF Fits1
  <2> QED BY <1>2, <1>11
<1> QED BY <1>1, <1>12 DEF L, D, X

\* What each marking found has edges to.
Along == [m \in Known |-> {e.to : e \in {x \in Range(edges) : x.from = m}}]

\* There are finitely many markings found, and an edge leads from one to another.
LEMMA AlongType ==
  ASSUME GraphTypeOK, GraphExact
  PROVE  /\ IsFiniteSet(Known) /\ Known \subseteq Marking
         /\ Along \in [Known -> SUBSET Known]
<1>1. DOMAIN found = 1 .. Len(found) /\ Len(found) \in Nat /\ \A k \in DOMAIN found : found[k] \in Marking
  BY DEF GraphTypeOK
<1>2. Known \subseteq Marking
  BY <1>1 DEF Known, Range
<1>3. IsFiniteSet(Known)
  BY <1>2, MarkingsFinite, FS_Subset
<1>4. \A x \in Range(edges) : x.to \in Known
  BY DEF GraphExact, Range
<1>5. Along \in [Known -> SUBSET Known]
  BY <1>4 DEF Along
<1> QED BY <1>2, <1>3, <1>5

\* The successors of a node are the markings its marking has edges to.
LEMMA AlongIs ==
  ASSUME GraphTypeOK, GraphExact, NEW k \in DOMAIN found
  PROVE  Along[found[k]] = {found[w] : w \in Range(SuccessorLists[k])}
<1>1. found[k] \in Known
  BY DEF Known, Range
<1>2. Along[found[k]] = {e.to : e \in {x \in Range(edges) : x.from = found[k]}}
  BY <1>1 DEF Along
<1>3. DOMAIN edges = 1 .. Len(edges)
  BY DEF GraphTypeOK
<1>4. {edges[j].to : j \in From(k, Len(edges))} = {e.to : e \in {x \in Range(edges) : x.from = found[k]}}
  BY <1>3 DEF From, Range
<1> QED BY <1>2, <1>4, SuccessorsAre

\* A node leads to another as its marking does.
LEMMA LeadsIs ==
  ASSUME GraphTypeOK, GraphExact, Once, successors = SuccessorLists,
         NEW u \in Vertex, NEW v \in Vertex
  PROVE  Leads(successors, u, v) <=> found[v] \in Onto({found[u]}, Along)
<1>1. Vertex = DOMAIN found
  BY DEF Vertex, SuccessorLists
<1>2. IsFiniteSet(Known) /\ Along \in [Known -> SUBSET Known]
  BY AlongType
<1>3. \A k \in Vertex : found[k] \in Known
  BY <1>1 DEF Known, Range
<1>4. \A k \in Vertex : Along[found[k]] = {found[w] : w \in Range(successors[k])} /\ Range(successors[k]) \subseteq Vertex
  <2>1. \A k \in Vertex : Along[found[k]] = {found[w] : w \in Range(successors[k])}
    BY <1>1, AlongIs
  <2>2. \A k \in Vertex : successors[k] \in Seq(Vertex)
    BY <1>1, SuccessorsAre
  <2>3. \A k \in Vertex : Range(successors[k]) \subseteq Vertex
    BY <2>2 DEF Range
  <2> QED BY <2>1, <2>3
<1> DEFINE R == Onto({found[u]}, Along)
<1>5. /\ R \in SUBSET Known /\ found[u] \in R /\ Shut(R, Along)
      /\ \A C \in SUBSET Known : found[u] \in C /\ Shut(C, Along) => R \subseteq C
  <2>1. {found[u]} \in SUBSET Known
    BY <1>3
  <2>2. /\ R \in SUBSET Known /\ {found[u]} \subseteq R /\ Shut(R, Along)
        /\ \A C \in SUBSET Known : {found[u]} \subseteq C /\ Shut(C, Along) => R \subseteq C
    BY <1>2, <2>1, OntoLeast
  <2> QED BY <2>2
<1> HIDE DEF R
<1>6. ASSUME Leads(successors, u, v) PROVE found[v] \in R
  <2> DEFINE C == {k \in Vertex : found[k] \in R}
  <2>1. C \in SUBSET DOMAIN successors /\ u \in C
    BY <1>5 DEF Vertex
  <2>2. ASSUME NEW k \in C, NEW j \in DOMAIN successors[k] PROVE successors[k][j] \in C
    <3>1. successors[k][j] \in Range(successors[k]) /\ k \in Vertex /\ found[k] \in R
      BY <2>2 DEF Range
    <3>2. found[successors[k][j]] \in Along[found[k]] /\ successors[k][j] \in Vertex
      BY <1>4, <3>1
    <3>3. found[successors[k][j]] \in R
      BY <1>5, <3>1, <3>2 DEF Shut
    <3> QED BY <3>2, <3>3
  <2>3. Kept(successors, C)
    BY <2>2 DEF Kept
  <2>4. v \in C
    BY <1>6, <2>1, <2>3 DEF Leads
  <2> QED BY <2>4
<1>7. ASSUME found[v] \in R PROVE Leads(successors, u, v)
  <2> SUFFICES ASSUME NEW C \in SUBSET Vertex, u \in C, Kept(successors, C) PROVE v \in C
    BY DEF Leads, Vertex
  <2> DEFINE D == {found[k] : k \in C}
  <2>1. D \in SUBSET Known /\ found[u] \in D
    BY <1>3
  <2>2. ASSUME NEW m \in D PROVE Along[m] \subseteq D
    <3>1. PICK k \in C : m = found[k]
      OBVIOUS
    <3>2. \A w \in Range(successors[k]) : w \in C
      BY DEF Kept, Range
    <3>3. Along[m] = {found[w] : w \in Range(successors[k])}
      BY <1>4, <3>1
    <3> QED BY <3>2, <3>3
  <2>3. Shut(D, Along)
    BY <2>2 DEF Shut
  <2>4. found[v] \in D
    BY <1>5, <1>7, <2>1, <2>3
  <2>5. PICK k \in C : found[v] = found[k]
    BY <2>4
  <2> QED BY <1>1, <2>5 DEF Once
<1> QED BY <1>6, <1>7 DEF R

\* What the stages after the grouping know of the nodes.
LEMMA GroupedRight ==
  ASSUME GraphTypeOK, GraphExact, Once, successors = SuccessorLists, TarjanInv, Grouped
  PROVE  ComponentsRight
<1>1. Vertex = DOMAIN found /\ Vertex = DOMAIN successors
  BY DEF Vertex, SuccessorLists
<1>2. /\ Now.sc = successors /\ Now.ix = index /\ Now.co = component /\ Now.wk = work
  BY Fields
<1>3. Sound(Now) /\ Now.wk = <<>> /\ \A v \in DOMAIN Now.sc : Saw(Now, v)
  BY <1>1, <1>2 DEF TarjanInv, Grouped, Saw
<1>4. \A u, v \in DOMAIN Now.sc : Now.co[u] = Now.co[v] <=> Leads(Now.sc, u, v) /\ Leads(Now.sc, v, u)
  BY <1>3, SoundGrouped
<1>5. \A u, v \in Vertex : component[u] = component[v] <=> Leads(successors, u, v) /\ Leads(successors, v, u)
  BY <1>1, <1>2, <1>4
<1>6. \A u, v \in Vertex : Leads(successors, u, v) <=> found[v] \in Onto({found[u]}, Along)
  BY LeadsIs
<1>7. ASSUME NEW u \in Vertex, NEW v \in Vertex
      PROVE  component[u] = component[v] <=> found[v] \in Onto({found[u]}, Along) /\ found[u] \in Onto({found[v]}, Along)
  BY <1>5, <1>6
<1>8. ComponentsRight <=> (Judged =>
    LET after == [u \in Vertex |-> Onto({found[u]}, Along)]
    IN  \A u, v \in Vertex :
          component[u] = component[v] <=> found[u] \in after[v] /\ found[v] \in after[u])
  BY DEF ComponentsRight, Onto, Along
<1> QED BY <1>7, <1>8

-----------------------------------------------------------------------------
(* The analysis. *)

\* Before the grouping there is nothing to group; from then on the graph is
\* built and Tarjan's algorithm sound, and when verdicts are in it is through.
Staged ==
  /\ stage \in {"build", "group", "verify", "search", "over"}
  /\ stage = "build" => stack = <<>> /\ work = <<>> /\ nextIndex = 0 /\ nextComponent = 0
  /\ stage # "build" => pc = "built" /\ successors = SuccessorLists /\ TarjanInv
  /\ Judged => Grouped

AInv == IInv /\ Once /\ Staged

\* A marking is added to those found where it is not one of them.
LEMMA OnceKeeps == IInv /\ Once /\ [Build]_graph => Once'
<1> SUFFICES ASSUME IInv, Once, [Build]_graph PROVE Once'
  OBVIOUS
<1>1. CASE found' = found
  BY <1>1 DEF Once
<1>2. CASE \E i \in DOMAIN Declared : Discover(i)
  <2>1. PICK i \in DOMAIN Declared : Discover(i)
    BY <1>2
  <2>2. found' = found \/ (found' = Append(found, After(i)) /\ After(i) \notin Known)
    BY <2>1 DEF Discover
  <2>3. CASE found' = Append(found, After(i)) /\ After(i) \notin Known
    <3> DEFINE n == Len(found)  new == After(i)
    <3>1. n \in Nat /\ DOMAIN found = 1 .. n
      BY DEF IInv, GraphTypeOK
    <3>2. DOMAIN found' = 1 .. n + 1 /\ (\A j \in 1 .. n : found'[j] = found[j]) /\ found'[n + 1] = new
      <4> HIDE DEF new
      <4> QED BY <2>3 DEF IInv, GraphTypeOK, new
    <3>3. \A j \in 1 .. n : found[j] # new
      BY <2>3, <3>1 DEF Known, Range
    <3> HIDE DEF n, new
    <3>4. ASSUME NEW j \in 1 .. n + 1, j # n + 1 PROVE j \in 1 .. n
      BY <3>1, <3>4
    <3> QED BY <3>1, <3>2, <3>3, <3>4 DEF Once
  <2> QED BY <1>1, <2>2, <2>3
<1> QED BY <1>1, <1>2 DEF Build, Pop, Exceed, EndExpand, Finish, graph

\* What Tarjan's algorithm is started with is sound.
LEMMA GroupSound == AInv /\ Group => TarjanInv' /\ successors' = SuccessorLists'
<1> SUFFICES ASSUME AInv, Group PROVE TarjanInv' /\ successors' = SuccessorLists'
  OBVIOUS
<1> DEFINE t == Now'
<1>1. /\ t.sc = successors' /\ t.ix = index' /\ t.lo = low' /\ t.st = stack' /\ t.wk = work'
      /\ t.co = component' /\ t.nx = nextIndex' /\ t.nc = nextComponent'
  BY DEF Now
<1>2. /\ successors' = SuccessorLists /\ SuccessorLists' = SuccessorLists
      /\ index' = [k \in DOMAIN found |-> Unseen]
      /\ low' = [k \in DOMAIN found |-> 0] /\ component' = [k \in DOMAIN found |-> 0]
      /\ stack' = <<>> /\ work' = <<>> /\ nextIndex' = 0 /\ nextComponent' = 0
  BY DEF Group, AInv, Staged, SuccessorLists, Id, graph
<1>3. Len(found) \in Nat /\ DOMAIN found = 1 .. Len(found)
  BY DEF AInv, IInv, GraphTypeOK
<1>4. SuccessorLists \in [1 .. Len(found) -> Seq(1 .. Len(found))]
  <2>1. \A k \in DOMAIN found : SuccessorLists[k] \in Seq(DOMAIN found)
    BY SuccessorsAre DEF AInv, IInv
  <2>2. \E f : SuccessorLists = [k \in DOMAIN found |-> f[k]]
    <3>1. SuccessorLists = [k \in DOMAIN found |-> SuccessorLists[k]]
      BY DEF SuccessorLists
    <3> QED BY <3>1
  <2> QED BY <1>3, <2>1, <2>2
<1> HIDE DEF t
<1>5. DOMAIN t.sc = 1 .. Len(found) /\ t.sc \in [1 .. Len(found) -> Seq(1 .. Len(found))]
  BY <1>1, <1>2, <1>4
<1>6. Untouched(t)
  <2>1. \E n \in Nat : t.sc \in [1 .. n -> Seq(1 .. n)]
    BY <1>3, <1>5
  <2>2. t.ix = [v \in DOMAIN t.sc |-> Unseen] /\ t.lo \in [DOMAIN t.sc -> Nat] /\ t.co \in [DOMAIN t.sc -> Nat]
    BY <1>1, <1>2, <1>3, <1>5
  <2>3. t.st = <<>> /\ t.wk = <<>> /\ t.nx \in Nat /\ t.nc \in Nat
    BY <1>1, <1>2
  <2> QED BY <2>1, <2>2, <2>3 DEF Untouched
<1>7. Sound(t)
  BY <1>6, UntouchedSound
<1>8. Sound(Now')
  BY <1>7 DEF t
<1>9. DOMAIN work' = {}
  BY <1>2
<1> QED BY <1>2, <1>8, <1>9 DEF TarjanInv

\* The invariant holds at first.
LEMMA InitAInv == Init => AInv
<1> SUFFICES ASSUME Init PROVE AInv
  OBVIOUS
<1>1. IInv
  BY InitIInv DEF Init, Start
<1>2. Once
  BY DEF Init, Start, BuildInit, Once
<1>3. Staged
  BY DEF Init, Start, Staged, Judged
<1> QED BY <1>1, <1>2, <1>3 DEF AInv

\* A step that leaves the graph and Tarjan's state alone keeps what they are.
LEMMA Rests ==
  ASSUME AInv, UNCHANGED <<graph, tarjan>>
  PROVE  /\ IInv' /\ Once' /\ (TarjanInv => TarjanInv') /\ (Grouped => Grouped')
         /\ SuccessorLists' = SuccessorLists /\ successors' = successors /\ pc' = pc
<1>1. IInv'
  BY StutterKeeps DEF AInv
<1>2. Once'
  BY OnceKeeps DEF AInv
<1>3. (TarjanInv => TarjanInv') /\ (Grouped => Grouped')
  BY TarjanStays DEF tarjan, Grouped, Vertex
<1> QED BY <1>1, <1>2, <1>3 DEF graph, tarjan, SuccessorLists, Id

\* Every step keeps the invariant.
LEMMA NextAInv == AInv /\ [Next]_vars => AInv'
<1> SUFFICES ASSUME AInv, [Next]_vars PROVE AInv'
  OBVIOUS
<1>1. CASE Building
  <2>1. IInv' /\ Once'
    BY <1>1, NextIInv, OnceKeeps DEF Building, AInv
  <2>2. stage = "build" /\ stage' = stage /\ stack' = stack /\ work' = work
        /\ nextIndex' = nextIndex /\ nextComponent' = nextComponent
    BY <1>1 DEF Building, tarjan
  <2>3. Staged'
    BY <2>2 DEF AInv, Staged, Judged
  <2> QED BY <2>1, <2>3 DEF AInv
<1>2. CASE Group
  <2>1. IInv' /\ Once'
    BY <1>2, StutterKeeps, OnceKeeps DEF Group, AInv
  <2>2. stage' = "group" /\ pc' = "built"
    BY <1>2 DEF Group, graph
  <2>3. Staged'
    BY <1>2, <2>2, GroupSound DEF Staged, Judged
  <2> QED BY <2>1, <2>3 DEF AInv
<1>3. CASE Grouping
  <2>1. IInv' /\ Once'
    BY <1>3, StutterKeeps, OnceKeeps DEF Grouping, AInv
  <2>2. stage' = "group" /\ stage = "group" /\ pc' = pc /\ Walking /\ SuccessorLists' = SuccessorLists
    BY <1>3 DEF Grouping, graph, SuccessorLists, Id
  <2>3. TarjanInv'
    BY <2>2, WalkingKeeps DEF AInv, Staged
  <2>4. successors' = successors
    BY <2>2 DEF Walking, Restart, Look, Leave
  <2>5. Staged'
    BY <2>2, <2>3, <2>4 DEF AInv, Staged, Judged
  <2> QED BY <2>1, <2>5 DEF AInv
<1>4. CASE UNCHANGED <<graph, tarjan>> /\ stage' \in {"verify", "search", "over"}
           /\ stage # "build" /\ (stage = "group" => Grouped)
  <2>1. IInv' /\ Once' /\ (TarjanInv => TarjanInv') /\ (Grouped => Grouped')
         /\ SuccessorLists' = SuccessorLists /\ successors' = successors /\ pc' = pc
    BY <1>4, Rests
  <2>2. Staged'
    BY <1>4, <2>1 DEF AInv, Staged, Judged
  <2> QED BY <2>1, <2>2 DEF AInv
<1>5. CASE UNCHANGED vars
  <2>1. UNCHANGED <<graph, tarjan, stage>>
    BY <1>5 DEF vars, analysis
  <2>2. IInv' /\ Once' /\ (TarjanInv => TarjanInv') /\ (Grouped => Grouped')
         /\ SuccessorLists' = SuccessorLists /\ successors' = successors /\ pc' = pc
    BY <2>1, Rests
  <2>3. stack' = stack /\ work' = work /\ nextIndex' = nextIndex /\ nextComponent' = nextComponent
    BY <2>1 DEF tarjan
  <2>4. Staged'
    BY <2>1, <2>2, <2>3 DEF AInv, Staged, Judged
  <2> QED BY <2>2, <2>4 DEF AInv
<1>6. CASE Judge \/ Aim \/ GiveUp \/ Report \/ \E k \in DOMAIN heap : Hit(k) \/ Widen(k)
  <2>1. UNCHANGED <<graph, tarjan>>
    BY <1>6, Zenon DEF Judge, Aim, GiveUp, Report, Hit, Widen
  <2>2. CASE Judge
    BY <1>4, <2>1, <2>2 DEF Judge
  <2>3. CASE Aim
    BY <1>4, <2>1, <2>3 DEF Aim
  <2>4. CASE GiveUp
    BY <1>4, <2>1, <2>4 DEF GiveUp
  <2>5. CASE Report
    BY <1>4, <2>1, <2>5 DEF Report
  <2>6. ASSUME NEW k \in DOMAIN heap, Hit(k) \/ Widen(k) PROVE AInv'
    BY <1>4, <2>1, <2>6 DEF Hit, Widen, Searching
  <2> QED BY <1>6, <2>2, <2>3, <2>4, <2>5, <2>6
<1> QED BY <1>1, <1>2, <1>3, <1>5, <1>6 DEF Next, Analysing

\* The invariant holds at every state of an analysis.
THEOREM AnalyzerInvariance == FairSpec => []AInv
  BY InitAInv, NextAInv, PTL DEF FairSpec

\* strongly_connected_components puts two markings in one component just where
\* the graph leads from each to the other, for every net and all limits.
THEOREM GroupsByReachability == FairSpec => []ComponentsRight
<1>1. AInv => ComponentsRight
  <2> SUFFICES ASSUME AInv PROVE ComponentsRight
    OBVIOUS
  <2>1. CASE Judged
    <3>1. stage # "build" /\ Grouped /\ successors = SuccessorLists /\ TarjanInv
      BY <2>1 DEF AInv, Staged, Judged
    <3> QED BY <3>1, GroupedRight DEF AInv, IInv
  <2>2. CASE ~ Judged
    BY <2>2 DEF ComponentsRight
  <2> QED BY <2>1, <2>2
<1> QED BY <1>1, AnalyzerInvariance, PTL

-----------------------------------------------------------------------------
(* The targeted search: what a marking adds to the heap. *)

Item == [mk : Marking, path : Seq(Transition)]

\* An item that t adds to those an item leads to.
Leading(item, t) == [mk |-> Fire(job.net, t, item.mk), path |-> Append(item.path, t)]

\* t adds nothing to these items.
AddsNone(items, item, t) ==
  LET new == Fire(job.net, t, item.mk)
  IN  ~ Enabled(job.net, t, item.mk) \/ TooMany(new) \/ new \in seen \/ (\E k \in DOMAIN items : items[k].mk = new)

\* What the transitions declared put, one after the other.
LEMMA FollowersFold ==
  ASSUME job.net \in Nets, NEW item \in Item
  PROVE  \E c \in [0 .. Len(Declared) -> Seq(Item)] :
           /\ c[0] = <<>>
           /\ \A i \in 1 .. Len(Declared) :
                c[i] = IF AddsNone(c[i - 1], item, Declared[i]) THEN c[i - 1]
                       ELSE Append(c[i - 1], Leading(item, Declared[i]))
           /\ Followers(item) = c[Len(Declared)]
<1> DEFINE n == Len(Declared)
           X == Seq(Item)
           put(items, t) == IF AddsNone(items, item, t) THEN items ELSE Append(items, Leading(item, t))
           it == CHOOSE g : g = [s \in SUBSET (1 .. n) |->
                   IF s = {} THEN <<>> ELSE put(g[s \ {Max(s)}], Declared[Max(s)])]
           F == [i \in 1 .. n |-> [y \in X |-> put(y, Declared[i])]]
<1>1. n \in Nat /\ DOMAIN Declared = 1 .. n /\ \A i \in 1 .. n : Declared[i] \in Transition
  BY DeclaredAssumption
<1>2. Followers(item) = it[1 .. n]
  BY <1>1 DEF Followers, FoldLeft, MapThenFoldSet, AddsNone, Leading
<1>3. \A i \in 1 .. n : Leading(item, Declared[i]) \in Item
  BY <1>1, FireType DEF Leading, Item
<1> HIDE DEF n
<1>4. F \in [1 .. n -> [X -> X]] /\ <<>> \in X
  <2>1. \A i \in 1 .. n : \A y \in X : put(y, Declared[i]) \in X
    BY <1>3
  <2> HIDE DEF put
  <2>2. <<>> \in X
    OBVIOUS
  <2> HIDE DEF X
  <2> QED BY <2>1, <2>2
<1> DEFINE first == <<>>
<1> HIDE DEF X, F, first, put, it
<1>5. PICK g0 \in [SUBSET (1 .. n) -> X] : Gathers(g0, F, first, n)
  <2>1. first \in X
    BY <1>4 DEF first
  <2> QED BY <1>1, <1>4, <2>1, FoldExists
<1>6. g0[{}] = <<>> /\ \A s \in SUBSET (1 .. n) : s # {} => g0[s] = F[Max(s)][g0[s \ {Max(s)}]]
  BY <1>5 DEF Gathers, first
<1>7. ASSUME NEW s \in SUBSET (1 .. n), s # {} PROVE g0[s] = put(g0[s \ {Max(s)}], Declared[Max(s)])
  <2>1. Max(s) \in 1 .. n
    BY <1>1, <1>7, Greatest
  <2>2. g0[s \ {Max(s)}] \in X
    OBVIOUS
  <2>3. F[Max(s)][g0[s \ {Max(s)}]] = put(g0[s \ {Max(s)}], Declared[Max(s)])
    BY <2>1, <2>2 DEF F
  <2> QED BY <1>6, <1>7, <2>3
<1>8. g0 = [s \in SUBSET (1 .. n) |-> IF s = {} THEN <<>> ELSE put(g0[s \ {Max(s)}], Declared[Max(s)])]
  <2>1. \A s \in SUBSET (1 .. n) : g0[s] = IF s = {} THEN <<>> ELSE put(g0[s \ {Max(s)}], Declared[Max(s)])
    BY <1>6, <1>7
  <2> QED BY <2>1
<1>9. it = [s \in SUBSET (1 .. n) |-> IF s = {} THEN <<>> ELSE put(it[s \ {Max(s)}], Declared[Max(s)])]
  BY <1>8 DEF it
<1>10. it[{}] = <<>> /\ \A s \in SUBSET (1 .. n) : s # {} => it[s] = put(it[s \ {Max(s)}], Declared[Max(s)])
  <2>1. {} \in SUBSET (1 .. n)
    OBVIOUS
  <2> QED BY <1>9, <2>1
<1> DEFINE c == [i \in 0 .. n |-> it[1 .. i]]
<1>11. c[0] = <<>>
  <2>1. 1 .. 0 = {} /\ 0 \in 0 .. n
    BY <1>1
  <2> QED BY <1>10, <2>1
<1>12. ASSUME NEW i \in 1 .. n PROVE c[i] = put(c[i - 1], Declared[i])
  <2>1. i \in Nat /\ i \in 1 .. i /\ 1 .. i \in SUBSET (1 .. n) /\ (1 .. i) \ {i} = 1 .. (i - 1) /\ i \in 0 .. n /\ i - 1 \in 0 .. n
    BY <1>1
  <2>2. Max(1 .. i) \in 1 .. i /\ i <= Max(1 .. i)
    BY <2>1, Greatest
  <2>3. Max(1 .. i) = i
    BY <2>1, <2>2
  <2>4. 1 .. i # {}
    BY <2>1
  <2>5. it[1 .. i] = put(it[1 .. (i - 1)], Declared[i])
    BY <1>10, <2>1, <2>3, <2>4
  <2> QED BY <2>1, <2>5
<1>13. \A i \in 0 .. n : c[i] \in X
  <2>1. c[0] \in X
    BY <1>4, <1>11
  <2>2. ASSUME NEW i \in 1 .. n, c[i - 1] \in X PROVE c[i] \in X
    <3>1. put(c[i - 1], Declared[i]) \in X
      <4>1. F[i][c[i - 1]] \in X
        BY <1>4, <2>2
      <4> QED BY <2>2, <4>1 DEF F
    <3> QED BY <1>12, <3>1
  <2> HIDE DEF c
  <2> QED BY <1>1, <2>1, <2>2, Stays
<1>14. c \in [0 .. n -> X] /\ c[n] = Followers(item)
  <2>1. n \in 0 .. n
    BY <1>1
  <2> QED BY <1>2, <1>13, <2>1
<1> HIDE DEF c
<1> QED BY <1>11, <1>12, <1>14 DEF put, X, n

\* What a marking adds: some of what its firings lead to, and each of those that
\* is neither over the token limit nor seen.
LEMMA FollowersAre ==
  ASSUME job.net \in Nets, NEW item \in Item
  PROVE  /\ Followers(item) \in Seq(Item)
         /\ \A j \in DOMAIN Followers(item) : \E t \in Transition :
              Enabled(job.net, t, item.mk) /\ Followers(item)[j] = Leading(item, t)
         /\ \A t \in Transition :
              Enabled(job.net, t, item.mk) /\ ~ TooMany(Fire(job.net, t, item.mk)) =>
                \/ Fire(job.net, t, item.mk) \in seen
                \/ \E j \in DOMAIN Followers(item) : Followers(item)[j].mk = Fire(job.net, t, item.mk)
<1> DEFINE n == Len(Declared)
           Real(items) == \A j \in DOMAIN items : \E t \in Transition :
                            Enabled(job.net, t, item.mk) /\ items[j] = Leading(item, t)
           Has(items, t) == Enabled(job.net, t, item.mk) /\ ~ TooMany(Fire(job.net, t, item.mk)) =>
                \/ Fire(job.net, t, item.mk) \in seen
                \/ \E j \in DOMAIN items : items[j].mk = Fire(job.net, t, item.mk)
           Upto(items, i) == Real(items) /\ \A k \in 1 .. i : Has(items, Declared[k])
<1>1. n \in Nat /\ DOMAIN Declared = 1 .. n /\ \A i \in 1 .. n : Declared[i] \in Transition
  BY DeclaredAssumption
<1>2. PICK c \in [0 .. n -> Seq(Item)] :
           /\ c[0] = <<>>
           /\ \A i \in 1 .. n :
                c[i] = IF AddsNone(c[i - 1], item, Declared[i]) THEN c[i - 1]
                       ELSE Append(c[i - 1], Leading(item, Declared[i]))
           /\ Followers(item) = c[n]
  BY FollowersFold
<1> HIDE DEF n
<1> DEFINE T == {i \in Nat : i <= n => Upto(c[i], i)}
<1>3. 0 \in T
  BY <1>2
<1>4. ASSUME NEW i \in T PROVE i + 1 \in T
  <2> HIDE DEF Upto
  <2> SUFFICES ASSUME i + 1 <= n PROVE Upto(c[i + 1], i + 1)
    OBVIOUS
  <2>1. i \in Nat /\ i + 1 \in 1 .. n /\ (i + 1) - 1 = i /\ i <= n /\ i \in 0 .. n
    BY <1>1
  <2>2. Upto(c[i], i)
    BY <2>1
  <2> HIDE DEF T
  <2> DEFINE l == i + 1  q == c[i]  t == Declared[l]
  <2>3. /\ c[l] = (IF AddsNone(q, item, t) THEN q ELSE Append(q, Leading(item, t)))
        /\ q \in Seq(Item) /\ t \in Transition /\ \A k \in 1 .. l : k \in 1 .. i \/ k = l
    BY <1>1, <1>2, <2>1
  <2> HIDE DEF l, q, t
  <2>4. Real(q) /\ \A k \in 1 .. i : Has(q, Declared[k])
    BY <2>2 DEF Upto, q
  <2>5. CASE AddsNone(q, item, t)
    <3>1. c[l] = q
      BY <2>3, <2>5
    <3>2. Has(q, t)
      BY <2>5 DEF AddsNone
    <3> HIDE DEF Has
    <3>3. \A k \in 1 .. l : Has(q, Declared[k])
      BY <2>3, <2>4, <3>2 DEF t
    <3> HIDE DEF Real
    <3> QED BY <2>4, <3>1, <3>3 DEF Upto, l
  <2>6. CASE ~ AddsNone(q, item, t)
    <3> DEFINE e == Leading(item, t)  r == Append(q, e)
    <3>1. c[l] = r
      BY <2>3, <2>6
    <3>2. Enabled(job.net, t, item.mk) /\ e.mk = Fire(job.net, t, item.mk)
      BY <2>6 DEF AddsNone, Leading
    <3>2a. e = Leading(item, t)
      OBVIOUS
    <3> HIDE DEF e
    <3>3. DOMAIN r = 1 .. Len(q) + 1 /\ DOMAIN q = 1 .. Len(q) /\ Len(q) \in Nat
          /\ (\A j \in DOMAIN q : r[j] = q[j]) /\ r[Len(q) + 1] = e
      BY <2>3
    <3> HIDE DEF r
    <3>4. \A j \in DOMAIN r : j \in DOMAIN q \/ j = Len(q) + 1
      BY <3>3
    <3>5. Real(r)
      <4>1. ASSUME NEW j \in DOMAIN r PROVE \E u \in Transition : Enabled(job.net, u, item.mk) /\ r[j] = Leading(item, u)
        <5>1. CASE j \in DOMAIN q
          BY <2>4, <3>3, <5>1
        <5>2. CASE j = Len(q) + 1
          BY <2>3, <3>2, <3>2a, <3>3, <5>2
        <5> QED BY <3>4, <5>1, <5>2
      <4> QED BY <4>1
    <3>6. \A u : Has(q, u) => Has(r, u)
      BY <3>3
    <3>7. Has(r, t)
      BY <3>2, <3>3
    <3> HIDE DEF Has
    <3>8. \A k \in 1 .. l : Has(r, Declared[k])
      BY <2>3, <2>4, <3>6, <3>7 DEF t
    <3> HIDE DEF Real
    <3> QED BY <3>1, <3>5, <3>8 DEF Upto, l
  <2> QED BY <2>5, <2>6
<1>5. n \in T
  <2> HIDE DEF T
  <2>1. T \in SUBSET Nat
    BY DEF T
  <2> QED BY <1>1, <1>3, <1>4, <2>1, Induct
<1>6. Upto(c[n], n)
  <2> HIDE DEF Upto
  <2> QED BY <1>1, <1>5
<1>7. Real(Followers(item)) /\ \A k \in 1 .. n : Has(Followers(item), Declared[k])
  BY <1>2, <1>6
<1> HIDE DEF Has
<1>8. \A t \in Transition : Has(Followers(item), t)
  <2> SUFFICES ASSUME NEW t \in Transition PROVE Has(Followers(item), t)
    OBVIOUS
  <2>1. PICK k \in 1 .. n : Declared[k] = t
    BY <1>1, DeclaredAssumption
  <2> QED BY <1>7, <2>1
<1>9. Followers(item) \in Seq(Item)
  BY <1>1, <1>2
<1> QED BY <1>7, <1>8, <1>9 DEF Has

\* c is where the sequence leads, firing by firing, from the opening of x to mk.
LeadsBy(x, c, path, mk) ==
  /\ c[0] = x.opening /\ c[Len(path)] = mk
  /\ \A k \in 1 .. Len(path) : Enabled(x.net, path[k], c[k - 1]) /\ c[k] = Fire(x.net, path[k], c[k - 1])

\* The sequence leads from the opening of x to mk.
RunsTo(x, path, mk) == \E c \in [0 .. Len(path) -> Marking] : LeadsBy(x, c, path, mk)

\* A sequence replays where it leads from marking to marking.
LEMMA ReplaysIs ==
  ASSUME job.net \in Nets, job.opening \in Marking, NEW path \in Seq(Transition), NEW mk
  PROVE  Replays(path, mk) <=> RunsTo(job, path, mk)
<1> DEFINE n == Len(path)
           ends == CHOOSE g : g = [k \in 0 .. n |-> IF k = 0 THEN job.opening ELSE Fire(job.net, path[k], g[k - 1])]
           F == [k \in 1 .. n |-> [m \in Marking |-> Fire(job.net, path[k], m)]]
<1>1. n \in Nat /\ DOMAIN path = 1 .. n /\ \A k \in 1 .. n : path[k] \in Transition
  OBVIOUS
<1>2. Replays(path, mk) <=> (\A k \in 1 .. n : Enabled(job.net, path[k], ends[k - 1])) /\ ends[n] = mk
  BY <1>1 DEF Replays
<1> HIDE DEF n
<1>3. F \in [1 .. n -> [Marking -> Marking]]
  BY <1>1, FireType
<1> HIDE DEF F, ends
<1>4. PICK g0 \in [0 .. n -> Marking] : Follows(g0, F, job.opening, n)
  BY <1>1, <1>3, Unfolds
<1>5. g0 = [k \in 0 .. n |-> IF k = 0 THEN job.opening ELSE Fire(job.net, path[k], g0[k - 1])]
  <2>1. \A k \in 1 .. n : k \in 0 .. n /\ k - 1 \in 0 .. n
    BY <1>1
  <2>2. \A k \in 1 .. n : g0[k] = Fire(job.net, path[k], g0[k - 1])
    BY <1>4, <2>1 DEF Follows, F
  <2>3. \A k \in 0 .. n : k = 0 \/ k \in 1 .. n
    BY <1>1
  <2> QED BY <1>4, <2>2, <2>3 DEF Follows
<1>6. ends = [k \in 0 .. n |-> IF k = 0 THEN job.opening ELSE Fire(job.net, path[k], ends[k - 1])]
  BY <1>5 DEF ends
<1>7. ends[0] = job.opening /\ \A k \in 1 .. n : ends[k] = Fire(job.net, path[k], ends[k - 1])
  <2>1. 0 \in 0 .. n /\ \A k \in 1 .. n : k \in 0 .. n /\ k # 0
    BY <1>1
  <2> QED BY <1>6, <2>1
<1>8. \A k \in 0 .. n : ends[k] \in Marking
  <2>1. ends[0] \in Marking
    BY <1>7
  <2>2. \A k \in 1 .. n : ends[k - 1] \in Marking => ends[k] \in Marking
    BY <1>1, <1>7, FireType
  <2> QED BY <1>1, <2>1, <2>2, Stays
<1>9. ends \in [0 .. n -> Marking]
  BY <1>6, <1>8
<1>10. ASSUME Replays(path, mk) PROVE LeadsBy(job, ends, path, mk)
  BY <1>2, <1>7, <1>10 DEF LeadsBy, n
<1>11. ASSUME NEW c \in [0 .. n -> Marking], LeadsBy(job, c, path, mk) PROVE Replays(path, mk)
  <2>1. c[0] = job.opening /\ c[n] = mk
        /\ \A k \in 1 .. n : Enabled(job.net, path[k], c[k - 1]) /\ c[k] = Fire(job.net, path[k], c[k - 1])
    BY <1>11 DEF LeadsBy, n
  <2> DEFINE T == {k \in Nat : k <= n => c[k] = ends[k]}
  <2>2. 0 \in T
    BY <1>7, <2>1
  <2>3. ASSUME NEW k \in T PROVE k + 1 \in T
    <3> SUFFICES ASSUME k + 1 <= n PROVE c[k + 1] = ends[k + 1]
      OBVIOUS
    <3>1. k \in Nat /\ k + 1 \in 1 .. n /\ (k + 1) - 1 = k /\ k <= n
      BY <1>1
    <3>2. c[k] = ends[k]
      BY <3>1
    <3> QED BY <1>7, <2>1, <3>1, <3>2
  <2>4. T = Nat
    <3> HIDE DEF T
    <3>1. T \in SUBSET Nat
      BY DEF T
    <3> QED BY <2>2, <2>3, <3>1, Induct
  <2>5. \A k \in 0 .. n : c[k] = ends[k]
    BY <1>1, <2>4
  <2>6. n \in 0 .. n /\ \A k \in 1 .. n : k - 1 \in 0 .. n
    BY <1>1
  <2> QED BY <1>2, <2>1, <2>5, <2>6
<1> QED BY <1>9, <1>10, <1>11 DEF n, RunsTo

\* The sequence of no firings replays to the opening.
LEMMA ReplaysNothing ==
  ASSUME job.opening \in Marking
  PROVE  RunsTo(job, <<>>, job.opening)
<1> DEFINE c == [k \in 0 .. 0 |-> job.opening]
<1>1. c \in [0 .. Len(<<>>) -> Marking] /\ LeadsBy(job, c, <<>>, job.opening)
  BY DEF LeadsBy
<1> QED BY <1>1 DEF RunsTo

\* A firing more replays to where it leads.
LEMMA ReplaysOn ==
  ASSUME job.net \in Nets, job.opening \in Marking, NEW path \in Seq(Transition), NEW m, RunsTo(job, path, m),
         NEW t \in Transition, Enabled(job.net, t, m)
  PROVE  RunsTo(job, Append(path, t), Fire(job.net, t, m)) /\ m \in Marking
<1> DEFINE n == Len(path)  l == n + 1  more == Append(path, t)
<1>1. PICK c \in [0 .. n -> Marking] : LeadsBy(job, c, path, m)
  BY DEF RunsTo
<1>2. n \in Nat /\ DOMAIN path = 1 .. n /\ more \in Seq(Transition) /\ Len(more) = l
      /\ (\A k \in 1 .. n : more[k] = path[k]) /\ more[l] = t
  OBVIOUS
<1>3. c[0] = job.opening /\ c[n] = m
      /\ \A k \in 1 .. n : Enabled(job.net, path[k], c[k - 1]) /\ c[k] = Fire(job.net, path[k], c[k - 1])
  BY <1>1 DEF LeadsBy
<1>4. m \in Marking /\ Fire(job.net, t, m) \in Marking
  <2>1. m \in Marking
    BY <1>1, <1>2, <1>3
  <2> QED BY <2>1, FireType
<1> DEFINE d == [k \in 0 .. l |-> IF k = l THEN Fire(job.net, t, m) ELSE c[k]]
<1> HIDE DEF n, more
<1>5. \A k \in 0 .. n : k \in 0 .. l /\ k # l
  BY <1>2
<1>6. l \in Nat /\ l \in 0 .. l /\ l - 1 = n /\ n \in 0 .. n /\ 0 \in 0 .. n
      /\ (\A k \in 0 .. l : k \in 0 .. n \/ k = l)
      /\ (\A k \in 1 .. l : k \in 1 .. n \/ k = l)
      /\ (\A k \in 1 .. n : k \in 0 .. n /\ k - 1 \in 0 .. n)
  BY <1>2
<1> HIDE DEF l
<1>7. d[l] = Fire(job.net, t, m) /\ \A k \in 0 .. n : d[k] = c[k]
  BY <1>5, <1>6
<1>8. d \in [0 .. l -> Marking]
  BY <1>4, <1>6
<1> HIDE DEF d
<1>9. \A k \in 1 .. l : Enabled(job.net, more[k], d[k - 1]) /\ d[k] = Fire(job.net, more[k], d[k - 1])
  <2>1. \A k \in 1 .. n : Enabled(job.net, more[k], d[k - 1]) /\ d[k] = Fire(job.net, more[k], d[k - 1])
    BY <1>2, <1>3, <1>6, <1>7
  <2>2. Enabled(job.net, more[l], d[l - 1]) /\ d[l] = Fire(job.net, more[l], d[l - 1])
    BY <1>2, <1>3, <1>6, <1>7
  <2> QED BY <1>6, <2>1, <2>2
<1>10. LeadsBy(job, d, more, Fire(job.net, t, m))
  BY <1>2, <1>3, <1>6, <1>7, <1>9 DEF LeadsBy
<1>11. RunsTo(job, more, Fire(job.net, t, m))
  BY <1>2, <1>8, <1>10 DEF RunsTo
<1> QED BY <1>4, <1>11 DEF more

-----------------------------------------------------------------------------
(* The targeted searches. *)

\* What the search is measured against, and what that is.
LEMMA TruthIs ==
  ASSUME GraphTypeOK
  PROVE  /\ job.net \in Nets /\ job.opening \in Marking
         /\ Truth = Space(job.net, job.opening)
         /\ Reachable(Truth) \in SUBSET Marking
         /\ job.opening \in Reachable(Truth) /\ Closure(job.net, Reachable(Truth))
         /\ \A C \in SUBSET Marking : job.opening \in C /\ Closure(job.net, C) => Reachable(Truth) \subseteq C
         /\ \A x : x \in Truth.moves <=>
              \E m \in Reachable(Truth), t \in Transition :
                Enabled(job.net, t, m) /\ x = [from |-> m, tr |-> t, to |-> Fire(job.net, t, m)]
         /\ \A t \in Transition : CanFire(Truth, t) <=> \E m \in Reachable(Truth) : Enabled(job.net, t, m)
<1>1. job \in Jobs /\ job.net \in Nets /\ job.opening \in Marking
  BY JobsAssumption DEF GraphTypeOK, Job
<1>2. Truth = Space(job.net, job.opening)
  <2> DEFINE pair == <<job.net, job.opening>>
  <2>1. pair \in {<<j.net, j.opening>> : j \in Jobs}
    BY <1>1
  <2>2. Spaces[pair] = Space(pair[1], pair[2])
    <3> HIDE DEF pair
    <3> QED BY <2>1 DEF Spaces
  <2> QED BY <2>2 DEF Truth
<1> DEFINE s == Truth
<1>3. /\ Reachable(s) \in SUBSET Marking
      /\ job.opening \in Reachable(s) /\ Closure(job.net, Reachable(s))
      /\ \A C \in SUBSET Marking : job.opening \in C /\ Closure(job.net, C) => Reachable(s) \subseteq C
      /\ \A x : x \in s.moves <=>
           \E m \in Reachable(s), t \in Transition :
             Enabled(job.net, t, m) /\ x = [from |-> m, tr |-> t, to |-> Fire(job.net, t, m)]
  BY <1>1, <1>2, SpaceIs
<1> HIDE DEF s
<1>4. ASSUME NEW t \in Transition
      PROVE  CanFire(s, t) <=> \E m \in Reachable(s) : Enabled(job.net, t, m)
  <2>1. ASSUME NEW m \in Reachable(s), Enabled(job.net, t, m) PROVE CanFire(s, t)
    <3>1. [from |-> m, tr |-> t, to |-> Fire(job.net, t, m)] \in s.moves
      BY <1>3, <2>1
    <3> QED BY <3>1 DEF CanFire
  <2>2. ASSUME CanFire(s, t) PROVE \E m \in Reachable(s) : Enabled(job.net, t, m)
    <3>1. PICK x \in s.moves : x.tr = t
      BY <2>2 DEF CanFire
    <3> QED BY <1>3, <3>1
  <2> QED BY <2>1, <2>2
<1> QED BY <1>1, <1>2, <1>3, <1>4 DEF s

\* What is found can be reached.
FoundReal == Known \subseteq Reachable(Truth)

\* All that the firings at m lead to has been seen, and the goal is not enabled.
Exhausted(m) ==
  ~ Enabled(job.net, goal, m) /\ \A t \in Transition : Enabled(job.net, t, m) => Fire(job.net, t, m) \in seen

\* What waits on the heap replays and has been seen; what was seen can be
\* reached, and waits or has been looked into, unless something was left out.
Sought ==
  stage = "search" =>
    /\ goal \in Transition
    /\ heap \in Seq(Item)
    /\ \A j \in DOMAIN heap : heap[j].mk \in seen /\ RunsTo(job, heap[j].path, heap[j].mk)
    /\ seen \subseteq Reachable(Truth) /\ job.opening \in seen
    /\ ~ skipped => \A m \in seen : (\E j \in DOMAIN heap : heap[j].mk = m) \/ Exhausted(m)

\* The way to t ends with t, and is one, of the search x with the state space s.
IsWay(path, t, x, s) ==
  /\ path \in Seq(Transition) /\ t = path[Len(path)]
  /\ \E y \in s.moves : y.tr = t /\ RunsTo(x, path, y.to)

\* What a search has said is so.
Confirmed ==
  /\ DOMAIN ways \subseteq Transition /\ \A t \in DOMAIN ways : IsWay(ways[t], t, job, Truth)
  /\ sure \subseteq Transition /\ \A t \in sure : ~ CanFire(Truth, t)

\* What a truncated graph did not fire is to be looked for, or has been.
Covered ==
  /\ left \subseteq Transition /\ (stage = "over" => left = {})
  /\ Judged /\ truncated =>
       Unfired \subseteq left \cup confirmed \cup DOMAIN ways \cup (IF stage = "search" THEN {goal} ELSE {})

HInv == FoundReal /\ Sought /\ Confirmed /\ Covered

\* What is left where one is taken out.
LEMMA RemoveAtIs ==
  ASSUME NEW S, NEW s \in Seq(S), NEW k \in DOMAIN s
  PROVE  /\ RemoveAt(s, k) \in Seq(S)
         /\ \A j \in DOMAIN RemoveAt(s, k) : \E i \in DOMAIN s : RemoveAt(s, k)[j] = s[i]
         /\ \A i \in DOMAIN s : i # k => \E j \in DOMAIN RemoveAt(s, k) : RemoveAt(s, k)[j] = s[i]
<1> DEFINE n == Len(s)  a == SubSeq(s, 1, k - 1)  z == SubSeq(s, k + 1, n)  r == a \o z
<1>1. n \in Nat /\ DOMAIN s = 1 .. n /\ k \in 1 .. n
  OBVIOUS
<1>2. a \in Seq(S) /\ Len(a) = k - 1 /\ (\A i \in 1 .. k - 1 : a[i] = s[i])
  BY <1>1, SubSeqProperties
<1>3. z \in Seq(S) /\ Len(z) = n - k /\ \A i \in 1 .. n - k : z[i] = s[k + i]
  <2>1. z \in Seq(S)
    BY <1>1, SubSeqProperties
  <2>2. Len(z) = n - k
    BY <1>1
  <2>3. \A i \in 1 .. n - k : z[i] = s[k + i]
    BY <1>1
  <2> QED BY <2>1, <2>2, <2>3
<1>4. RemoveAt(s, k) = r
  BY <1>1 DEF RemoveAt
<1> HIDE DEF a, z, n
<1>5. /\ r \in Seq(S) /\ Len(r) = n - 1 /\ DOMAIN r = 1 .. n - 1
      /\ \A i \in 1 .. n - 1 : r[i] = IF i <= k - 1 THEN a[i] ELSE z[i - (k - 1)]
  <2>1. /\ r \in Seq(S) /\ Len(r) = Len(a) + Len(z) /\ DOMAIN r = 1 .. Len(a) + Len(z)
        /\ \A i \in 1 .. Len(a) + Len(z) : r[i] = IF i <= Len(a) THEN a[i] ELSE z[i - Len(a)]
    <3>1. a \in Seq(S) /\ z \in Seq(S)
      BY <1>2, <1>3
    <3> QED BY <3>1
  <2>2. Len(a) + Len(z) = n - 1
    BY <1>1, <1>2, <1>3
  <2> HIDE DEF r
  <2> QED BY <1>2, <2>1, <2>2
<1> HIDE DEF r
<1>6. \A i \in 1 .. n - 1 : i <= k - 1 => r[i] = s[i] /\ i \in 1 .. n
  BY <1>1, <1>2, <1>5
<1>7. \A i \in 1 .. n - 1 : ~ (i <= k - 1) => r[i] = s[i + 1] /\ i + 1 \in 1 .. n
  <2> SUFFICES ASSUME NEW i \in 1 .. n - 1, ~ (i <= k - 1) PROVE r[i] = s[i + 1] /\ i + 1 \in 1 .. n
    OBVIOUS
  <2> DEFINE d == i - (k - 1)
  <2>1. d \in 1 .. n - k /\ k + d = i + 1 /\ i + 1 \in 1 .. n
    BY <1>1
  <2>2. r[i] = z[d]
    BY <1>5
  <2> HIDE DEF d
  <2> QED BY <1>3, <2>1, <2>2
<1>8. \A j \in 1 .. n - 1 : \E i \in 1 .. n : r[j] = s[i]
  BY <1>6, <1>7
<1>9. ASSUME NEW i \in 1 .. n, i # k PROVE \E j \in 1 .. n - 1 : r[j] = s[i]
  <2>1. CASE i < k
    <3>1. i \in 1 .. n - 1 /\ i <= k - 1
      BY <1>1, <2>1
    <3> QED BY <1>6, <3>1
  <2>2. CASE i > k
    <3> DEFINE j == i - 1
    <3>1. j \in 1 .. n - 1 /\ ~ (j <= k - 1) /\ j + 1 = i
      BY <1>1, <2>2
    <3> HIDE DEF j
    <3> QED BY <1>7, <3>1
  <2> QED BY <1>1, <1>9, <2>1, <2>2
<1> QED BY <1>1, <1>4, <1>5, <1>8, <1>9

\* What is in r is what is in s or in q.
Joins(r, s, q) ==
  /\ \A j \in DOMAIN r : (\E i \in DOMAIN s : r[j] = s[i]) \/ (\E i \in DOMAIN q : r[j] = q[i])
  /\ \A i \in DOMAIN s : \E j \in DOMAIN r : r[j] = s[i]
  /\ \A i \in DOMAIN q : \E j \in DOMAIN r : r[j] = q[i]

\* What is in two sequences put together.
LEMMA JoinIs ==
  ASSUME NEW S, NEW s \in Seq(S), NEW q \in Seq(S), NEW r, r = s \o q
  PROVE  r \in Seq(S) /\ Joins(r, s, q)
<1> DEFINE a == Len(s)  b == Len(q)
<1>1. /\ r \in Seq(S) /\ a \in Nat /\ b \in Nat /\ DOMAIN s = 1 .. a /\ DOMAIN q = 1 .. b /\ DOMAIN r = 1 .. a + b
      /\ \A i \in 1 .. a + b : r[i] = IF i <= a THEN s[i] ELSE q[i - a]
  OBVIOUS
<1> HIDE DEF a, b
<1>2. \A i \in 1 .. a + b : i \in 1 .. a \/ (~ (i <= a) /\ i - a \in 1 .. b)
  BY <1>1
<1>3. \A i \in 1 .. a : i \in 1 .. a + b /\ r[i] = s[i]
  BY <1>1
<1>4. \A i \in 1 .. b : a + i \in 1 .. a + b /\ r[a + i] = q[i]
  <2> SUFFICES ASSUME NEW i \in 1 .. b PROVE a + i \in 1 .. a + b /\ r[a + i] = q[i]
    OBVIOUS
  <2> DEFINE j == a + i
  <2>1. j \in 1 .. a + b /\ ~ (j <= a) /\ j - a = i
    BY <1>1
  <2> HIDE DEF j
  <2>2. r[j] = q[i]
    BY <1>1, <2>1
  <2> QED BY <2>1, <2>2 DEF j
<1> QED BY <1>1, <1>2, <1>3, <1>4 DEF Joins

\* The search being fixed, so is what it is measured against.
LEMMA JobFixed == job' = job => Truth' = Truth
  BY DEF Truth

\* A search that looked into all it saw has seen all there is.
LEMMA ExhaustedAll ==
  ASSUME GraphTypeOK, Sought, stage = "search", ~ skipped, heap = <<>>
  PROVE  ~ CanFire(Truth, goal)
<1>1. \A m \in seen : Exhausted(m)
  BY DEF Sought
<1>2. seen \in SUBSET Marking /\ job.opening \in seen /\ goal \in Transition
  BY TruthIs DEF Sought
<1>3. Closure(job.net, seen)
  BY <1>1 DEF Closure, Exhausted
<1>4. Reachable(Truth) \subseteq seen
  BY <1>2, <1>3, TruthIs
<1> QED BY <1>1, <1>2, <1>4, TruthIs DEF Exhausted

\* What a complete graph did not fire cannot fire.
LEMMA UnfiredNever ==
  ASSUME GraphTypeOK, GraphExact, pc = "built", ~ truncated, NEW t \in Unfired
  PROVE  ~ CanFire(Truth, t)
<1>1. \A m \in Known : Expanded(m)
  BY DEF GraphExact
<1>2. Known \in SUBSET Marking /\ job.opening \in Known /\ t \in Transition
  BY AlongType DEF GraphExact, Unfired
<1>3. ASSUME NEW m \in Known, NEW u \in Transition, Enabled(job.net, u, m)
      PROVE  Fire(job.net, u, m) \in Known /\ u # t
  <2>1. PICK k \in DOMAIN edges : edges[k] = [from |-> m, tr |-> u, to |-> Fire(job.net, u, m)]
    BY <1>1, <1>3 DEF Expanded
  <2> QED BY <2>1 DEF GraphExact, Unfired
<1>4. Closure(job.net, Known)
  BY <1>3 DEF Closure
<1>5. Reachable(Truth) \subseteq Known
  BY <1>2, <1>4, TruthIs
<1> QED BY <1>2, <1>3, <1>5, TruthIs

\* What a graph fired can fire.
LEMMA FiredCan ==
  ASSUME GraphTypeOK, GraphExact, FoundReal, NEW t \in Transition, t \notin Unfired
  PROVE  CanFire(Truth, t)
<1>1. PICK k \in DOMAIN edges : edges[k].tr = t
  BY DEF Unfired
<1>2. edges[k].from \in Reachable(Truth) /\ Enabled(job.net, t, edges[k].from)
  BY <1>1 DEF GraphExact, FoundReal
<1> QED BY <1>2, TruthIs

\* The invariant holds at first.
LEMMA InitHInv == Init => HInv
<1> SUFFICES ASSUME Init PROVE HInv
  OBVIOUS
<1>1. GraphTypeOK
  BY InitAInv DEF AInv, IInv
<1>2. Known = {job.opening}
  BY DEF Init, Start, BuildInit, Known, Range
<1>3. FoundReal
  BY <1>1, <1>2, TruthIs DEF FoundReal
<1>4. Sought /\ Confirmed /\ Covered
  BY DEF Init, Start, Sought, Confirmed, Covered, Judged
<1> QED BY <1>3, <1>4 DEF HInv

\* Finding a marking more keeps what is found real.
LEMMA BuildReal == IInv /\ FoundReal /\ Build => FoundReal' /\ job' = job
<1> SUFFICES ASSUME IInv, FoundReal, Build PROVE FoundReal' /\ job' = job
  OBVIOUS
<1>1. job' = job
  BY DEF Build, Pop, Discover, Exceed, EndExpand, Finish
<1>2. Truth' = Truth
  BY <1>1, JobFixed
<1>3. CASE found' = found
  BY <1>1, <1>2, <1>3 DEF FoundReal, Known
<1>4. CASE \E i \in DOMAIN Declared : Discover(i)
  <2>1. PICK i \in DOMAIN Declared : Discover(i)
    BY <1>4
  <2>2. /\ Declared[i] \in Transition /\ at \in Known /\ found \in Seq(Marking)
        /\ Enabled(job.net, Declared[i], at)
    BY <2>1, DeclaredAssumption DEF IInv, GraphTypeOK, Discover, Reaches
  <2>3. After(i) \in Reachable(Truth)
    <3>1. at \in Reachable(Truth) /\ GraphTypeOK
      BY <2>2 DEF FoundReal, IInv
    <3>2. Closure(job.net, Reachable(Truth))
      BY <3>1, TruthIs
    <3> QED BY <2>2, <3>1, <3>2 DEF Closure, After
  <2>4. Known' = Known \/ Known' = Known \cup {After(i)}
    <3>1. found' = found \/ found' = Append(found, After(i))
      BY <2>1 DEF Discover
    <3> QED BY <2>2, <3>1, RangeAppend DEF Known
  <2> QED BY <1>1, <1>2, <2>3, <2>4 DEF FoundReal
<1> QED BY <1>1, <1>3, <1>4 DEF Build, Pop, Exceed, EndExpand, Finish

\* What a step that leaves the graph alone keeps.
LEMMA GraphRests ==
  ASSUME UNCHANGED graph
  PROVE  /\ FoundReal' = FoundReal /\ Unfired' = Unfired /\ truncated' = truncated /\ job' = job
<1>1. job' = job /\ found' = found /\ edges' = edges /\ truncated' = truncated
  BY DEF graph
<1>2. Truth' = Truth
  BY <1>1, JobFixed
<1> QED BY <1>1, <1>2 DEF FoundReal, Known, Unfired

\* Judging keeps the invariant.
LEMMA JudgeKeeps == AInv /\ HInv /\ Judge => HInv'
<1> SUFFICES ASSUME AInv, HInv, Judge PROVE HInv'
  OBVIOUS
<1>1. FoundReal' /\ Unfired' = Unfired /\ truncated' = truncated /\ job' = job /\ Truth' = Truth
  BY GraphRests, JobFixed DEF Judge, HInv, graph
<1>2. /\ stage = "group" /\ stage' = "verify" /\ ways' = ways /\ pc = "built"
      /\ truncated => left' = Unfired /\ confirmed' = confirmed /\ sure' = sure
      /\ ~ truncated => sure' = Unfired /\ left' = left
  BY DEF Judge, AInv, Staged
<1>3. Sought'
  BY <1>2 DEF Sought
<1>4. Confirmed'
  <2>1. sure' \subseteq Transition /\ \A t \in sure' : ~ CanFire(Truth, t)
    <3>1. CASE truncated
      BY <1>2, <3>1 DEF HInv, Confirmed
    <3>2. CASE ~ truncated
      <4>1. \A t \in Unfired : ~ CanFire(Truth, t)
        BY <1>2, <3>2, UnfiredNever DEF AInv, IInv
      <4> QED BY <1>2, <3>2, <4>1 DEF Unfired
    <3> QED BY <3>1, <3>2
  <2>2. DOMAIN ways' \subseteq Transition /\ \A t \in DOMAIN ways' : IsWay(ways'[t], t, job, Truth)
    BY <1>1, <1>2, JobFixed DEF HInv, Confirmed
  <2> QED BY <1>1, <2>1, <2>2 DEF Confirmed
<1>5. Covered'
  <2>1. left' \subseteq Transition
    BY <1>2 DEF HInv, Covered, Unfired
  <2>2. truncated => Unfired \subseteq left'
    BY <1>2
  <2> QED BY <1>1, <1>2, <2>1, <2>2 DEF Covered
<1> QED BY <1>1, <1>3, <1>4, <1>5 DEF HInv

\* Aiming keeps the invariant.
LEMMA AimKeeps == AInv /\ HInv /\ Aim => HInv'
<1> SUFFICES ASSUME AInv, HInv, Aim PROVE HInv'
  OBVIOUS
<1>1. FoundReal' /\ Unfired' = Unfired /\ truncated' = truncated /\ job' = job /\ Truth' = Truth
  BY GraphRests, JobFixed DEF Aim, HInv, graph
<1>2. /\ stage = "verify" /\ stage' = "search" /\ goal' \in left /\ left' = left \ {goal'}
      /\ seen' = {job.opening} /\ heap' = <<[mk |-> job.opening, path |-> <<>>]>>
      /\ skipped' = FALSE /\ confirmed' = confirmed /\ sure' = sure /\ ways' = ways
  BY DEF Aim
<1>3. job.net \in Nets /\ job.opening \in Marking /\ job.opening \in Reachable(Truth)
  BY TruthIs DEF AInv, IInv
<1>4. Sought'
  <2>1. heap' \in Seq(Item) /\ DOMAIN heap' = {1} /\ heap'[1].mk = job.opening /\ heap'[1].path = <<>>
    BY <1>2, <1>3 DEF Item
  <2>2. goal' \in Transition
    BY <1>2 DEF HInv, Covered
  <2>3. \A j \in DOMAIN heap' : heap'[j].mk \in seen' /\ RunsTo(job, heap'[j].path, heap'[j].mk)
    BY <1>1, <1>2, <1>3, <2>1, ReplaysNothing, JobFixed
  <2>4. seen' \subseteq Reachable(Truth)' /\ job'.opening \in seen'
    BY <1>1, <1>2, <1>3
  <2>5. \A m \in seen' : \E j \in DOMAIN heap' : heap'[j].mk = m
    BY <1>2, <2>1
  <2>6. (goal \in Transition)' /\ (heap \in Seq(Item))'
    BY <2>1, <2>2
  <2>7. (\A j \in DOMAIN heap : heap[j].mk \in seen /\ RunsTo(job, heap[j].path, heap[j].mk))'
    BY <1>1, <2>3
  <2>8. (seen \subseteq Reachable(Truth) /\ job.opening \in seen)'
    BY <2>4
  <2>9. (\A m \in seen : \E j \in DOMAIN heap : heap[j].mk = m)'
    BY <2>5
  <2> QED BY <2>6, <2>7, <2>8, <2>9 DEF Sought
<1>5. Confirmed'
  BY <1>1, <1>2, JobFixed DEF HInv, Confirmed
<1>6. Covered'
  BY <1>1, <1>2 DEF HInv, Covered, Judged
<1> QED BY <1>1, <1>4, <1>5, <1>6 DEF HInv

\* Finding the goal keeps the invariant.
LEMMA HitKeeps == \A k \in DOMAIN heap : AInv /\ HInv /\ Hit(k) => HInv'
<1> SUFFICES ASSUME NEW k \in DOMAIN heap, AInv, HInv, Hit(k) PROVE HInv'
  OBVIOUS
<1>1. FoundReal' /\ Unfired' = Unfired /\ truncated' = truncated /\ job' = job /\ Truth' = Truth
  BY GraphRests, JobFixed DEF Hit, HInv, graph
<1> DEFINE way == Append(heap[k].path, goal)  m == heap[k].mk
<1>2. /\ stage = "search" /\ stage' = "verify" /\ Enabled(job.net, goal, m)
      /\ ways' = [t \in DOMAIN ways \cup {goal} |-> IF t = goal THEN way ELSE ways[t]]
      /\ left' = left /\ confirmed' = confirmed /\ sure' = sure
  BY DEF Hit, Searching
<1>3. /\ goal \in Transition /\ heap \in Seq(Item) /\ RunsTo(job, heap[k].path, m) /\ m \in Reachable(Truth)
      /\ heap[k] \in Item
  <2>1. goal \in Transition /\ heap \in Seq(Item) /\ RunsTo(job, heap[k].path, m) /\ m \in Reachable(Truth)
    BY <1>2 DEF HInv, Sought
  <2> QED BY <2>1
<1>4. job.net \in Nets /\ job.opening \in Marking /\ heap[k].path \in Seq(Transition)
  BY <1>3, TruthIs DEF AInv, IInv, Item
<1>5. RunsTo(job, way, Fire(job.net, goal, m))
  BY <1>2, <1>3, <1>4, ReplaysOn
<1>6. way[Len(way)] = goal
  BY <1>4
<1>7. [from |-> m, tr |-> goal, to |-> Fire(job.net, goal, m)] \in Truth.moves
  BY <1>2, <1>3, TruthIs DEF AInv, IInv
<1> HIDE DEF way, m
<1>8. IsWay(ways'[goal], goal, job, Truth)
  <2>1. ways'[goal] = way
    BY <1>2
  <2>2. \E x \in Truth.moves : x.tr = goal /\ RunsTo(job, way, x.to)
    BY <1>5, <1>7
  <2>3. way \in Seq(Transition) /\ goal = way[Len(way)]
    BY <1>3, <1>4, <1>6 DEF way
  <2> QED BY <2>1, <2>2, <2>3 DEF IsWay
<1>9. ASSUME NEW t \in DOMAIN ways, t # goal PROVE IsWay(ways'[t], t, job, Truth)
  <2>1. ways'[t] = ways[t]
    BY <1>2, <1>9
  <2>2. IsWay(ways[t], t, job, Truth)
    BY DEF HInv, Confirmed
  <2> QED BY <2>1, <2>2
<1>10. Confirmed'
  <2>1. DOMAIN ways' = DOMAIN ways \cup {goal}
    BY <1>2
  <2>2. \A t \in DOMAIN ways' : IsWay(ways'[t], t, job, Truth)
    BY <1>8, <1>9, <2>1
  <2> QED BY <1>1, <1>2, <1>3, <2>1, <2>2 DEF HInv, Confirmed
<1>11. Covered'
  <2>1. DOMAIN ways' = DOMAIN ways \cup {goal}
    BY <1>2
  <2> QED BY <1>1, <1>2, <2>1 DEF HInv, Covered, Judged
<1>12. Sought'
  BY <1>2 DEF Sought
<1> QED BY <1>1, <1>10, <1>11, <1>12 DEF HInv

\* Giving up keeps the invariant.
LEMMA GiveUpKeeps == AInv /\ HInv /\ GiveUp => HInv'
<1> SUFFICES ASSUME AInv, HInv, GiveUp PROVE HInv'
  OBVIOUS
<1>1. FoundReal' /\ Unfired' = Unfired /\ truncated' = truncated /\ job' = job /\ Truth' = Truth
  BY GraphRests, JobFixed DEF GiveUp, HInv, graph
<1>2. /\ stage = "search" /\ stage' = "verify" /\ left' = left /\ ways' = ways
      /\ confirmed' = confirmed \cup {goal}
      /\ sure' = IF heap = <<>> /\ ~ skipped THEN sure \cup {goal} ELSE sure
  BY DEF GiveUp
<1>3. Confirmed'
  <2>1. sure' \subseteq Transition /\ \A t \in sure' : ~ CanFire(Truth, t)
    <3>1. CASE heap = <<>> /\ ~ skipped
      <4>1. ~ CanFire(Truth, goal) /\ goal \in Transition
        BY <1>2, <3>1, ExhaustedAll DEF AInv, IInv, HInv, Sought
      <4> QED BY <1>2, <3>1, <4>1 DEF HInv, Confirmed
    <3>2. CASE ~ (heap = <<>> /\ ~ skipped)
      BY <1>2, <3>2 DEF HInv, Confirmed
    <3> QED BY <3>1, <3>2
  <2> QED BY <1>1, <1>2, <2>1, JobFixed DEF HInv, Confirmed
<1>4. Covered'
  BY <1>1, <1>2 DEF HInv, Covered, Judged
<1>5. Sought'
  BY <1>2 DEF Sought
<1> QED BY <1>1, <1>3, <1>4, <1>5 DEF HInv

\* Looking into a marking keeps the invariant.
LEMMA WidenKeeps == \A k \in DOMAIN heap : AInv /\ HInv /\ Widen(k) => HInv'
<1> SUFFICES ASSUME NEW k \in DOMAIN heap, AInv, HInv, Widen(k) PROVE HInv'
  OBVIOUS
<1>1. FoundReal' /\ Unfired' = Unfired /\ truncated' = truncated /\ job' = job /\ Truth' = Truth
  BY GraphRests, JobFixed DEF Widen, HInv, graph
<1> DEFINE item == heap[k]  rest == RemoveAt(heap, k)  new == Followers(item)
<1>2. /\ stage = "search" /\ stage' = stage /\ ~ Enabled(job.net, goal, item.mk)
      /\ heap' = rest \o new
      /\ seen' = seen \cup {heap'[j].mk : j \in DOMAIN heap'}
      /\ ~ skipped' => ~ skipped /\ \A t \in Transition : Enabled(job.net, t, item.mk) => ~ TooMany(Fire(job.net, t, item.mk))
      /\ left' = left /\ confirmed' = confirmed /\ sure' = sure /\ ways' = ways /\ goal' = goal
  BY DEF Widen, Searching
<1>3. /\ goal \in Transition /\ heap \in Seq(Item)
      /\ \A j \in DOMAIN heap : heap[j].mk \in seen /\ RunsTo(job, heap[j].path, heap[j].mk)
      /\ seen \subseteq Reachable(Truth) /\ job.opening \in seen
      /\ ~ skipped => \A m \in seen : (\E j \in DOMAIN heap : heap[j].mk = m) \/ Exhausted(m)
  BY <1>2 DEF HInv, Sought
<1>4. item \in Item /\ item.mk \in Marking /\ item.path \in Seq(Transition)
  <2>1. item \in Item
    BY <1>3
  <2> HIDE DEF item
  <2> QED BY <2>1 DEF Item
<1>5. job.net \in Nets /\ job.opening \in Marking /\ Closure(job.net, Reachable(Truth))
  BY TruthIs DEF AInv, IInv
<1>6. /\ rest \in Seq(Item)
      /\ \A j \in DOMAIN rest : \E i \in DOMAIN heap : rest[j] = heap[i]
      /\ \A i \in DOMAIN heap : i # k => \E j \in DOMAIN rest : rest[j] = heap[i]
  BY <1>3, RemoveAtIs
<1>7. /\ new \in Seq(Item)
      /\ \A j \in DOMAIN new : \E t \in Transition : Enabled(job.net, t, item.mk) /\ new[j] = Leading(item, t)
      /\ \A t \in Transition :
           Enabled(job.net, t, item.mk) /\ ~ TooMany(Fire(job.net, t, item.mk)) =>
             \/ Fire(job.net, t, item.mk) \in seen
             \/ \E j \in DOMAIN new : new[j].mk = Fire(job.net, t, item.mk)
  BY <1>4, <1>5, FollowersAre
<1> HIDE DEF rest, new
<1>8. /\ heap' \in Seq(Item)
      /\ \A j \in DOMAIN heap' : (\E i \in DOMAIN rest : heap'[j] = rest[i]) \/ (\E i \in DOMAIN new : heap'[j] = new[i])
      /\ \A i \in DOMAIN rest : \E j \in DOMAIN heap' : heap'[j] = rest[i]
      /\ \A i \in DOMAIN new : \E j \in DOMAIN heap' : heap'[j] = new[i]
  <2>1. rest \in Seq(Item) /\ new \in Seq(Item) /\ heap' = rest \o new
    BY <1>2, <1>6, <1>7
  <2> DEFINE r == heap'
  <2> HIDE DEF r
  <2>2. r \in Seq(Item) /\ Joins(r, rest, new)
    BY <2>1, JoinIs DEF r
  <2>3. heap' \in Seq(Item) /\ Joins(heap', rest, new)
    BY <2>2 DEF r
  <2> QED BY <2>3 DEF Joins
<1>9. ASSUME NEW j \in DOMAIN heap'
      PROVE  heap'[j].mk \in Reachable(Truth) /\ RunsTo(job, heap'[j].path, heap'[j].mk)
  <2>1. CASE \E i \in DOMAIN rest : heap'[j] = rest[i]
    <3>1. PICK i \in DOMAIN heap : heap'[j] = heap[i]
      BY <1>6, <2>1
    <3> QED BY <1>3, <3>1
  <2>2. CASE \E i \in DOMAIN new : heap'[j] = new[i]
    <3>1. PICK t \in Transition : Enabled(job.net, t, item.mk) /\ heap'[j] = Leading(item, t)
      BY <1>7, <2>2
    <3>2. heap'[j].mk = Fire(job.net, t, item.mk) /\ heap'[j].path = Append(item.path, t)
      BY <3>1 DEF Leading
    <3>3. item.mk \in Reachable(Truth) /\ RunsTo(job, item.path, item.mk)
      BY <1>3
    <3>4. RunsTo(job, Append(item.path, t), Fire(job.net, t, item.mk))
      BY <1>4, <1>5, <3>1, <3>3, ReplaysOn
    <3> QED BY <1>5, <3>1, <3>2, <3>3, <3>4 DEF Closure
  <2> QED BY <1>8, <2>1, <2>2
<1>10. ASSUME ~ skipped', NEW m \in seen'
       PROVE  (\E j \in DOMAIN heap' : heap'[j].mk = m) \/ Exhausted(m)'
  <2>1. CASE m = item.mk
    <3>1. ASSUME NEW t \in Transition, Enabled(job.net, t, m) PROVE Fire(job.net, t, m) \in seen'
      <4>1. Fire(job.net, t, m) \in seen \/ \E j \in DOMAIN new : new[j].mk = Fire(job.net, t, m)
        BY <1>2, <1>7, <1>10, <2>1, <3>1
      <4>2. seen' = seen \cup {heap'[j].mk : j \in DOMAIN heap'}
        BY <1>2
      <4>3. CASE Fire(job.net, t, m) \in seen
        BY <4>2, <4>3
      <4>4. CASE \E i \in DOMAIN new : new[i].mk = Fire(job.net, t, m)
        <5>1. PICK i \in DOMAIN new : new[i].mk = Fire(job.net, t, m)
          BY <4>4
        <5>2. PICK j \in DOMAIN heap' : heap'[j] = new[i]
          BY <1>8
        <5>3. heap'[j].mk = Fire(job.net, t, m)
          BY <5>1, <5>2
        <5> QED BY <4>2, <5>3
      <4> QED BY <4>1, <4>3, <4>4
    <3> QED BY <1>1, <1>2, <2>1, <3>1 DEF Exhausted
  <2>2. CASE m \in seen /\ m # item.mk
    <3>1. CASE Exhausted(m)
      BY <1>1, <1>2, <3>1 DEF Exhausted
    <3>2. CASE \E j \in DOMAIN heap : heap[j].mk = m
      <4>1. PICK i \in DOMAIN heap : heap[i].mk = m
        BY <3>2
      <4>2. i # k
        BY <2>2, <4>1
      <4> QED BY <1>6, <1>8, <4>1, <4>2
    <3> QED BY <1>2, <1>3, <1>10, <2>2, <3>1, <3>2
  <2>3. CASE m \in {heap'[j].mk : j \in DOMAIN heap'}
    BY <2>3
  <2> QED BY <1>2, <2>1, <2>2, <2>3
<1>11. Sought'
  <2>1. \A j \in DOMAIN heap' : heap'[j].mk \in seen' /\ RunsTo(job, heap'[j].path, heap'[j].mk)
    BY <1>1, <1>2, <1>9, JobFixed
  <2>2. seen' \subseteq Reachable(Truth)' /\ job'.opening \in seen'
    BY <1>1, <1>2, <1>3, <1>9
  <2>3. ~ skipped' => \A m \in seen' : (\E j \in DOMAIN heap' : heap'[j].mk = m) \/ Exhausted(m)'
    BY <1>10
  <2>4. goal' \in Transition /\ heap' \in Seq(Item)
    BY <1>2, <1>3, <1>8
  <2>5. (goal \in Transition)' /\ (heap \in Seq(Item))'
    BY <2>4
  <2>6. (\A j \in DOMAIN heap : heap[j].mk \in seen /\ RunsTo(job, heap[j].path, heap[j].mk))'
    BY <1>1, <2>1
  <2>7. (seen \subseteq Reachable(Truth) /\ job.opening \in seen)'
    BY <2>2
  <2>8. (~ skipped => \A m \in seen : (\E j \in DOMAIN heap : heap[j].mk = m) \/ Exhausted(m))'
    BY <2>3
  <2> QED BY <2>5, <2>6, <2>7, <2>8 DEF Sought
<1>12. Confirmed'
  BY <1>1, <1>2, JobFixed DEF HInv, Confirmed
<1>13. Covered'
  BY <1>1, <1>2 DEF HInv, Covered, Judged
<1> QED BY <1>1, <1>11, <1>12, <1>13 DEF HInv

\* Every step keeps the invariant.
LEMMA NextHInv == AInv /\ HInv /\ [Next]_vars => HInv'
<1> SUFFICES ASSUME AInv, HInv, [Next]_vars PROVE HInv'
  OBVIOUS
<1>1. CASE Analysing /\ UNCHANGED hunt
  <2>1. /\ left' = left /\ goal' = goal /\ confirmed' = confirmed /\ sure' = sure /\ ways' = ways
    BY <1>1 DEF hunt
  <2>2. stage' \in {"build", "group"} /\ stage \in {"build", "group"}
    BY <1>1 DEF Analysing, Building, Group, Grouping
  <2>3. FoundReal' /\ job' = job
    <3>1. CASE Build
      BY <3>1, BuildReal DEF AInv, HInv
    <3>2. CASE UNCHANGED graph
      BY <3>2, GraphRests DEF HInv
    <3> QED BY <1>1, <3>1, <3>2 DEF Analysing, Building, Group, Grouping
  <2>4. Truth' = Truth
    BY <2>3, JobFixed
  <2>5. Sought' /\ Covered'
    BY <2>1, <2>2 DEF Sought, Covered, Judged, HInv
  <2>6. Confirmed'
    BY <2>1, <2>3, <2>4, JobFixed DEF HInv, Confirmed
  <2> QED BY <2>3, <2>5, <2>6 DEF HInv
<1>2. CASE UNCHANGED <<graph, left, goal, seen, heap, skipped, confirmed, sure, ways>>
           /\ (stage' = stage \/ (stage' = "over" /\ stage = "verify" /\ left = {}))
  <2>1. FoundReal' /\ Unfired' = Unfired /\ truncated' = truncated /\ job' = job /\ Truth' = Truth
    BY <1>2, GraphRests, JobFixed DEF HInv
  <2>2. /\ left' = left /\ goal' = goal /\ confirmed' = confirmed /\ sure' = sure /\ ways' = ways
        /\ seen' = seen /\ heap' = heap /\ skipped' = skipped
    BY <1>2
  <2>3. Sought'
    BY <1>2, <2>1, <2>2, JobFixed DEF HInv, Sought, Exhausted
  <2>4. Confirmed' /\ Covered'
    BY <1>2, <2>1, <2>2, JobFixed DEF HInv, Confirmed, Covered, Judged
  <2> QED BY <2>1, <2>3, <2>4 DEF HInv
<1>3. CASE Report
  BY <1>2, <1>3 DEF Report, hunt
<1>4. CASE UNCHANGED vars
  BY <1>2, <1>4 DEF vars, analysis, hunt
<1> QED BY <1>1, <1>3, <1>4, JudgeKeeps, AimKeeps, HitKeeps, GiveUpKeeps, WidenKeeps DEF Next

\* The invariant holds at every state of an analysis.
THEOREM HuntInvariance == FairSpec => []HInv
  BY InitAInv, NextAInv, InitHInv, NextHInv, PTL DEF FairSpec

\* What the targeted searches report (verify_dead_transitions) is so: a way to
\* each transition confirmed reachable, no firing at all of one whose search
\* left nothing out, and the flag where none was cut short.
THEOREM TargetsAreRight == FairSpec => []TargetsRight
<1>1. AInv /\ HInv => TargetsRight
  <2> SUFFICES ASSUME AInv, HInv, stage = "over"
               PROVE  /\ \A t \in DOMAIN ways : /\ t = ways[t][Len(ways[t])]
                                              /\ \E x \in Truth.moves : x.tr = t /\ Replays(ways[t], x.to)
                      /\ \A t \in sure : ~ CanFire(Truth, t)
                      /\ truncated /\ Unfired # {} /\ confirmed = sure =>
                           (confirmed = {} <=> \A t \in Transition : CanFire(Truth, t))
    BY DEF TargetsRight
  <2>1. (\A t \in DOMAIN ways : IsWay(ways[t], t, job, Truth)) /\ sure \subseteq Transition /\ \A t \in sure : ~ CanFire(Truth, t)
    BY DEF HInv, Confirmed
  <2>2. ASSUME truncated, confirmed = {}, NEW t \in Transition PROVE CanFire(Truth, t)
    <3>1. CASE t \in Unfired
      <4>1. t \in left \cup DOMAIN ways
        BY <2>2, <3>1 DEF HInv, Covered, Judged
      <4>2. CASE t \in DOMAIN ways
        <5>1. \E x \in Truth.moves : x.tr = t
          BY <2>1, <4>2 DEF IsWay
        <5> QED BY <5>1 DEF CanFire
      <4>3. CASE t \in left
        BY <4>3 DEF HInv, Covered
      <4> QED BY <4>1, <4>2, <4>3
    <3>2. CASE t \notin Unfired
      BY <3>2, FiredCan DEF AInv, IInv, HInv
    <3> QED BY <3>1, <3>2
  <2>3. ASSUME NEW t \in DOMAIN ways
        PROVE  t = ways[t][Len(ways[t])] /\ \E x \in Truth.moves : x.tr = t /\ Replays(ways[t], x.to)
    <3>1. IsWay(ways[t], t, job, Truth)
      BY <2>1
    <3> QED BY <3>1, ReplaysIs, TruthIs DEF IsWay, AInv, IInv
  <2>4. truncated /\ confirmed = sure => (confirmed = {} <=> \A t \in Transition : CanFire(Truth, t))
    BY <2>1, <2>2
  <2> QED BY <2>1, <2>3, <2>4
<1> QED BY <1>1, AnalyzerInvariance, HuntInvariance, PTL

-----------------------------------------------------------------------------
(* The graph is built breadth first. *)

\* How many of the found markings the expansion has come to.
Popped == Len(found) - Len(queue)

\* The transitions up to the n-th that m enables.
Offered(m, n) == {i \in 1 .. n : Enabled(job.net, Declared[i], m)}

\* The queue is what was found last; before it is the marking being expanded.
Lined ==
  /\ Popped >= 0
  /\ \A j \in DOMAIN queue : queue[j] = found[Popped + j]
  /\ Popped = 0 => Len(found) = 1 /\ pc # "expand"
  /\ Popped # 0 => at = found[Popped]

\* Markings are found by increasing depth, none two levels below the one being
\* expanded.
Levels ==
  /\ found[1] = job.opening /\ depth[job.opening] = 0
  /\ \A i, j \in DOMAIN found : i <= j => depth[found[i]] <= depth[found[j]]
  /\ Popped # 0 => \A j \in DOMAIN found : depth[found[j]] <= depth[at] + 1
  /\ \A k \in DOMAIN edges : depth[edges[k].to] <= depth[edges[k].from] + 1

\* The first edge into a marking comes from one a level above.
FirstInto(k, m) == edges[k].to = m /\ \A i \in 1 .. k - 1 : edges[i].to # m
Entered ==
  \A m \in Known \ {job.opening} : \E k \in DOMAIN edges :
    FirstInto(k, m) /\ depth[m] = depth[edges[k].from] + 1

\* The j-th marking has an edge for each declared transition it enables.
Counted(j) == Cardinality(From(j, Len(edges))) = Cardinality(Offered(found[j], Len(Declared)))

\* What is behind is fully expanded, what waits is not begun, and what a limit
\* interrupted has fewer edges than it enables transitions.
Tried ==
  /\ \A j \in DOMAIN found : /\ j < Popped => Expanded(found[j]) /\ Counted(j)
                             /\ j > Popped => From(j, Len(edges)) = {}
  /\ pc = "expand" => Cardinality(From(Popped, Len(edges))) = Cardinality(Offered(at, next - 1))
  /\ pc = "pop" /\ Popped # 0 => Expanded(at) /\ Counted(Popped)
  /\ pc = "built" /\ Popped # 0 =>
       \/ Expanded(at) /\ Counted(Popped)
       \/ Cardinality(From(Popped, Len(edges))) < Cardinality(Offered(at, Len(Declared)))
  /\ pc = "built" /\ ~ truncated => Popped = Len(found) /\ Counted(Popped)

BInv == Lined /\ Levels /\ Entered /\ Tried

\* The types the proofs below count with.
LEMMA GraphCounts ==
  ASSUME GraphTypeOK
  PROVE  /\ Len(found) \in Nat /\ DOMAIN found = 1 .. Len(found) /\ found \in Seq(Marking)
         /\ Len(queue) \in Nat /\ DOMAIN queue = 1 .. Len(queue) /\ queue \in Seq(Known)
         /\ Len(edges) \in Nat /\ DOMAIN edges = 1 .. Len(edges)
         /\ Len(Declared) \in Nat /\ DOMAIN Declared = 1 .. Len(Declared)
         /\ Popped \in Int /\ depth \in [Known -> Nat] /\ next \in 1 .. Len(Declared) + 1
         /\ \A j \in DOMAIN found : found[j] \in Known /\ depth[found[j]] \in Nat
         /\ \A m \in Known : \E j \in DOMAIN found : found[j] = m
<1>1. \A j \in DOMAIN found : found[j] \in Known
  BY DEF Known, Range
<1>2. \A m \in Known : \E j \in DOMAIN found : found[j] = m
  BY DEF Known, Range
<1>3. found \in Seq(Marking) /\ queue \in Seq(Known) /\ edges \in Seq(Edge) /\ depth \in [Known -> Nat]
      /\ Declared \in Seq(Transition) /\ next \in 1 .. Len(Declared) + 1
  BY DeclaredAssumption DEF GraphTypeOK
<1>4. Len(found) \in Nat /\ Len(queue) \in Nat
  BY <1>3
<1> QED BY <1>1, <1>2, <1>3, <1>4 DEF Popped

\* Sets of positions, and their numbers.
LEMMA OfferedIs ==
  ASSUME NEW n \in Nat, NEW m
  PROVE  /\ IsFiniteSet(Offered(m, n)) /\ Cardinality(Offered(m, n)) \in Nat
         /\ Offered(m, 0) = {} /\ Cardinality(Offered(m, 0)) = 0
<1>1. Offered(m, n) \in SUBSET (1 .. n)
  BY DEF Offered
<1>2. IsFiniteSet(Offered(m, n))
  BY <1>1, Positions
<1>3. Offered(m, 0) = {}
  BY DEF Offered
<1> QED BY <1>2, <1>3, FS_CardinalityType, FS_EmptySet

\* So too the edges out of a marking.
LEMMA FromIs ==
  ASSUME NEW n \in Nat, NEW k
  PROVE  IsFiniteSet(From(k, n)) /\ Cardinality(From(k, n)) \in Nat
<1>1. From(k, n) \in SUBSET (1 .. n)
  BY DEF From
<1>2. IsFiniteSet(From(k, n))
  BY <1>1, Positions
<1> QED BY <1>2, FS_CardinalityType

\* The invariant holds at first.
LEMMA InitBInv == BuildInit => BInv
<1> SUFFICES ASSUME BuildInit PROVE BInv
  OBVIOUS
<1>1. /\ found = <<job.opening>> /\ edges = <<>> /\ queue = <<job.opening>> /\ pc = "pop"
      /\ depth = [m \in {job.opening} |-> 0]
  BY DEF BuildInit
<1>2. Len(found) = 1 /\ Len(queue) = 1 /\ DOMAIN found = {1} /\ DOMAIN queue = {1} /\ found[1] = job.opening
      /\ queue[1] = job.opening /\ DOMAIN edges = {} /\ Len(edges) = 0 /\ Popped = 0
  BY <1>1 DEF Popped
<1>3. Known = {job.opening}
  BY <1>2 DEF Known, Range
<1>4. \A k : From(k, 0) = {}
  BY DEF From
<1>5. Lined
  BY <1>1, <1>2 DEF Lined
<1>6. Levels
  BY <1>1, <1>2 DEF Levels
<1>7. Entered
  BY <1>3 DEF Entered
<1>8. Tried
  BY <1>1, <1>2, <1>4 DEF Tried
<1> QED BY <1>5, <1>6, <1>7, <1>8 DEF BInv

\* Popping keeps the order.
LEMMA PopInOrder == IInv /\ BInv /\ Pop => BInv'
<1> SUFFICES ASSUME IInv, BInv, Pop PROVE BInv'
  OBVIOUS
<1> USE DEF BInv
<1>1. /\ pc = "pop" /\ pc' = "expand" /\ queue # <<>> /\ at' = Head(queue) /\ queue' = Tail(queue) /\ next' = 1
      /\ job' = job /\ found' = found /\ edges' = edges /\ depth' = depth
  BY DEF Pop
<1>2. GraphTypeOK
  BY DEF IInv
<1> DEFINE L == Len(found)  Q == Len(queue)  P == Popped
<1>3. /\ L \in Nat /\ DOMAIN found = 1 .. L /\ Q \in Nat /\ DOMAIN queue = 1 .. Q /\ P = L - Q /\ P \in Nat
      /\ Len(edges) \in Nat /\ \A j \in DOMAIN found : depth[found[j]] \in Nat
  <2>1. Popped >= 0
    BY DEF Lined
  <2>2. Popped = L - Q
    BY DEF Popped
  <2> QED BY <1>2, <2>1, <2>2, GraphCounts
<1>4. /\ Q # 0 /\ Len(queue') = Q - 1 /\ DOMAIN queue' = 1 .. Q - 1 /\ Head(queue) = queue[1]
      /\ \A j \in 1 .. Q - 1 : queue'[j] = queue[j + 1]
  BY <1>1, <1>2, GraphCounts, HeadTailProperties
<1>5. Popped' = P + 1
  BY <1>1, <1>3, <1>4 DEF Popped
<1>6. at' = found[P + 1] /\ P + 1 \in DOMAIN found /\ 1 \in DOMAIN queue
  <2>1. 1 \in DOMAIN queue /\ P + 1 \in DOMAIN found
    BY <1>3, <1>4
  <2>2. queue[1] = found[Popped + 1]
    BY <2>1 DEF Lined
  <2> QED BY <2>1, <2>2, <1>1, <1>4
<1> HIDE DEF L, Q, P
<1>7. Lined'
  <2>1. ASSUME NEW j \in 1 .. Q - 1 PROVE queue'[j] = found[P + 1 + j]
    <3>1. j + 1 \in 1 .. Q /\ queue'[j] = queue[j + 1] /\ P + (j + 1) = P + 1 + j
      BY <1>3, <1>4
    <3> QED BY <1>3, <3>1 DEF Lined, P
  <2>2. \A j \in DOMAIN queue' : queue'[j] = found'[Popped' + j]
    BY <2>1, <1>1, <1>4, <1>5
  <2>3. Popped' >= 0 /\ Popped' # 0
    BY <1>3, <1>5
  <2>4. at' = found'[Popped']
    BY <1>1, <1>5, <1>6
  <2> QED BY <2>2, <2>3, <2>4 DEF Lined
<1>8. Levels'
  <2>1. ASSUME NEW j \in DOMAIN found PROVE depth[found[j]] <= depth[at'] + 1
    <3>1. CASE P = 0
      <4>1. j = 1 /\ P + 1 = 1
        BY <3>1, <1>3 DEF Lined, P, L
      <4> QED BY <4>1, <1>3, <1>6
    <3>2. CASE P # 0
      <4>1. P \in DOMAIN found /\ P <= P + 1
        BY <3>2, <1>3, <1>6
      <4>2. depth[at] <= depth[at'] /\ depth[found[j]] <= depth[at] + 1 /\ at = found[P]
        BY <3>2, <4>1, <1>6 DEF Levels, Lined, P
      <4>3. depth[at] \in Nat /\ depth[at'] \in Nat /\ depth[found[j]] \in Nat
        BY <4>1, <4>2, <1>3, <1>6
      <4> QED BY <4>2, <4>3
    <3> QED BY <3>1, <3>2
  <2> QED BY <2>1, <1>1 DEF Levels
<1>9. Entered'
  BY <1>1 DEF Entered, FirstInto, Known
<1>10. Tried'
  <2>1. \A m : Expanded(m)' <=> Expanded(m)
    BY <1>1 DEF Expanded
  <2>2. \A k : \A n : From(k, n)' = From(k, n)
    BY <1>1 DEF From
  <2>12. \A j : Counted(j)' <=> Counted(j)
    BY <1>1 DEF Counted, From, Offered
  <2>3. ASSUME NEW j \in DOMAIN found, j < P + 1 PROVE Expanded(found[j]) /\ Counted(j)
    <3>1. CASE j < P
      BY <3>1 DEF Tried, P
    <3>2. CASE j = P
      BY <3>2, <1>1, <1>3 DEF Tried, P, Lined
    <3> QED BY <2>3, <3>1, <3>2, <1>3
  <2>4. ASSUME NEW j \in DOMAIN found, j > P PROVE From(j, Len(edges)) = {}
    BY <2>4 DEF Tried, P
  <2>5. From(P + 1, Len(edges)) = {}
    BY <2>4, <1>3, <1>6
  <2>6. Cardinality(From(P + 1, Len(edges))) = 0
    BY <2>5, FS_EmptySet
  <2>7. Offered(at, 0)' = {}
    BY <1>1 DEF Offered
  <2>8. Cardinality(Offered(at, next - 1)') = 0
    BY <2>7, <1>1, FS_EmptySet
  <2>9. Len(edges') = Len(edges) /\ DOMAIN found' = DOMAIN found
    BY <1>1
  <2>10. \A j \in DOMAIN found : /\ j < P + 1 => Expanded(found[j])' /\ Counted(j)'
                                 /\ j > P + 1 => From(j, Len(edges))' = {}
    <3> SUFFICES ASSUME NEW j \in DOMAIN found
                 PROVE  /\ j < P + 1 => Expanded(found[j])' /\ Counted(j)'
                        /\ j > P + 1 => From(j, Len(edges))' = {}
      OBVIOUS
    <3>1. j < P + 1 => Expanded(found[j])'
      BY <2>3, <1>1 DEF Expanded
    <3>2. j < P + 1 => Counted(j)'
      BY <2>3, <2>12
    <3>3. j > P + 1 => From(j, Len(edges))' = {}
      <4>1. j > P + 1 => j > P
        BY <1>3
      <4> QED BY <4>1, <2>2, <2>4, <2>9
    <3> QED BY <3>1, <3>2, <3>3
  <2>11. Cardinality(From(Popped, Len(edges))') = Cardinality(Offered(at, next - 1)')
    BY <2>2, <2>6, <2>8, <2>9, <1>5
  <2> QED BY <2>9, <2>10, <2>11, <1>1, <1>5 DEF Tried
<1> QED BY <1>7, <1>8, <1>9, <1>10

\* What a firing adds to the graph.
LEMMA DiscoverIs ==
  ASSUME IInv, BInv, NEW i \in DOMAIN Declared, Discover(i)
  PROVE  /\ pc = "expand" /\ pc' = pc /\ job' = job /\ at' = at /\ next' = i + 1
         /\ at \in Known /\ Popped # 0 /\ Popped' = Popped
         /\ edges' = Append(edges, [from |-> at, tr |-> Declared[i], to |-> After(i)])
         /\ \A m \in Known : depth'[m] = depth[m]
         /\ \/ found' = found /\ queue' = queue /\ After(i) \in Known
            \/ /\ found' = Append(found, After(i)) /\ queue' = Append(queue, After(i))
               /\ After(i) \notin Known /\ depth'[After(i)] = depth[at] + 1
<1>1. GraphTypeOK
  BY DEF IInv
<1>2. /\ pc = "expand" /\ pc' = pc /\ job' = job /\ at' = at /\ next' = i + 1
      /\ edges' = Append(edges, [from |-> at, tr |-> Declared[i], to |-> After(i)])
  BY DEF Discover, Reaches
<1>3. at \in Known /\ Popped # 0
  BY <1>1, <1>2 DEF GraphTypeOK, BInv, Lined
<1>4. CASE After(i) \in Known
  <2>1. found' = found /\ queue' = queue
        /\ depth' = IF depth[at] + 1 < depth[After(i)] THEN [depth EXCEPT ![After(i)] = depth[at] + 1] ELSE depth
    BY <1>4 DEF Discover
  <2>2. depth[After(i)] <= depth[at] + 1
    <3>1. PICK j \in DOMAIN found : found[j] = After(i)
      BY <1>4 DEF Known, Range
    <3> QED BY <3>1, <1>3 DEF BInv, Levels
  <2>3. depth[After(i)] \in Nat /\ depth[at] \in Nat
    BY <1>1, <1>3, <1>4 DEF GraphTypeOK
  <2>4. depth' = depth
    BY <2>1, <2>2, <2>3
  <2>5. Popped' = Popped
    BY <2>1 DEF Popped
  <2> QED BY <1>2, <1>3, <1>4, <2>1, <2>4, <2>5
<1>5. CASE After(i) \notin Known
  <2>1. found' = Append(found, After(i)) /\ queue' = Append(queue, After(i))
        /\ depth' = [m \in Known \cup {After(i)} |-> IF m = After(i) THEN depth[at] + 1 ELSE depth[m]]
    BY <1>5 DEF Discover
  <2>2. Len(found') = Len(found) + 1 /\ Len(queue') = Len(queue) + 1
    BY <2>1, <1>1, GraphCounts
  <2>3. Popped' = Popped
    BY <2>2, <1>1, GraphCounts DEF Popped
  <2>4. \A m \in Known : depth'[m] = depth[m]
    BY <2>1, <1>5
  <2>5. depth'[After(i)] = depth[at] + 1
    BY <2>1
  <2> QED BY <1>2, <1>3, <1>5, <2>1, <2>3, <2>4, <2>5
<1> QED BY <1>4, <1>5

\* A firing keeps the order.
LEMMA DiscoverInOrder ==
  ASSUME NEW i \in DOMAIN Declared PROVE IInv /\ Once /\ BInv /\ Discover(i) => BInv'
<1> SUFFICES ASSUME IInv, Once, BInv, Discover(i) PROVE BInv'
  OBVIOUS
<1> DEFINE new == After(i)
           e == [from |-> at, tr |-> Declared[i], to |-> new]
           L == Len(found)  Q == Len(queue)  P == Popped  E == Len(edges)
<1>1. GraphTypeOK /\ GraphExact
  BY DEF IInv
<1>2. /\ pc = "expand" /\ pc' = pc /\ job' = job /\ at' = at /\ next' = i + 1
      /\ at \in Known /\ P # 0 /\ Popped' = P
      /\ edges' = Append(edges, e)
      /\ \A m \in Known : depth'[m] = depth[m]
  BY DiscoverIs
<1>3. \/ found' = found /\ queue' = queue /\ new \in Known
      \/ /\ found' = Append(found, new) /\ queue' = Append(queue, new)
         /\ new \notin Known /\ depth'[new] = depth[at] + 1
  BY DiscoverIs
<1>4. /\ L \in Nat /\ DOMAIN found = 1 .. L /\ found \in Seq(Marking)
      /\ Q \in Nat /\ DOMAIN queue = 1 .. Q /\ queue \in Seq(Known) /\ P = L - Q /\ P \in Int
      /\ E \in Nat /\ DOMAIN edges = 1 .. E
      /\ \A j \in DOMAIN found : found[j] \in Known /\ depth[found[j]] \in Nat
      /\ \A m \in Known : \E j \in DOMAIN found : found[j] = m
      /\ depth[at] \in Nat
  BY <1>1, <1>2, GraphCounts DEF Popped
<1>5. /\ DOMAIN edges' = 1 .. E + 1 /\ Len(edges') = E + 1
      /\ \A k \in 1 .. E : edges'[k] = edges[k]
      /\ edges'[E + 1] = e
  <2>1. edges \in Seq(Edge)
    BY <1>1 DEF GraphTypeOK
  <2>2. Len(edges') = E + 1
    <3> HIDE DEF e
    <3> QED BY <1>2, <2>1
  <2> HIDE DEF e
  <2> QED BY <1>2, <2>1, <2>2, EdgesGrow
<1>6. P >= 1 /\ P <= L /\ P \in DOMAIN found /\ at = found[P]
  <2>1. P >= 0 /\ at = found[P]
    BY <1>2 DEF BInv, Lined
  <2>2. P # 0
    BY <1>2
  <2>3. P \in Int /\ L \in Nat /\ Q \in Nat /\ P = L - Q /\ DOMAIN found = 1 .. L
    BY <1>4
  <2> HIDE DEF P, L, Q
  <2> QED BY <2>1, <2>2, <2>3
<1>7. /\ \A j \in DOMAIN found : j \in DOMAIN found' /\ found'[j] = found[j]
      /\ \A j \in DOMAIN found' : j \in DOMAIN found \/ (j = L + 1 /\ found'[j] = new /\ new \notin Known /\ depth'[new] = depth[at] + 1)
      /\ \A j \in DOMAIN queue : queue'[j] = queue[j]
      /\ \A j \in DOMAIN queue' : j \in DOMAIN queue \/ (j = Q + 1 /\ found'[L + 1] = queue'[Q + 1] /\ L + 1 \in DOMAIN found')
      /\ Known' \subseteq Known \cup {new} /\ new \in Known' /\ Known \subseteq Known'
  <2>1. CASE found' = found /\ queue' = queue /\ new \in Known
    BY <2>1, <1>4 DEF Known
  <2>2. CASE /\ found' = Append(found, new) /\ queue' = Append(queue, new)
             /\ new \notin Known /\ depth'[new] = depth[at] + 1
    <3> HIDE DEF new
    <3>1. DOMAIN found' = 1 .. L + 1 /\ found'[L + 1] = new /\ \A j \in 1 .. L : found'[j] = found[j]
      BY <2>2, <1>4
    <3>2. DOMAIN queue' = 1 .. Q + 1 /\ queue'[Q + 1] = new /\ \A j \in 1 .. Q : queue'[j] = queue[j]
      BY <2>2, <1>4
    <3>3. Known' = Known \cup {new}
      BY <2>2, <1>4, RangeAppend DEF Known
    <3> QED BY <2>2, <3>1, <3>2, <3>3, <1>4
  <2> QED BY <1>3, <2>1, <2>2
<1>8. /\ e.from = at /\ e.to = new
      /\ \A k \in DOMAIN edges : edges[k].from \in Known /\ edges[k].to \in Known
  BY <1>1 DEF GraphExact
<1> HIDE DEF new, e, L, Q, P, E
<1>9. Lined'
  <2>1. ASSUME NEW j \in DOMAIN queue' PROVE queue'[j] = found'[P + j]
    <3>1. CASE j \in DOMAIN queue
      <4>1. P + j \in DOMAIN found /\ queue[j] = found[P + j]
        BY <3>1, <1>4, <1>6 DEF BInv, Lined, P
      <4> QED BY <3>1, <4>1, <1>7
    <3>2. CASE j = Q + 1 /\ found'[L + 1] = queue'[Q + 1]
      BY <3>2, <1>4
    <3> QED BY <3>1, <3>2, <1>7
  <2>2. Popped' >= 0 /\ Popped' # 0
    BY <1>2, <1>4, <1>6
  <2>3. at' = found'[Popped']
    BY <1>2, <1>6, <1>7
  <2> QED BY <2>1, <2>2, <2>3, <1>2 DEF Lined
<1>10. Levels'
  <2>1. 1 \in DOMAIN found /\ found[1] = job.opening /\ depth[job.opening] = 0
    BY <1>4, <1>6 DEF BInv, Levels
  <2>2. \A j \in DOMAIN found : depth[found[j]] <= depth[at] + 1
    BY <1>2 DEF BInv, Levels, P
  <2>3. \A j \in DOMAIN found : depth'[found'[j]] = depth[found[j]]
    BY <1>2, <1>4, <1>7
  <2>4. ASSUME NEW a \in DOMAIN found', NEW b \in DOMAIN found', a <= b
        PROVE  depth'[found'[a]] <= depth'[found'[b]]
    <3>1. CASE a \in DOMAIN found /\ b \in DOMAIN found
      BY <3>1, <2>3, <2>4 DEF BInv, Levels
    <3>2. CASE a \in DOMAIN found /\ b \notin DOMAIN found
      BY <3>2, <2>2, <2>3, <1>7
    <3>3. CASE a \notin DOMAIN found
      <4>1. a = L + 1
        BY <3>3, <1>7
      <4>2. b = L + 1
        BY <4>1, <2>4, <1>4, <1>7
      <4>3. depth'[found'[a]] = depth[at] + 1
        BY <3>3, <1>7
      <4> QED BY <4>1, <4>2, <4>3, <1>4
    <3> QED BY <3>1, <3>2, <3>3
  <2>5. ASSUME NEW j \in DOMAIN found' PROVE depth'[found'[j]] <= depth'[at'] + 1
    <3>1. depth'[at'] = depth[at]
      BY <1>2
    <3>2. CASE j \in DOMAIN found
      BY <3>1, <3>2, <2>2, <2>3
    <3>3. CASE j \notin DOMAIN found
      BY <3>1, <3>3, <1>4, <1>7
    <3> QED BY <3>2, <3>3
  <2>6. ASSUME NEW k \in DOMAIN edges' PROVE depth'[edges'[k].to] <= depth'[edges'[k].from] + 1
    <3>1. CASE k \in DOMAIN edges
      <4>1. edges'[k] = edges[k] /\ depth[edges[k].to] <= depth[edges[k].from] + 1
        BY <3>1, <1>4, <1>5 DEF BInv, Levels
      <4>2. depth'[edges[k].to] = depth[edges[k].to] /\ depth'[edges[k].from] = depth[edges[k].from]
        BY <3>1, <1>2, <1>8
      <4> QED BY <4>1, <4>2
    <3>2. CASE k = E + 1
      <4>1. edges'[k].from = at /\ edges'[k].to = new
        BY <3>2, <1>5, <1>8
      <4>2. CASE new \in Known
        BY <4>1, <4>2, <2>2, <1>2, <1>4
      <4>3. CASE new \notin Known
        <5>1. depth'[new] = depth[at] + 1 /\ depth'[at] = depth[at]
          BY <4>3, <1>2, <1>3 DEF new
        <5> QED BY <5>1, <4>1, <1>4
      <4> QED BY <4>2, <4>3
    <3> QED BY <3>1, <3>2, <1>4, <1>5
  <2>7. found'[1] = job'.opening /\ depth'[job'.opening] = 0
    BY <2>1, <2>3, <1>2, <1>7
  <2> QED BY <2>4, <2>5, <2>6, <2>7, <1>2 DEF Levels
<1>11. Entered'
  <2> SUFFICES ASSUME NEW m \in Known', m # job.opening
               PROVE  \E k \in DOMAIN edges' : FirstInto(k, m)' /\ depth'[m] = depth'[edges'[k].from] + 1
    BY <1>2 DEF Entered
  <2>1. CASE m \in Known
    <3>1. PICK k \in DOMAIN edges : FirstInto(k, m) /\ depth[m] = depth[edges[k].from] + 1
      BY <2>1 DEF BInv, Entered
    <3>2. k \in DOMAIN edges' /\ edges'[k] = edges[k] /\ \A j \in 1 .. k - 1 : edges'[j] = edges[j]
      BY <1>4, <1>5
    <3>3. FirstInto(k, m)'
      BY <3>1, <3>2 DEF FirstInto
    <3>4. depth'[m] = depth[m] /\ depth'[edges[k].from] = depth[edges[k].from]
      BY <2>1, <1>2, <1>8
    <3> QED BY <3>1, <3>2, <3>3, <3>4
  <2>2. CASE m \notin Known
    <3>1. m = new /\ depth'[m] = depth[at] + 1 /\ depth'[at] = depth[at]
      BY <2>2, <1>2, <1>3, <1>7 DEF new
    <3>2. E + 1 \in DOMAIN edges' /\ edges'[E + 1].to = m /\ edges'[E + 1].from = at
      BY <3>1, <1>4, <1>5, <1>8
    <3>3. ASSUME NEW j \in 1 .. (E + 1) - 1 PROVE edges'[j].to # m
      <4>1. j \in DOMAIN edges /\ edges'[j] = edges[j]
        BY <1>4, <1>5
      <4> QED BY <4>1, <2>2, <1>8
    <3>4. PICK k : k = E + 1
      OBVIOUS
    <3>5. FirstInto(k, m)'
      BY <3>2, <3>3, <3>4 DEF FirstInto
    <3> QED BY <3>1, <3>2, <3>4, <3>5
  <2> QED BY <2>1, <2>2
<1>12. Tried'
  <2> DEFINE Out(m) == {j \in 1 .. E + 1 : edges'[j].from = m}
             Grown(m) == \A t \in Transition : Enabled(job.net, t, m) =>
                           \E k \in DOMAIN edges' : edges'[k] = [from |-> m, tr |-> t, to |-> Fire(job.net, t, m)]
             Open == {j \in 1 .. i : Enabled(job.net, Declared[j], at)}
  <2>1. ASSUME NEW m, Expanded(m) PROVE Grown(m)
    <3> SUFFICES ASSUME NEW t \in Transition, Enabled(job.net, t, m)
                 PROVE  \E k \in DOMAIN edges' : edges'[k] = [from |-> m, tr |-> t, to |-> Fire(job.net, t, m)]
      OBVIOUS
    <3>1. PICK k \in DOMAIN edges : edges[k] = [from |-> m, tr |-> t, to |-> Fire(job.net, t, m)]
      BY <2>1 DEF Expanded
    <3> QED BY <3>1, <1>4, <1>5
  <2>2. ASSUME NEW j \in DOMAIN found, j # P PROVE Out(found'[j]) = From(j, E)
    <3>1. found'[j] = found[j] /\ edges'[E + 1].from # found[j]
      BY <2>2, <1>5, <1>6, <1>7, <1>8 DEF Once
    <3> QED BY <3>1, <1>4, <1>5 DEF From
  <2>3. Out(found'[P]) = From(P, E) \cup {E + 1}
    <3>1. found'[P] = at /\ found[P] = at /\ edges'[E + 1].from = at
      BY <1>5, <1>6, <1>7, <1>8
    <3> QED BY <3>1, <1>4, <1>5 DEF From
  <2>4. ASSUME NEW j \in DOMAIN found', j > P PROVE Out(found'[j]) = {}
    <3>1. CASE j \in DOMAIN found
      <4>1. From(j, E) = {}
        BY <2>4, <3>1 DEF BInv, Tried, P, E
      <4> QED BY <4>1, <2>2, <2>4, <3>1, <1>4
    <3>2. CASE j \notin DOMAIN found
      <4>1. found'[j] = new /\ new \notin Known
        BY <3>2, <1>7
      <4>2. ASSUME NEW k \in 1 .. E + 1 PROVE edges'[k].from # new
        <5>1. CASE k \in 1 .. E
          BY <5>1, <4>1, <1>4, <1>5, <1>8
        <5>2. CASE k = E + 1
          BY <5>2, <4>1, <1>2, <1>5, <1>8
        <5> QED BY <5>1, <5>2, <1>4
      <4> QED BY <4>1, <4>2
    <3> QED BY <3>1, <3>2
  <2>5. ASSUME NEW j \in DOMAIN found', j < P PROVE Grown(found'[j]) /\ Counted(j)'
    <3>1. j \in DOMAIN found
      <4>1. j # L + 1
        BY <2>5, <1>4, <1>6
      <4> QED BY <4>1, <1>7
    <3>2. Expanded(found[j]) /\ found'[j] = found[j] /\ Counted(j)
      BY <2>5, <3>1, <1>7 DEF BInv, Tried, P
    <3>3. Out(found'[j]) = From(j, E) /\ Len(edges') = E + 1
      <4>1. j # P
        BY <2>5, <1>4, <3>1
      <4> QED BY <4>1, <3>1, <2>2, <1>5
    <3>4. From(j, Len(edges))' = From(j, Len(edges))
      BY <3>3 DEF From, E
    <3>5. Offered(found[j], Len(Declared))' = Offered(found[j], Len(Declared))
      BY <3>2, <1>2 DEF Offered
    <3>6. Counted(j)'
      BY <3>2, <3>4, <3>5 DEF Counted
    <3> QED BY <3>2, <3>6, <2>1
  <2>6. /\ i \in Nat /\ next \in Nat /\ next >= 1 /\ next <= i /\ Enabled(job.net, Declared[i], at)
        /\ \A j \in next .. i - 1 : ~ Enabled(job.net, Declared[j], at)
    BY <1>1, GraphCounts DEF Discover, Reaches
  <2>7. Open = Offered(at, next - 1) \cup {i}
    BY <2>6 DEF Offered
  <2>8. Cardinality(Open) = Cardinality(Offered(at, next - 1)) + 1
    <3>1. next - 1 \in Nat /\ i \notin Offered(at, next - 1)
      BY <2>6 DEF Offered
    <3>2. IsFiniteSet(Offered(at, next - 1))
      BY <3>1, OfferedIs
    <3> QED BY <3>1, <3>2, <2>7, FS_AddElement
  <2>9. Cardinality(Out(found'[P])) = Cardinality(From(P, E)) + 1
    <3>1. E + 1 \notin From(P, E)
      BY <1>4 DEF From
    <3>2. IsFiniteSet(From(P, E))
      BY <1>4, FromIs
    <3> QED BY <3>1, <3>2, <2>3, FS_AddElement
  <2>10. Cardinality(From(P, E)) = Cardinality(Offered(at, next - 1))
    BY <1>2 DEF BInv, Tried, P, E
  <2>11. Cardinality(Out(found'[P])) = Cardinality(Open)
    <3>1. Cardinality(From(P, E)) \in Nat /\ Cardinality(Offered(at, next - 1)) \in Nat
      <4>1. next - 1 \in Nat
        BY <2>6
      <4> QED BY <4>1, <1>4, FromIs, OfferedIs
    <3> QED BY <3>1, <2>8, <2>9, <2>10
  <2>12. Popped' = P /\ Len(edges') = E + 1 /\ next' - 1 = i
    BY <1>2, <1>5, <2>6
  <2>13. Offered(at, next - 1)' = Open
    BY <2>12, <1>2 DEF Offered
  <2>14. From(Popped, Len(edges))' = Out(found'[P])
    BY <2>12 DEF From
  <2>15. Cardinality(From(Popped, Len(edges))') = Cardinality(Offered(at, next - 1)')
    BY <2>11, <2>13, <2>14
  <2>16. ASSUME NEW j \in DOMAIN found', j > Popped' PROVE From(j, Len(edges))' = {}
    <3>1. Out(found'[j]) = {}
      BY <2>4, <2>12, <2>16
    <3> QED BY <3>1, <2>12 DEF From
  <2>17. ASSUME NEW j \in DOMAIN found', j < Popped' PROVE Expanded(found[j])' /\ Counted(j)'
    <3>1. Grown(found'[j]) /\ Counted(j)'
      BY <2>5, <2>12, <2>17
    <3> QED BY <3>1, <1>2 DEF Expanded
  <2> HIDE DEF Out, Grown, Open
  <2> QED BY <2>15, <2>16, <2>17, <1>2 DEF Tried
<1> QED BY <1>9, <1>10, <1>11, <1>12 DEF BInv

\* An expansion that ends has added every firing.
LEMMA EndExpandInOrder == IInv /\ BInv /\ EndExpand => BInv'
<1> SUFFICES ASSUME IInv, BInv, EndExpand PROVE BInv'
  OBVIOUS
<1>1. /\ pc = "expand" /\ pc' = "pop" /\ UNCHANGED <<job, found, edges, depth, queue, at, next>>
      /\ \A j \in next .. Len(Declared) : ~ Enabled(job.net, Declared[j], at)
  BY DEF EndExpand
<1>2. /\ Popped' = Popped /\ Known' = Known
      /\ \A m : Expanded(m)' <=> Expanded(m)
      /\ \A k, n : From(k, n)' = From(k, n)
      /\ \A k, m : FirstInto(k, m)' <=> FirstInto(k, m)
      /\ \A j : Counted(j)' <=> Counted(j)
  BY <1>1 DEF Popped, Known, Expanded, From, FirstInto, Counted, Offered
<1>3. Expanded(at)
  <2> SUFFICES ASSUME NEW t \in Transition, Enabled(job.net, t, at)
               PROVE  HasEdge(at, t)
    BY DEF Expanded, HasEdge
  <2>1. PICK j \in DOMAIN Declared : Declared[j] = t
    BY DeclaredAssumption
  <2>2. j \in 1 .. next - 1
    BY <1>1, <2>1, GraphCounts DEF IInv
  <2> QED BY <1>1, <2>1, <2>2 DEF IInv, Passed
<1>4. Lined'
  BY <1>1, <1>2 DEF BInv, Lined
<1>5. Levels'
  BY <1>1, <1>2 DEF BInv, Levels
<1>6. Entered'
  BY <1>1, <1>2 DEF BInv, Entered
<1>8. Counted(Popped)
  <2>1. Popped # 0 /\ at = found[Popped] /\ Cardinality(From(Popped, Len(edges))) = Cardinality(Offered(at, next - 1))
    BY <1>1 DEF BInv, Lined, Tried
  <2>2. next \in 1 .. Len(Declared) + 1 /\ Len(Declared) \in Nat
    BY GraphCounts DEF IInv
  <2>3. Offered(at, next - 1) = Offered(at, Len(Declared))
    BY <2>2, <1>1 DEF Offered
  <2> QED BY <2>1, <2>3 DEF Counted
<1>9. Counted(Popped)'
  BY <1>1, <1>8 DEF Counted, From, Offered, Popped
<1>7. Tried'
  BY <1>1, <1>2, <1>3, <1>9 DEF BInv, Tried
<1> QED BY <1>4, <1>5, <1>6, <1>7 DEF BInv

\* A limit leaves the marking being expanded with a firing to go.
LEMMA StopInOrder == IInv /\ BInv /\ (Finish \/ \E i \in DOMAIN Declared : Exceed(i)) => BInv'
<1> SUFFICES ASSUME IInv, BInv, Finish \/ \E i \in DOMAIN Declared : Exceed(i) PROVE BInv'
  OBVIOUS
<1>1. pc' = "built" /\ UNCHANGED <<job, found, edges, depth, queue, at, next>>
  BY DEF Finish, Exceed
<1>2. /\ Popped' = Popped /\ Known' = Known
      /\ \A m : Expanded(m)' <=> Expanded(m)
      /\ \A k, n : From(k, n)' = From(k, n)
      /\ \A k, m : FirstInto(k, m)' <=> FirstInto(k, m)
      /\ \A m, n : Offered(m, n)' = Offered(m, n)
      /\ \A j : Counted(j)' <=> Counted(j)
      /\ Counted(Popped)' <=> Counted(Popped)
  BY <1>1 DEF Popped, Known, Expanded, From, FirstInto, Offered, Counted
<1>3. Popped # 0 => (Expanded(at) /\ Counted(Popped)) \/ Cardinality(From(Popped, Len(edges))) < Cardinality(Offered(at, Len(Declared)))
  <2>1. CASE Finish
    BY <2>1 DEF Finish, BInv, Tried
  <2>2. CASE \E i \in DOMAIN Declared : Exceed(i)
    <3>1. PICK i \in DOMAIN Declared : Exceed(i)
      BY <2>2
    <3>2. pc = "expand" /\ i >= next /\ Enabled(job.net, Declared[i], at)
      BY <3>1 DEF Exceed, Reaches
    <3>3. next - 1 \in Nat /\ next - 1 < i /\ i \in 1 .. Len(Declared) /\ Len(Declared) \in Nat /\ Len(edges) \in Nat
          /\ \A j \in 1 .. next - 1 : j \in 1 .. Len(Declared)
      BY <3>2, GraphCounts DEF IInv
    <3>4. i \notin Offered(at, next - 1) /\ Offered(at, next - 1) \cup {i} \subseteq Offered(at, Len(Declared))
      BY <3>2, <3>3 DEF Offered
    <3>5. IsFiniteSet(Offered(at, next - 1)) /\ IsFiniteSet(Offered(at, Len(Declared)))
          /\ Cardinality(Offered(at, next - 1)) \in Nat /\ Cardinality(Offered(at, Len(Declared))) \in Nat
      BY <3>3, OfferedIs
    <3>6. Cardinality(Offered(at, next - 1) \cup {i}) = Cardinality(Offered(at, next - 1)) + 1
      BY <3>4, <3>5, FS_AddElement
    <3>7. Cardinality(Offered(at, next - 1) \cup {i}) <= Cardinality(Offered(at, Len(Declared)))
      BY <3>4, <3>5, FS_Subset
    <3>8. Cardinality(From(Popped, Len(edges))) = Cardinality(Offered(at, next - 1))
      BY <3>2 DEF BInv, Tried
    <3>9. Cardinality(From(Popped, Len(edges))) \in Nat
      BY <3>3, FromIs
    <3> QED BY <3>5, <3>6, <3>7, <3>8, <3>9
  <2> QED BY <2>1, <2>2
<1>8. ASSUME ~ truncated' PROVE Popped = Len(found) /\ Counted(Popped)
  <2>1. Finish
    BY <1>8 DEF Exceed
  <2>2. pc = "pop" /\ queue = <<>>
    <3>1. pc = "pop" /\ (queue = <<>> \/ Len(found) >= job.states) /\ truncated' = (Len(found) >= job.states)
      BY <2>1 DEF Finish
    <3> QED BY <3>1, <1>8
  <2>3. Len(queue) = 0 /\ Popped = Len(found)
    <3>1. Len(queue) = 0
      BY <2>2
    <3>2. Len(found) \in Nat
      BY GraphCounts DEF IInv
    <3> QED BY <3>1, <3>2 DEF Popped
  <2>4. Popped # 0
    <3>1. Popped = 0 => Len(found) = 1
      BY DEF BInv, Lined
    <3> QED BY <3>1, <2>3
  <2> QED BY <2>2, <2>3, <2>4 DEF BInv, Tried
<1>4. Lined'
  BY <1>1, <1>2 DEF BInv, Lined
<1>5. Levels'
  BY <1>1, <1>2 DEF BInv, Levels
<1>6. Entered'
  BY <1>1, <1>2 DEF BInv, Entered
<1>7. Tried'
  BY <1>1, <1>2, <1>3, <1>8 DEF BInv, Tried
<1> QED BY <1>4, <1>5, <1>6, <1>7 DEF BInv

\* What leaves the graph alone keeps the order.
LEMMA RestInOrder == BInv /\ UNCHANGED graph => BInv'
<1> SUFFICES ASSUME BInv, UNCHANGED graph PROVE BInv'
  OBVIOUS
<1>1. UNCHANGED <<job, found, edges, depth, queue, at, next, pc, truncated>>
  BY DEF graph
<1>2. /\ Popped' = Popped /\ Known' = Known
      /\ \A m : Expanded(m)' <=> Expanded(m)
      /\ \A k, n : From(k, n)' = From(k, n)
      /\ \A k, m : FirstInto(k, m)' <=> FirstInto(k, m)
      /\ \A m, n : Offered(m, n)' = Offered(m, n)
      /\ \A j : Counted(j)' <=> Counted(j)
      /\ Counted(Popped)' <=> Counted(Popped)
  BY <1>1 DEF Popped, Known, Expanded, From, FirstInto, Offered, Counted
<1>4. Lined'
  BY <1>1, <1>2 DEF BInv, Lined
<1>5. Levels'
  BY <1>1, <1>2 DEF BInv, Levels
<1>6. Entered'
  BY <1>1, <1>2 DEF BInv, Entered
<1>7. Tried'
  BY <1>1, <1>2 DEF BInv, Tried
<1> QED BY <1>4, <1>5, <1>6, <1>7 DEF BInv

\* Every step of an analysis keeps the order.
LEMMA NextBInv == AInv /\ BInv /\ [Next]_vars => BInv'
<1> SUFFICES ASSUME AInv, BInv, [Next]_vars PROVE BInv'
  OBVIOUS
<1>1. CASE Building
  <2>1. IInv /\ Once /\ Build
    BY <1>1 DEF Building, AInv
  <2> QED BY <2>1, PopInOrder, DiscoverInOrder, EndExpandInOrder, StopInOrder DEF Build
<1>2. CASE UNCHANGED graph
  BY <1>2, RestInOrder
<1>3. UNCHANGED graph \/ Building
  <2>1. CASE Analysing
    BY <2>1, Zenon DEF Analysing, Group, Grouping
  <2>2. CASE Judge \/ Aim \/ GiveUp \/ Report
    BY <2>2, Zenon DEF Judge, Aim, GiveUp, Report
  <2>3. CASE \E k \in DOMAIN heap : Hit(k) \/ Widen(k)
    BY <2>3, Zenon DEF Hit, Widen
  <2>4. CASE UNCHANGED vars
    BY <2>4 DEF vars, analysis
  <2> QED BY <2>1, <2>2, <2>3, <2>4 DEF Next
<1> QED BY <1>1, <1>2, <1>3

\* The graph is built breadth first, and interrupted where a count shows it, for
\* every net and all limits.
THEOREM BreadthFirst == FairSpec => []BInv
<1>1. Init => BInv
  BY InitBInv DEF Init, Start
<1> QED BY <1>1, NextBInv, AnalyzerInvariance, PTL DEF FairSpec

-----------------------------------------------------------------------------
(* What the closed components of the graph say of the state space. *)

Future(m) == Truth.future[m]

\* What can follow a marking, and what can fire after it.
LEMMA FutureIs ==
  ASSUME GraphTypeOK, NEW m \in Reachable(Truth)
  PROVE  /\ m \in Future(m) /\ Closure(job.net, Future(m)) /\ Future(m) \subseteq Reachable(Truth)
         /\ m \in Marking /\ Future(m) \in SUBSET Marking
         /\ \A C \in SUBSET Marking : m \in C /\ Closure(job.net, C) => Future(m) \subseteq C
         /\ \A w \in Future(m) : Future(w) \subseteq Future(m)
         /\ \A t \in Transition : CanFireAfter(Truth, t, m) <=> \E w \in Future(m) : Enabled(job.net, t, w)
         /\ IsDead(Truth, m) <=> \A t \in Transition : ~ Enabled(job.net, t, m)
<1>1. job.net \in Nets /\ job.opening \in Marking /\ Truth = Space(job.net, job.opening)
      /\ Reachable(Truth) \in SUBSET Marking
  BY TruthIs
<1>2. \A w \in Reachable(Truth) :
        /\ w \in Future(w) /\ Closure(job.net, Future(w)) /\ Future(w) \subseteq Reachable(Truth)
        /\ \A C \in SUBSET Marking : w \in C /\ Closure(job.net, C) => Future(w) \subseteq C
  BY <1>1, SpaceIs DEF Future
<1>3. \A x : x \in Truth.moves <=>
        \E u \in Reachable(Truth), t \in Transition :
          Enabled(job.net, t, u) /\ x = [from |-> u, tr |-> t, to |-> Fire(job.net, t, u)]
  BY TruthIs
<1>4. Future(m) \in SUBSET Marking /\ m \in Marking
  BY <1>1, <1>2
<1>5. ASSUME NEW w \in Future(m) PROVE Future(w) \subseteq Future(m)
  <2>1. w \in Reachable(Truth)
    BY <1>2
  <2> QED BY <2>1, <1>2, <1>4
<1>6. ASSUME NEW t \in Transition
      PROVE  CanFireAfter(Truth, t, m) <=> \E w \in Future(m) : Enabled(job.net, t, w)
  <2>1. ASSUME NEW x \in Truth.moves, x.tr = t, x.from \in Future(m)
        PROVE  \E w \in Future(m) : Enabled(job.net, t, w)
    <3>1. PICK u \in Reachable(Truth), y \in Transition :
            Enabled(job.net, y, u) /\ x = [from |-> u, tr |-> y, to |-> Fire(job.net, y, u)]
      BY <1>3
    <3>2. x.tr = y /\ x.from = u
      BY <3>1
    <3> QED BY <2>1, <3>1, <3>2
  <2>2. ASSUME NEW w \in Future(m), Enabled(job.net, t, w)
        PROVE  \E x \in Truth.moves : x.tr = t /\ x.from \in Future(m)
    <3>1. w \in Reachable(Truth)
      BY <1>2
    <3>2. [from |-> w, tr |-> t, to |-> Fire(job.net, t, w)] \in Truth.moves
      BY <1>3, <2>2, <3>1
    <3> QED BY <3>2
  <2> QED BY <2>1, <2>2 DEF CanFireAfter, Future
<1>7. IsDead(Truth, m) <=> \A t \in Transition : ~ Enabled(job.net, t, m)
  <2>1. ASSUME NEW t \in Transition, Enabled(job.net, t, m) PROVE t \in Offers(Truth, m)
    <3>1. [from |-> m, tr |-> t, to |-> Fire(job.net, t, m)] \in Truth.moves
      BY <1>3, <2>1
    <3> QED BY <3>1 DEF Offers
  <2>2. ASSUME NEW t \in Offers(Truth, m) PROVE t \in Transition /\ Enabled(job.net, t, m)
    <3>1. PICK x \in Truth.moves : x.from = m /\ x.tr = t
      BY DEF Offers
    <3>2. PICK u \in Reachable(Truth), y \in Transition :
            Enabled(job.net, y, u) /\ x = [from |-> u, tr |-> y, to |-> Fire(job.net, y, u)]
      BY <1>3
    <3>3. x.tr = y /\ x.from = u
      BY <3>2
    <3> QED BY <3>1, <3>2, <3>3
  <2> QED BY <2>1, <2>2 DEF IsDead
<1> QED BY <1>2, <1>4, <1>5, <1>6, <1>7

\* The components, as the verdicts read them.
LEMMA ComponentsAre ==
  ASSUME AInv, Judged
  PROVE  /\ GraphTypeOK /\ GraphExact /\ Once /\ pc = "built"
         /\ Len(found) \in Nat /\ DOMAIN found = 1 .. Len(found)
         /\ successors = SuccessorLists /\ Vertex = DOMAIN found
         /\ component \in [DOMAIN found -> Nat]
         /\ \A u, v \in DOMAIN found : component[u] = component[v] => found[v] \in Onto({found[u]}, Along)
         /\ \A u \in DOMAIN found : \A j \in DOMAIN successors[u] :
              successors[u][j] \in DOMAIN found /\ component[successors[u][j]] <= component[u]
         /\ \A u \in DOMAIN found : successors[u] \in Seq(DOMAIN found)
<1>1. GraphTypeOK /\ GraphExact /\ Once /\ pc = "built" /\ successors = SuccessorLists /\ TarjanInv /\ Grouped
  BY DEF AInv, IInv, Staged, Judged
<1>2. Vertex = DOMAIN found /\ DOMAIN successors = DOMAIN found
  BY <1>1 DEF Vertex, SuccessorLists
<1>3. Now.sc = successors /\ Now.ix = index /\ Now.co = component /\ Now.wk = work
  BY Fields
<1>4. Sound(Now) /\ Now.wk = <<>> /\ \A v \in DOMAIN Now.sc : Saw(Now, v)
  BY <1>1, <1>2, <1>3 DEF TarjanInv, Grouped, Saw
<1>5. /\ \A u, v \in DOMAIN Now.sc : Now.co[u] = Now.co[v] <=> Leads(Now.sc, u, v) /\ Leads(Now.sc, v, u)
      /\ \A u \in DOMAIN Now.sc : \A j \in DOMAIN Now.sc[u] : Now.co[Now.sc[u][j]] <= Now.co[u]
  BY <1>4, SoundGrouped
<1>6. Now.co \in [DOMAIN Now.sc -> Nat]
  BY <1>4 DEF Sound, TarjanType
<1>7. ASSUME NEW u \in DOMAIN found, NEW v \in DOMAIN found, component[u] = component[v]
      PROVE  found[v] \in Onto({found[u]}, Along)
  <2>1. Leads(successors, u, v)
    BY <1>2, <1>3, <1>5, <1>7
  <2> QED BY <2>1, <1>1, <1>2, LeadsIs
<1>8. \A u \in DOMAIN found : successors[u] \in Seq(DOMAIN found)
  BY <1>1, SuccessorsAre
<1>9. \A u \in DOMAIN found : \A j \in DOMAIN successors[u] : successors[u][j] \in DOMAIN found
  BY <1>8
<1>10. Len(found) \in Nat /\ DOMAIN found = 1 .. Len(found)
  BY <1>1, GraphCounts
<1> QED BY <1>1, <1>2, <1>3, <1>5, <1>6, <1>7, <1>8, <1>9, <1>10

\* The graph does not leave what can follow.
LEMMA OntoFollows ==
  ASSUME GraphTypeOK, GraphExact, FoundReal, NEW m \in Reachable(Truth), NEW u \in Known, u \in Future(m)
  PROVE  Onto({u}, Along) \subseteq Future(m)
<1> DEFINE C == Known \cap Future(m)
<1>1. IsFiniteSet(Known) /\ Along \in [Known -> SUBSET Known]
  BY AlongType
<1>2. Closure(job.net, Future(m))
  BY FutureIs
<1>3. ASSUME NEW x \in C, NEW w \in Along[x] PROVE w \in C
  <2>1. PICK k \in DOMAIN edges : edges[k].from = x /\ edges[k].to = w
    BY <1>3 DEF Along, Range
  <2>2. edges[k].tr \in Transition /\ Enabled(job.net, edges[k].tr, x) /\ w = Fire(job.net, edges[k].tr, x)
        /\ w \in Known
    <3>1. edges[k] \in Edge
      BY DEF GraphTypeOK
    <3>2. edges[k].tr \in Transition
      BY <3>1 DEF Edge
    <3> QED BY <2>1, <3>2 DEF GraphExact
  <2> QED BY <2>2, <1>2 DEF Closure
<1>4. Shut(C, Along) /\ {u} \subseteq C /\ C \in SUBSET Known /\ {u} \in SUBSET Known
  BY <1>3 DEF Shut
<1>5. Onto({u}, Along) \subseteq C
  <2> HIDE DEF C
  <2> QED BY <1>1, <1>4, OntoLeast
<1> QED BY <1>5

\* From a closed component every firing was seen, and stays in it.
LEMMA ClosedIs ==
  ASSUME AInv, FoundReal, BInv, Judged, NEW c, Closed(c), NEW k \in Members(c),
         NEW t \in Transition, Enabled(job.net, t, found[k])
  PROVE  \E w \in Members(c) : found[w] = Fire(job.net, t, found[k])
<1>1. /\ GraphTypeOK /\ GraphExact /\ Once /\ pc = "built" /\ successors = SuccessorLists
      /\ k \in DOMAIN found /\ component[k] = c
      /\ Len(found) \in Nat /\ DOMAIN found = 1 .. Len(found)
  BY ComponentsAre DEF Members
<1>2. /\ Popped \in Int /\ Len(Declared) \in Nat /\ DOMAIN Declared = 1 .. Len(Declared)
      /\ Len(edges) \in Nat /\ DOMAIN edges = 1 .. Len(edges)
  BY <1>1, GraphCounts
<1>3. Len(successors[k]) = Cardinality(From(k, Len(edges)))
      /\ {found[w] : w \in Range(successors[k])} = {edges[j].to : j \in From(k, Len(edges))}
  BY <1>1, SuccessorsAre
<1>4. Cardinality(From(k, Len(edges))) >= Cardinality(Offered(found[k], Len(Declared)))
  <2>1. Offered(found[k], Len(Declared)) = {i \in DOMAIN Declared : Enabled(job.net, Declared[i], found[k])}
    BY <1>2 DEF Offered
  <2> QED BY <1>3, <2>1 DEF Closed
<1>5. Cardinality(From(k, Len(edges))) \in Nat /\ Cardinality(Offered(found[k], Len(Declared))) \in Nat
      /\ IsFiniteSet(Offered(found[k], Len(Declared)))
  BY <1>2, FromIs, OfferedIs
<1>6. Expanded(found[k])
  <2>1. CASE k < Popped
    BY <2>1, <1>1 DEF BInv, Tried
  <2>2. CASE k = Popped
    <3>1. Popped # 0 /\ at = found[k]
      BY <2>2, <1>1 DEF BInv, Lined
    <3> QED BY <3>1, <2>2, <1>1, <1>4, <1>5 DEF BInv, Tried
  <2>3. CASE k > Popped
    <3>1. From(k, Len(edges)) = {}
      BY <2>3, <1>1 DEF BInv, Tried
    <3>2. Cardinality(Offered(found[k], Len(Declared))) = 0
      BY <3>1, <1>4, <1>5, FS_EmptySet
    <3>3. Offered(found[k], Len(Declared)) = {}
      BY <3>2, <1>5, FS_EmptySet
    <3>4. PICK i \in DOMAIN Declared : Declared[i] = t
      BY DeclaredAssumption
    <3>5. i \in Offered(found[k], Len(Declared))
      BY <3>4, <1>2 DEF Offered
    <3> QED BY <3>3, <3>5
  <2> QED BY <2>1, <2>2, <2>3, <1>1, <1>2
<1>7. PICK j \in DOMAIN edges : edges[j] = [from |-> found[k], tr |-> t, to |-> Fire(job.net, t, found[k])]
  BY <1>6 DEF Expanded
<1>8. j \in From(k, Len(edges)) /\ edges[j].to = Fire(job.net, t, found[k])
  BY <1>2, <1>7 DEF From
<1>9. PICK w \in Range(successors[k]) : found[w] = Fire(job.net, t, found[k])
  BY <1>3, <1>8
<1>10. PICK i \in DOMAIN successors[k] : successors[k][i] = w
  BY DEF Range
<1>11. w \in DOMAIN found /\ component[w] = c
  BY <1>1, <1>10, ComponentsAre DEF Closed
<1> QED BY <1>9, <1>11 DEF Members

\* What can follow a marking of a closed component is that component.
LEMMA ClosedFuture ==
  ASSUME AInv, FoundReal, BInv, Judged, NEW c, Closed(c), NEW k \in Members(c)
  PROVE  /\ k \in DOMAIN found /\ found[k] \in Known /\ found[k] \in Reachable(Truth)
         /\ Future(found[k]) = {found[w] : w \in Members(c)}
<1> DEFINE C == {found[w] : w \in Members(c)}
<1>1. /\ GraphTypeOK /\ GraphExact /\ k \in DOMAIN found /\ component[k] = c
      /\ \A w \in Members(c) : w \in DOMAIN found /\ component[w] = c
      /\ Known \subseteq Marking
  BY ComponentsAre, AlongType DEF Members
<1>2. \A w \in DOMAIN found : found[w] \in Known
  BY DEF Known, Range
<1>3. found[k] \in Known /\ found[k] \in Reachable(Truth)
  BY <1>1, <1>2 DEF FoundReal
<1>4. C \in SUBSET Marking /\ found[k] \in C
  BY <1>1, <1>2
<1>5. Closure(job.net, C)
  <2> SUFFICES ASSUME NEW w \in Members(c), NEW t \in Transition, Enabled(job.net, t, found[w])
               PROVE  Fire(job.net, t, found[w]) \in C
    BY DEF Closure
  <2>1. PICK v \in Members(c) : found[v] = Fire(job.net, t, found[w])
    BY ClosedIs
  <2> QED BY <2>1
<1>6. Future(found[k]) \subseteq C
  <2> HIDE DEF C
  <2> QED BY <1>1, <1>3, <1>4, <1>5, FutureIs
<1>7. ASSUME NEW w \in Members(c) PROVE found[w] \in Future(found[k])
  <2>1. found[w] \in Onto({found[k]}, Along)
    BY <1>1, ComponentsAre
  <2>2. found[k] \in Future(found[k])
    BY <1>1, <1>3, FutureIs
  <2>3. Onto({found[k]}, Along) \subseteq Future(found[k])
    BY <2>2, <1>1, <1>3, OntoFollows
  <2> QED BY <2>1, <2>3
<1> QED BY <1>1, <1>3, <1>6, <1>7

\* The first member of a component.
LEMMA EntryIs ==
  ASSUME AInv, Judged, NEW c \in Range(component)
  PROVE  /\ Entry(c) \in Members(c) /\ \A k \in Members(c) : Entry(c) <= k
         /\ Entry(c) \in Nat
<1>1. /\ component \in [DOMAIN found -> Nat] /\ DOMAIN found = 1 .. Len(found) /\ Len(found) \in Nat
  BY ComponentsAre
<1>2. Members(c) # {} /\ Members(c) \in SUBSET Nat
  BY <1>1 DEF Members, Range
<1>3. \E n \in Members(c) : \A m \in Members(c) : n <= m
  BY <1>2, LeastOf
<1> QED BY <1>2, <1>3 DEF Entry, Min

\* What a region never fires never fires after it is entered.
LEMMA RegionIs ==
  ASSUME AInv, FoundReal, BInv, Judged, NEW c \in Regions
  PROVE  /\ Closed(c) /\ Entry(c) \in Members(c)
         /\ \A k \in Members(c) : found[k] \in Reachable(Truth) /\ Future(found[k]) = {found[w] : w \in Members(c)}
         /\ \A k \in Members(c) : \A t \in Never(c) : t \in Transition /\ ~ CanFireAfter(Truth, t, found[k])
<1>1. Closed(c) /\ c \in Range(component)
  BY DEF Regions
<1>2. Entry(c) \in Members(c)
  BY <1>1, EntryIs
<1>3. \A k \in Members(c) : found[k] \in Reachable(Truth) /\ Future(found[k]) = {found[w] : w \in Members(c)}
  BY <1>1, ClosedFuture
<1>4. ASSUME NEW k \in Members(c), NEW t \in Never(c)
      PROVE  t \in Transition /\ ~ CanFireAfter(Truth, t, found[k])
  <2>1. t \in Transition /\ \A w \in Members(c) : ~ Enabled(job.net, t, found[w])
    BY DEF Never, EnabledAt
  <2>2. \A m \in Future(found[k]) : ~ Enabled(job.net, t, m)
    BY <1>3, <2>1
  <2>3. GraphTypeOK
    BY ComponentsAre
  <2> QED BY <2>1, <2>2, <2>3, <1>3, FutureIs
<1> QED BY <1>1, <1>2, <1>3, <1>4

\* A search that was not cut short has the whole state space.
LEMMA WholeIs ==
  ASSUME AInv, FoundReal, BInv, Judged, ~ truncated
  PROVE  /\ Known = Reachable(Truth) /\ \A m \in Known : Expanded(m)
         /\ \A k \in DOMAIN found : Counted(k)
<1>1. GraphTypeOK /\ GraphExact /\ pc = "built"
  BY ComponentsAre
<1>2. \A m \in Known : Expanded(m)
  BY <1>1 DEF GraphExact
<1>3. Known \in SUBSET Marking /\ job.opening \in Known
  BY <1>1, AlongType DEF GraphExact
<1>4. Closure(job.net, Known)
  <2> SUFFICES ASSUME NEW m \in Known, NEW t \in Transition, Enabled(job.net, t, m)
               PROVE  Fire(job.net, t, m) \in Known
    BY DEF Closure
  <2>1. PICK k \in DOMAIN edges : edges[k] = [from |-> m, tr |-> t, to |-> Fire(job.net, t, m)]
    BY <1>2 DEF Expanded
  <2> QED BY <2>1, <1>1 DEF GraphExact
<1>5. Reachable(Truth) \subseteq Known
  BY <1>1, <1>3, <1>4, TruthIs
<1>6. Popped = Len(found) /\ Counted(Popped)
  BY <1>1 DEF BInv, Tried
<1>7. ASSUME NEW k \in DOMAIN found PROVE Counted(k)
  <2>1. k < Popped \/ k = Popped
    BY <1>1, <1>6, GraphCounts
  <2>2. CASE k < Popped
    BY <2>2 DEF BInv, Tried
  <2> QED BY <2>1, <2>2, <1>6
<1> QED BY <1>2, <1>5, <1>7 DEF FoundReal

\* From every marking of the whole state space a region can be entered.
LEMMA SettlesIn ==
  ASSUME AInv, FoundReal, BInv, Judged, ~ truncated, NEW m \in Reachable(Truth)
  PROVE  \E c \in Regions : \A k \in Members(c) : found[k] \in Future(m)
<1> DEFINE N == {component[k] : k \in {x \in DOMAIN found : found[x] \in Future(m)}}
<1>1. /\ GraphTypeOK /\ GraphExact /\ Known = Reachable(Truth) /\ component \in [DOMAIN found -> Nat]
      /\ DOMAIN found = 1 .. Len(found) /\ Len(found) \in Nat /\ Known \subseteq Marking
  BY ComponentsAre, WholeIs, AlongType
<1>2. /\ m \in Future(m) /\ Closure(job.net, Future(m)) /\ m \in Known
  BY <1>1, FutureIs
<1>3. N \in SUBSET Nat /\ N # {}
  <2>1. PICK k \in DOMAIN found : found[k] = m
    BY <1>2 DEF Known, Range
  <2> QED BY <1>1, <1>2, <2>1
<1>4. PICK c \in N : \A d \in N : c <= d
  <2> HIDE DEF N
  <2> QED BY <1>3, LeastOf
<1>5. PICK h \in DOMAIN found : found[h] \in Future(m) /\ component[h] = c
  OBVIOUS
<1>6. ASSUME NEW k \in Members(c) PROVE found[k] \in Future(m)
  <2>1. k \in DOMAIN found /\ component[k] = component[h] /\ found[h] \in Known
    BY <1>5 DEF Members, Known, Range
  <2>2. found[k] \in Onto({found[h]}, Along)
    BY <2>1, ComponentsAre
  <2>3. Onto({found[h]}, Along) \subseteq Future(m)
    BY <2>1, <1>1, <1>5, OntoFollows
  <2> QED BY <2>2, <2>3
<1>7. ASSUME NEW k \in Members(c), NEW j \in DOMAIN successors[k]
      PROVE  component[successors[k][j]] = c
  <2>1. k \in DOMAIN found /\ component[k] = c
    BY DEF Members
  <2>2. successors[k][j] \in DOMAIN found /\ component[successors[k][j]] <= c
    BY <2>1, ComponentsAre
  <2>3. found[successors[k][j]] \in Future(m)
    <3>1. successors[k][j] \in Range(successors[k]) /\ successors = SuccessorLists
      BY ComponentsAre DEF Range
    <3>2. {found[w] : w \in Range(successors[k])} = {edges[i].to : i \in From(k, Len(edges))}
      BY <2>1, <3>1, <1>1, SuccessorsAre
    <3>3. PICK i \in From(k, Len(edges)) : found[successors[k][j]] = edges[i].to
      BY <3>1, <3>2
    <3>4. i \in DOMAIN edges /\ edges[i].from = found[k] /\ edges[i] \in Edge
      BY <1>1, GraphCounts DEF From, GraphTypeOK
    <3>5. edges[i].tr \in Transition /\ Enabled(job.net, edges[i].tr, found[k])
          /\ edges[i].to = Fire(job.net, edges[i].tr, found[k])
      BY <3>4, <1>1 DEF GraphExact, Edge
    <3> QED BY <3>3, <3>5, <1>2, <1>6 DEF Closure
  <2>4. component[successors[k][j]] \in N
    BY <2>2, <2>3
  <2>5. component[successors[k][j]] \in Nat /\ c \in Nat /\ c <= component[successors[k][j]]
    <3>1. component[successors[k][j]] \in Nat /\ c \in Nat
      BY <2>1, <2>2, <1>1
    <3> QED BY <3>1, <2>4, <1>4
  <2> QED BY <2>2, <2>5
<1>8. ASSUME NEW k \in Members(c)
      PROVE  Len(successors[k]) >= Cardinality({i \in DOMAIN Declared : Enabled(job.net, Declared[i], found[k])})
  <2>1. k \in DOMAIN found /\ Counted(k) /\ successors = SuccessorLists /\ Len(Declared) \in Nat
        /\ DOMAIN Declared = 1 .. Len(Declared) /\ Len(edges) \in Nat
    BY <1>1, WholeIs, ComponentsAre, GraphCounts DEF Members
  <2>2. Len(successors[k]) = Cardinality(From(k, Len(edges)))
    BY <2>1, <1>1, SuccessorsAre
  <2>3. Offered(found[k], Len(Declared)) = {i \in DOMAIN Declared : Enabled(job.net, Declared[i], found[k])}
    BY <2>1 DEF Offered
  <2>4. Cardinality(From(k, Len(edges))) \in Nat
    BY <2>1, FromIs
  <2> QED BY <2>1, <2>2, <2>3, <2>4 DEF Counted
<1>9. Closed(c)
  BY <1>7, <1>8 DEF Closed
<1>10. c \in Regions
  BY <1>1, <1>5, <1>9 DEF Regions, Range
<1> QED BY <1>6, <1>10

-----------------------------------------------------------------------------
(* The verdicts. *)

\* What is said not to be live is not.
LEMMA NotLiveShut ==
  ASSUME AInv, FoundReal, BInv, Judged, NEW c \in Regions, NEW t \in Never(c)
  PROVE  t \in Transition /\ \E m \in Reachable(Truth) : ~ CanFireAfter(Truth, t, m)
BY RegionIs

\* A complete search has a region for every transition that is not live.
LEMMA ShutListed ==
  ASSUME AInv, FoundReal, BInv, Judged, ~ truncated, NEW t \in Transition,
         NEW m \in Reachable(Truth), ~ CanFireAfter(Truth, t, m)
  PROVE  \E c \in Regions : t \in Never(c)
<1>1. PICK c \in Regions : \A k \in Members(c) : found[k] \in Future(m)
  BY SettlesIn
<1>2. GraphTypeOK
  BY ComponentsAre
<1>3. \A k \in Members(c) : ~ Enabled(job.net, t, found[k])
  BY <1>1, <1>2, FutureIs
<1>4. t \in Never(c)
  BY <1>3 DEF Never, EnabledAt
<1> QED BY <1>4

\* A dead region is a dead marking.
LEMMA DeadReal ==
  ASSUME AInv, FoundReal, BInv, Judged, NEW c \in DeadRegions
  PROVE  \E m \in Reachable(Truth) : IsDead(Truth, m)
<1>1. c \in Regions /\ EnabledAt(Entry(c)) = {}
  BY DEF DeadRegions
<1>2. found[Entry(c)] \in Reachable(Truth) /\ GraphTypeOK
  BY <1>1, RegionIs, ComponentsAre
<1>3. \A t \in Transition : ~ Enabled(job.net, t, found[Entry(c)])
  BY <1>1 DEF EnabledAt
<1> QED BY <1>2, <1>3, FutureIs

\* A complete search has a dead region where there is a dead marking.
LEMMA DeadFound ==
  ASSUME AInv, FoundReal, BInv, Judged, ~ truncated, NEW m \in Reachable(Truth), IsDead(Truth, m)
  PROVE  DeadRegions # {}
<1>1. PICK c \in Regions : \A k \in Members(c) : found[k] \in Future(m)
  BY SettlesIn
<1>2. GraphTypeOK /\ m \in Marking
  BY ComponentsAre, FutureIs
<1>3. \A t \in Transition : ~ Enabled(job.net, t, m)
  BY <1>2, FutureIs
<1>4. Closure(job.net, {m}) /\ {m} \in SUBSET Marking
  BY <1>2, <1>3 DEF Closure
<1>5. Future(m) \subseteq {m}
  BY <1>2, <1>4, FutureIs
<1>6. found[Entry(c)] = m
  BY <1>1, <1>5, RegionIs
<1>7. EnabledAt(Entry(c)) = {}
  BY <1>3, <1>6 DEF EnabledAt
<1> QED BY <1>7 DEF DeadRegions

\* The regions of a complete search are the terminal components.
LEMMA RegionsAreTerminals ==
  ASSUME AInv, FoundReal, BInv, Judged, ~ truncated
  PROVE  {{found[k] : k \in Members(c)} : c \in Regions} = Terminals(Truth)
<1> DEFINE Set(c) == {found[k] : k \in Members(c)}
<1>1. GraphTypeOK
  BY ComponentsAre
<1>2. ASSUME NEW c \in Regions PROVE Set(c) \in Terminals(Truth)
  <2> DEFINE m == found[Entry(c)]
  <2>1. /\ Entry(c) \in Members(c) /\ \A k \in Members(c) : found[k] \in Reachable(Truth) /\ Future(found[k]) = Set(c)
    BY RegionIs
  <2>2. m \in Reachable(Truth) /\ Future(m) = Set(c) /\ m \in Set(c)
    BY <2>1
  <2>3. \A v \in Future(m) : m \in Future(v)
    BY <2>1, <2>2
  <2> HIDE DEF Set, m
  <2> QED BY <2>2, <2>3 DEF Terminals, Future
<1>3. ASSUME NEW T \in Terminals(Truth) PROVE \E c \in Regions : T = Set(c)
  <2>1. PICK m \in Reachable(Truth) : T = Future(m) /\ \A v \in Future(m) : m \in Future(v)
    BY DEF Terminals, Future
  <2>2. PICK c \in Regions : \A k \in Members(c) : found[k] \in Future(m)
    BY SettlesIn
  <2>3. Entry(c) \in Members(c) /\ Future(found[Entry(c)]) = Set(c) /\ found[Entry(c)] \in Reachable(Truth)
    BY RegionIs
  <2>4. found[Entry(c)] \in Future(m)
    BY <2>2, <2>3
  <2>5. m \in Future(found[Entry(c)])
    BY <2>1, <2>4
  <2>6. Future(m) \subseteq Future(found[Entry(c)]) /\ Future(found[Entry(c)]) \subseteq Future(m)
    BY <1>1, <2>3, <2>4, <2>5, FutureIs
  <2>7. T = Set(c)
    BY <2>1, <2>3, <2>6
  <2> QED BY <2>7
<1> HIDE DEF Set
<1>4. {Set(c) : c \in Regions} = Terminals(Truth)
  BY <1>2, <1>3
<1> QED BY <1>4 DEF Set

\* The region of the witness is one.
LEMMA WitnessIs ==
  ASSUME AInv, FoundReal, BInv, Judged, NEW c \in Witnesses
  PROVE  c \in Regions
<1>1. ASSUME NEW S \in SUBSET Regions, S # {} PROVE Witness(S) \in S
  <2> DEFINE N == {Entry(d) : d \in S}
  <2>1. \A d \in S : Entry(d) \in Nat
    BY EntryIs DEF Regions
  <2>2. N \in SUBSET Nat /\ N # {}
    BY <1>1, <2>1
  <2>3. PICK n \in N : \A k \in N : n <= k
    <3> HIDE DEF N
    <3> QED BY <2>2, LeastOf
  <2>4. \E d \in S : \A b \in S : Entry(d) <= Entry(b)
    BY <2>3
  <2> QED BY <2>4 DEF Witness
<1>2. DeadRegions \in SUBSET Regions /\ ShutOut \in SUBSET Regions
  BY DEF DeadRegions, ShutOut
<1>3. CASE DeadRegions # {}
  BY <1>1, <1>2, <1>3 DEF Witnesses
<1>4. CASE DeadRegions = {} /\ ShutOut # {}
  BY <1>1, <1>2, <1>4 DEF Witnesses
<1>5. CASE DeadRegions = {} /\ ShutOut = {}
  BY <1>5 DEF Witnesses
<1> QED BY <1>3, <1>4, <1>5

-----------------------------------------------------------------------------
(* The traces are shortest. *)

\* The edge a marking was found by.
Parent(m) == edges[Min({i \in DOMAIN edges : edges[i].to = m})]

\* It comes from a marking a level above.
LEMMA ParentIs ==
  ASSUME GraphTypeOK, GraphExact, BInv, NEW m \in Known, m # job.opening
  PROVE  /\ Parent(m).from \in Known /\ Parent(m).tr \in Transition
         /\ Enabled(job.net, Parent(m).tr, Parent(m).from)
         /\ m = Fire(job.net, Parent(m).tr, Parent(m).from)
         /\ depth[m] = depth[Parent(m).from] + 1
<1> DEFINE S == {i \in DOMAIN edges : edges[i].to = m}
<1>1. PICK k \in DOMAIN edges : FirstInto(k, m) /\ depth[m] = depth[edges[k].from] + 1
  BY DEF BInv, Entered
<1>2. Len(edges) \in Nat /\ DOMAIN edges = 1 .. Len(edges) /\ edges \in Seq(Edge)
  BY GraphCounts DEF GraphTypeOK
<1>3. k \in S /\ S \subseteq 1 .. Len(edges)
  BY <1>1, <1>2 DEF FirstInto
<1>4. ASSUME NEW j \in S PROVE k <= j
  <2>1. ~ (j \in 1 .. k - 1)
    BY <1>1 DEF FirstInto
  <2> QED BY <2>1, <1>2, <1>3
<1>5. Min(S) \in S /\ \A j \in S : Min(S) <= j
  <2> HIDE DEF S
  <2> QED BY <1>3, <1>4 DEF Min
<1>6. Min(S) = k
  <2>1. Min(S) <= k /\ k <= Min(S) /\ Min(S) \in 1 .. Len(edges) /\ k \in 1 .. Len(edges)
    BY <1>3, <1>4, <1>5
  <2> QED BY <1>2, <2>1
<1>7. Parent(m) = edges[k]
  BY <1>6 DEF Parent
<1>8. edges[k] \in Edge /\ edges[k].to = m
  BY <1>1, <1>2 DEF FirstInto
<1>9. edges[k].tr \in Transition
  BY <1>8 DEF Edge
<1> QED BY <1>1, <1>7, <1>8, <1>9 DEF GraphExact

\* One step of a trace, by what leads to the markings above.
BackFrom(f, m) == IF m = job.opening THEN <<>> ELSE Append(f[Parent(m).from], Parent(m).tr)
Backs(f) == f = [m \in Known |-> BackFrom(f, m)]

\* The markings have traces.
LEMMA BacksExist ==
  ASSUME GraphTypeOK, GraphExact, BInv
  PROVE  \E f : Backs(f)
<1> DEFINE Upto(f, n) == \A m \in Known : depth[m] <= n => f[m] = BackFrom(f, m)
           T == {n \in Nat : \E f \in [Known -> Seq(Transition)] : Upto(f, n)}
<1>1. depth \in [Known -> Nat]
  BY DEF GraphTypeOK
<1>2. \A m \in Known : m # job.opening =>
        /\ Parent(m).from \in Known /\ Parent(m).tr \in Transition /\ depth[m] = depth[Parent(m).from] + 1
  BY ParentIs
<1>3. 0 \in T
  <2> DEFINE f == [m \in Known |-> <<>>]
  <2>1. f \in [Known -> Seq(Transition)]
    OBVIOUS
  <2>2. ASSUME NEW m \in Known, depth[m] <= 0 PROVE f[m] = BackFrom(f, m)
    <3>1. m = job.opening
      BY <1>1, <1>2, <2>2
    <3> QED BY <3>1 DEF BackFrom
  <2> QED BY <2>1, <2>2
<1>4. ASSUME NEW n \in T PROVE n + 1 \in T
  <2>1. n \in Nat
    OBVIOUS
  <2>2. PICK f \in [Known -> Seq(Transition)] : Upto(f, n)
    OBVIOUS
  <2> DEFINE g == [m \in Known |-> IF depth[m] <= n THEN f[m] ELSE BackFrom(f, m)]
  <2>3. \A m \in Known : BackFrom(f, m) \in Seq(Transition)
    BY <1>2 DEF BackFrom
  <2>4. g \in [Known -> Seq(Transition)]
    BY <2>3
  <2>5. \A m \in Known : g[m] = BackFrom(f, m)
    BY <2>2
  <2>6. ASSUME NEW m \in Known, depth[m] <= n + 1 PROVE g[m] = BackFrom(g, m)
    <3>1. CASE m = job.opening
      BY <3>1, <2>5 DEF BackFrom
    <3>2. CASE m # job.opening
      <4>1. Parent(m).from \in Known /\ depth[Parent(m).from] <= n
        <5>1. depth[Parent(m).from] \in Nat /\ depth[m] \in Nat
          BY <1>1, <1>2, <3>2
        <5> QED BY <5>1, <1>2, <2>1, <2>6, <3>2
      <4>2. g[Parent(m).from] = f[Parent(m).from]
        BY <4>1
      <4> HIDE DEF g
      <4> QED BY <4>2, <2>5, <3>2 DEF BackFrom
    <3> QED BY <3>1, <3>2
  <2>7. n + 1 \in Nat
    BY <2>1
  <2> HIDE DEF g
  <2> QED BY <2>4, <2>6, <2>7
<1>5. T = Nat
  <2>1. T \in SUBSET Nat
    OBVIOUS
  <2> HIDE DEF T
  <2> QED BY <1>3, <1>4, <2>1, Induct
<1>6. Len(found) \in DOMAIN found
  BY GraphCounts DEF GraphExact
<1> DEFINE n == depth[found[Len(found)]]
<1>7. n \in Nat /\ \A m \in Known : depth[m] <= n
  <2>1. n \in Nat
    BY <1>6, GraphCounts
  <2>2. ASSUME NEW m \in Known PROVE depth[m] <= n
    <3>1. PICK j \in DOMAIN found : found[j] = m
      BY GraphCounts
    <3>2. j <= Len(found)
      BY GraphCounts
    <3> QED BY <3>1, <3>2, <1>6 DEF BInv, Levels
  <2> QED BY <2>1, <2>2
<1>8. PICK f \in [Known -> Seq(Transition)] : Upto(f, n)
  <2> HIDE DEF n
  <2> QED BY <1>5, <1>7
<1>9. f = [m \in Known |-> BackFrom(f, m)]
  BY <1>7, <1>8
<1> QED BY <1>9 DEF Backs

\* A trace replays, and is as long as its marking is deep.
LEMMA TraceIs ==
  ASSUME GraphTypeOK, GraphExact, BInv, NEW m \in Known
  PROVE  Replays(Trace(m), m) /\ Len(Trace(m)) = depth[m]
<1> DEFINE g == CHOOSE f : Backs(f)
           T == {n \in Nat : \A x \in Known : depth[x] = n =>
                               g[x] \in Seq(Transition) /\ Len(g[x]) = n /\ RunsTo(job, g[x], x)}
<1>1. Backs(g)
  BY BacksExist
<1>2. Trace(m) = g[m]
  BY DEF Trace, Backs, BackFrom, Parent
<1>3. job.net \in Nets /\ job.opening \in Marking /\ depth \in [Known -> Nat]
  BY TruthIs DEF GraphTypeOK
<1> HIDE DEF g
<1>4. \A x \in Known : g[x] = BackFrom(g, x)
  BY <1>1 DEF Backs
<1>5. 0 \in T
  <2>1. ASSUME NEW x \in Known, depth[x] = 0
        PROVE  g[x] \in Seq(Transition) /\ Len(g[x]) = 0 /\ RunsTo(job, g[x], x)
    <3>1. x = job.opening
      <4>1. ASSUME x # job.opening PROVE FALSE
        <5>1. depth[x] = depth[Parent(x).from] + 1 /\ Parent(x).from \in Known
          BY <4>1, ParentIs
        <5> QED BY <5>1, <2>1, <1>3
      <4> QED BY <4>1
    <3>2. g[x] = <<>>
      BY <3>1, <1>4 DEF BackFrom
    <3> QED BY <3>1, <3>2, <1>3, ReplaysNothing
  <2> QED BY <2>1
<1>6. ASSUME NEW n \in T PROVE n + 1 \in T
  <2>1. ASSUME NEW x \in Known, depth[x] = n + 1
        PROVE  g[x] \in Seq(Transition) /\ Len(g[x]) = n + 1 /\ RunsTo(job, g[x], x)
    <3> DEFINE u == Parent(x).from  t == Parent(x).tr
    <3>1. x # job.opening
      <4>1. depth[job.opening] = 0
        BY DEF BInv, Levels
      <4> QED BY <4>1, <2>1
    <3>2. /\ u \in Known /\ t \in Transition /\ Enabled(job.net, t, u) /\ x = Fire(job.net, t, u)
          /\ depth[x] = depth[u] + 1
      BY <3>1, ParentIs
    <3>3. depth[u] = n
      <4>1. depth[u] \in Nat
        BY <3>2, <1>3
      <4> QED BY <4>1, <3>2, <2>1
    <3>4. g[u] \in Seq(Transition) /\ Len(g[u]) = n /\ RunsTo(job, g[u], u)
      BY <3>2, <3>3
    <3>5. g[x] = Append(g[u], t)
      BY <3>1, <1>4 DEF BackFrom
    <3> HIDE DEF u, t
    <3>6. RunsTo(job, Append(g[u], t), Fire(job.net, t, u))
      BY <3>2, <3>4, <1>3, ReplaysOn
    <3>7. Append(g[u], t) \in Seq(Transition) /\ Len(Append(g[u], t)) = n + 1
      BY <3>2, <3>4
    <3> QED BY <3>2, <3>5, <3>6, <3>7
  <2> QED BY <2>1
<1>7. T = Nat
  <2>1. T \in SUBSET Nat
    OBVIOUS
  <2> HIDE DEF T
  <2> QED BY <1>5, <1>6, <2>1, Induct
<1>8. depth[m] \in T
  <2> HIDE DEF T
  <2> QED BY <1>3, <1>7
<1> QED BY <1>2, <1>3, <1>8, ReplaysIs

\* The search's depth is the distance.
LEMMA DepthIs ==
  ASSUME GraphTypeOK, GraphExact, FoundReal, BInv, NEW m \in Known
  PROVE  depth[m] = Truth.dist[m]
<1>1. /\ job.net \in Nets /\ job.opening \in Marking /\ Truth = Space(job.net, job.opening)
      /\ depth \in [Known -> Nat] /\ m \in Reachable(Truth)
  BY TruthIs DEF GraphTypeOK, FoundReal
<1>2. \A w \in Reachable(Truth) :
        /\ Truth.dist[w] \in Nat
        /\ Truth.dist[w] = 0 <=> w = job.opening
        /\ w # job.opening => \E u \in Reachable(Truth), t \in Transition :
              Enabled(job.net, t, u) /\ w = Fire(job.net, t, u) /\ Truth.dist[u] = Truth.dist[w] - 1
        /\ \A t \in Transition : Enabled(job.net, t, w) => Truth.dist[Fire(job.net, t, w)] <= Truth.dist[w] + 1
  BY <1>1, DistanceIs
<1> DEFINE dist == Truth.dist
<1>3. dist[m] <= depth[m]
  <2> DEFINE T == {n \in Nat : \A x \in Known : depth[x] = n => dist[x] <= n}
  <2>1. 0 \in T
    <3>1. ASSUME NEW x \in Known, depth[x] = 0 PROVE dist[x] <= 0
      <4>1. CASE x = job.opening
        BY <4>1, <1>2 DEF FoundReal
      <4>2. CASE x # job.opening
        <5>1. depth[x] = depth[Parent(x).from] + 1 /\ Parent(x).from \in Known
          BY <4>2, ParentIs
        <5> QED BY <5>1, <3>1, <1>1
      <4> QED BY <4>1, <4>2
    <3> QED BY <3>1
  <2>2. ASSUME NEW n \in T PROVE n + 1 \in T
    <3>1. ASSUME NEW x \in Known, depth[x] = n + 1 PROVE dist[x] <= n + 1
      <4>1. CASE x = job.opening
        BY <4>1, <1>2 DEF FoundReal
      <4>2. CASE x # job.opening
        <5> DEFINE u == Parent(x).from  t == Parent(x).tr
        <5>1. /\ u \in Known /\ t \in Transition /\ Enabled(job.net, t, u) /\ x = Fire(job.net, t, u)
              /\ depth[x] = depth[u] + 1
          BY <4>2, ParentIs
        <5> HIDE DEF u, t
        <5>2. depth[u] \in Nat /\ u \in Reachable(Truth) /\ x \in Reachable(Truth)
          BY <5>1, <1>1 DEF FoundReal
        <5>3. dist[u] <= n
          BY <5>1, <5>2, <3>1
        <5>4. dist[x] <= dist[u] + 1 /\ dist[u] \in Nat /\ dist[x] \in Nat
          BY <5>1, <5>2, <1>2
        <5> QED BY <5>3, <5>4
      <4> QED BY <4>1, <4>2
    <3> QED BY <3>1
  <2>3. T = Nat
    <3>1. T \in SUBSET Nat
      OBVIOUS
    <3> HIDE DEF T
    <3> QED BY <2>1, <2>2, <3>1, Induct
  <2> QED BY <2>3, <1>1
<1>4. CASE Popped = 0
  <2>1. Len(found) = 1 /\ found[1] = job.opening /\ depth[job.opening] = 0
    BY <1>4 DEF BInv, Lined, Levels
  <2>2. m = job.opening
    <3>1. PICK j \in DOMAIN found : found[j] = m
      BY GraphCounts
    <3>2. j = 1
      BY <2>1, GraphCounts
    <3> QED BY <2>1, <3>1, <3>2
  <2> QED BY <2>1, <2>2, <1>1, <1>2
<1>5. CASE Popped # 0
  <2> DEFINE D == depth[at]
             T == {n \in Nat : n <= D => \A w \in Reachable(Truth) : dist[w] = n => w \in Known /\ depth[w] <= n}
  <2>1. /\ Popped \in DOMAIN found /\ at = found[Popped] /\ at \in Known /\ D \in Nat
        /\ \A j \in DOMAIN found : depth[found[j]] <= D + 1 /\ depth[found[j]] \in Nat
    <3>1. Popped >= 0 /\ at = found[Popped]
      BY <1>5 DEF BInv, Lined
    <3>2. Popped \in Int /\ Popped = Len(found) - Len(queue) /\ Len(found) \in Nat /\ Len(queue) \in Nat
          /\ DOMAIN found = 1 .. Len(found)
      BY GraphCounts DEF Popped
    <3>3. Popped \in DOMAIN found
      BY <1>5, <3>1, <3>2
    <3> QED BY <1>5, <3>1, <3>3, GraphCounts DEF BInv, Levels
  <2>2. 0 \in T
    <3>1. job.opening \in Known /\ depth[job.opening] = 0
      BY DEF GraphExact, BInv, Levels
    <3> QED BY <3>1, <1>2
  <2>3. ASSUME NEW n \in T PROVE n + 1 \in T
    <3> SUFFICES ASSUME n + 1 <= D, NEW w \in Reachable(Truth), dist[w] = n + 1
                 PROVE  w \in Known /\ depth[w] <= n + 1
      OBVIOUS
    <3>1. w # job.opening
      BY <1>2
    <3>2. PICK u \in Reachable(Truth), t \in Transition :
            Enabled(job.net, t, u) /\ w = Fire(job.net, t, u) /\ dist[u] = dist[w] - 1
      BY <3>1, <1>2
    <3>3. u \in Known /\ depth[u] <= n
      <4>1. dist[u] = n /\ n <= D
        BY <3>2, <2>1
      <4> QED BY <4>1
    <3>4. PICK j \in DOMAIN found : found[j] = u
      BY <3>3, GraphCounts
    <3>5. j < Popped
      <4>1. ASSUME Popped <= j PROVE FALSE
        <5>1. D <= depth[u]
          BY <4>1, <2>1, <3>4 DEF BInv, Levels
        <5>2. depth[u] \in Nat
          BY <3>3, <1>1
        <5> QED BY <5>1, <5>2, <2>1, <3>3
      <4>2. j \in Int /\ Popped \in Int
        BY GraphCounts
      <4> QED BY <4>1, <4>2
    <3>6. PICK k \in DOMAIN edges : edges[k] = [from |-> u, tr |-> t, to |-> w]
      BY <3>2, <3>4, <3>5 DEF BInv, Tried, Expanded
    <3>7. w \in Known /\ depth[w] <= depth[u] + 1
      BY <3>6 DEF GraphExact, BInv, Levels
    <3>8. depth[w] \in Nat /\ depth[u] \in Nat
      BY <3>3, <3>7, <1>1
    <3> QED BY <3>3, <3>7, <3>8
  <2>4. T = Nat
    <3>1. T \in SUBSET Nat
      OBVIOUS
    <3> HIDE DEF T
    <3> QED BY <2>2, <2>3, <3>1, Induct
  <2>5. dist[m] \in Nat
    BY <1>1, <1>2
  <2>6. depth[m] <= D + 1 /\ depth[m] \in Nat
    <3>1. PICK j \in DOMAIN found : found[j] = m
      BY GraphCounts
    <3> QED BY <3>1, <2>1
  <2>7. CASE dist[m] <= D
    <3>1. dist[m] \in T
      <4> HIDE DEF T
      <4> QED BY <2>4, <2>5
    <3>2. depth[m] <= dist[m]
      BY <3>1, <2>7, <1>1
    <3> QED BY <3>2, <2>5, <2>6, <1>3
  <2>8. CASE ~ (dist[m] <= D)
    BY <2>8, <2>1, <2>5, <2>6, <1>3
  <2> QED BY <2>7, <2>8
<1> QED BY <1>4, <1>5

-----------------------------------------------------------------------------
(* The verdicts are sound. *)

\* A refutation is real, and what is not unknown is so, dead markings first.
LEMMA DeadlockVerdict ==
  ASSUME AInv, FoundReal, BInv, Judged
  PROVE  /\ DeadlockFree = "true" => ~ truncated /\ ~ (\E m \in Reachable(Truth) : IsDead(Truth, m))
         /\ DeadlockFree = "false" => \E m \in Reachable(Truth) : IsDead(Truth, m)
<1>1. CASE DeadRegions # {}
  <2>1. DeadlockFree = "false"
    BY <1>1 DEF DeadlockFree, RefutedOr
  <2>2. \E m \in Reachable(Truth) : IsDead(Truth, m)
    BY <1>1, DeadReal
  <2> QED BY <2>1, <2>2
<1>2. CASE DeadRegions = {} /\ truncated
  BY <1>2 DEF DeadlockFree, RefutedOr
<1>3. CASE DeadRegions = {} /\ ~ truncated
  <2>1. DeadlockFree = "true"
    BY <1>3 DEF DeadlockFree, RefutedOr
  <2>2. \A m \in Reachable(Truth) : ~ IsDead(Truth, m)
    BY <1>3, DeadFound
  <2> QED BY <2>1, <2>2, <1>3
<1> QED BY <1>1, <1>2, <1>3

\* So for transitions that cease to fire.
LEMMA LiveVerdict ==
  ASSUME AInv, FoundReal, BInv, Judged
  PROVE  /\ Live = "true" => /\ ~ truncated
                             /\ \A t \in Transition : \A m \in Reachable(Truth) : CanFireAfter(Truth, t, m)
         /\ Live = "false" => \E t \in Transition : \E m \in Reachable(Truth) : ~ CanFireAfter(Truth, t, m)
<1>1. CASE ShutOut # {}
  <2>1. Live = "false"
    BY <1>1 DEF Live, RefutedOr
  <2>2. PICK c \in Regions : Never(c) # {}
    BY <1>1 DEF ShutOut
  <2>3. PICK t \in Never(c) : TRUE
    BY <2>2
  <2> QED BY <2>1, <2>3, NotLiveShut
<1>2. CASE ShutOut = {} /\ truncated
  BY <1>2 DEF Live, RefutedOr
<1>3. CASE ShutOut = {} /\ ~ truncated
  <2>1. Live = "true"
    BY <1>3 DEF Live, RefutedOr
  <2>2. ASSUME NEW t \in Transition, NEW m \in Reachable(Truth), ~ CanFireAfter(Truth, t, m) PROVE FALSE
    <3>1. \E c \in Regions : t \in Never(c)
      BY <1>3, <2>2, ShutListed
    <3> QED BY <3>1, <1>3 DEF ShutOut
  <2> QED BY <2>1, <2>2, <1>3
<1> QED BY <1>1, <1>2, <1>3

\* So for transitions that never fire.
LEMMA QuasiVerdict ==
  ASSUME AInv, FoundReal, BInv, Judged
  PROVE  /\ QuasiLive = "true" => ~ truncated /\ \A t \in Transition : CanFire(Truth, t)
         /\ QuasiLive = "false" => ~ (\A t \in Transition : CanFire(Truth, t))
<1>1. GraphTypeOK /\ GraphExact /\ pc = "built"
  BY ComponentsAre
<1>2. CASE truncated
  BY <1>2 DEF QuasiLive
<1>3. CASE ~ truncated /\ Unfired = {}
  <2>1. QuasiLive = "true"
    BY <1>3 DEF QuasiLive
  <2>2. \A t \in Transition : CanFire(Truth, t)
    BY <1>1, <1>3, FiredCan
  <2> QED BY <2>1, <2>2, <1>3
<1>4. CASE ~ truncated /\ Unfired # {}
  <2>1. QuasiLive = "false"
    BY <1>4 DEF QuasiLive
  <2>2. PICK t \in Unfired : TRUE
    BY <1>4
  <2>3. t \in Transition /\ ~ CanFire(Truth, t)
    BY <1>1, <1>4, <2>2, UnfiredNever DEF Unfired
  <2> QED BY <2>1, <2>3
<1> QED BY <1>2, <1>3, <1>4

\* The verdicts of analyze and liveness_of are those of the whole state space
\* whenever they are not unknown, a transition said not to be live is not, the
\* regions of a complete search are the terminal components, and the witness
\* replays by a shortest trace to where it shows: for every net and all limits.
THEOREM VerdictsAreSound == FairSpec => []VerdictsSound
<1>1. ASSUME AInv, HInv, BInv, stage = "over" PROVE VerdictsSound
  <2> DEFINE dead == \E m \in Reachable(Truth) : IsDead(Truth, m)
             shut(t) == \E m \in Reachable(Truth) : ~ CanFireAfter(Truth, t, m)
  <2>1. FoundReal /\ Judged /\ GraphTypeOK /\ GraphExact
    BY <1>1, ComponentsAre DEF HInv, Judged
  <2>2. /\ DeadlockFree = "true" => ~ truncated /\ ~ dead
        /\ DeadlockFree = "false" => dead
    BY <1>1, <2>1, DeadlockVerdict
  <2>3. /\ Live = "true" => ~ truncated /\ \A t \in Transition : ~ shut(t)
        /\ Live = "false" => ~ (\A t \in Transition : ~ shut(t))
    BY <1>1, <2>1, LiveVerdict
  <2>4. /\ QuasiLive = "true" => ~ truncated /\ \A t \in Transition : CanFire(Truth, t)
        /\ QuasiLive = "false" => ~ (\A t \in Transition : CanFire(Truth, t))
    BY <1>1, <2>1, QuasiVerdict
  <2>5. \A t \in NotLive : shut(t)
    <3> SUFFICES ASSUME NEW t \in NotLive PROVE shut(t)
      OBVIOUS
    <3>1. PICK c \in Regions : t \in Never(c)
      BY DEF NotLive
    <3> QED BY <1>1, <2>1, <3>1, NotLiveShut
  <2>6. ASSUME ~ truncated, NEW t \in Transition, shut(t) PROVE t \in NotLive
    <3>1. \E c \in Regions : t \in Never(c)
      BY <1>1, <2>1, <2>6, ShutListed
    <3> QED BY <3>1 DEF NotLive
  <2>7. ~ truncated => {{found[k] : k \in Members(c)} : c \in Regions} = Terminals(Truth)
    BY <1>1, <2>1, RegionsAreTerminals
  <2>8. ASSUME NEW c \in Witnesses
        PROVE  /\ Replays(Trace(found[Entry(c)]), found[Entry(c)])
               /\ Len(Trace(found[Entry(c)])) = Truth.dist[found[Entry(c)]]
               /\ \A t \in Never(c) : ~ CanFireAfter(Truth, t, found[Entry(c)])
    <3>1. c \in Regions
      BY <1>1, <2>1, WitnessIs
    <3>2. Entry(c) \in Members(c) /\ \A t \in Never(c) : ~ CanFireAfter(Truth, t, found[Entry(c)])
      BY <1>1, <2>1, <3>1, RegionIs
    <3>3. PICK m : m = found[Entry(c)]
      OBVIOUS
    <3>4. m \in Known
      BY <3>2, <3>3 DEF Members, Known, Range
    <3>5. Replays(Trace(m), m) /\ Len(Trace(m)) = Truth.dist[m]
      BY <1>1, <2>1, <3>4, TraceIs, DepthIs
    <3> QED BY <3>2, <3>3, <3>5
  <2> QED BY <2>2, <2>3, <2>4, <2>5, <2>6, <2>7, <2>8 DEF VerdictsSound
<1>2. AInv /\ HInv /\ BInv => VerdictsSound
  <2>1. ASSUME stage # "over" PROVE VerdictsSound
    BY <2>1 DEF VerdictsSound
  <2> QED BY <1>1, <2>1
<1> QED BY <1>2, AnalyzerInvariance, HuntInvariance, BreadthFirst, PTL

=============================================================================
