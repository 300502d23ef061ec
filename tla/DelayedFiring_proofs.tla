------------------------ MODULE DelayedFiring_proofs ------------------------
(***************************************************************************)
(* The discrete engine loses no token and, as long as no count leaves the  *)
(* range of an i64, a run in segments is a run on one clock, for every     *)
(* net, every schedule and all delays.                                     *)
(***************************************************************************)
EXTENDS DelayedFiring, FiringRule_proofs

-----------------------------------------------------------------------------
(* The type of the state, and the lemmas about the queue. *)

Pending == [at : Int, tr : Transition, no : Nat]

TypeOK ==
  /\ run \in Runs
  /\ seg \in DOMAIN run.ends
  /\ clock \in Int
  /\ mk \in [Place -> Int]
  /\ queue \in Seq(Pending)
  /\ pc \in {"start", "race", "over"}
  /\ next \in 1 .. Len(Declared) + 1 /\ again \in BOOLEAN
  /\ steps \in Nat
  /\ fired \in [Transition -> Nat]
  /\ started \in Nat
  /\ cut \in BOOLEAN

\* What a firing started by the i-th declared transition carries.
Flight(i) == [at |-> clock + run.delay[Declared[i]], tr |-> Declared[i], no |-> started]

\* How many firings are due no later than f.
Before(q, f) == Cardinality({k \in DOMAIN q : q[k].at <= f.at})

\* How many of a queue come before a firing.
LEMMA BeforeType ==
  ASSUME NEW S, NEW q \in Seq(S), NEW f
  PROVE  Before(q, f) \in 0 .. Len(q)
  <1> DEFINE K == {k \in DOMAIN q : q[k].at <= f.at}
  <1>1. Len(q) \in Nat /\ DOMAIN q = 1 .. Len(q)
    BY LenProperties
  <1>2. PICK D : D = 1 .. Len(q) /\ IsFiniteSet(D) /\ Cardinality(D) = Len(q)
    <2>1. Cardinality(1 .. Len(q)) = Len(q) /\ IsFiniteSet(1 .. Len(q))
      BY <1>1, FS_Interval
    <2> QED
      BY <2>1
  <1>3. K \in SUBSET D
    BY <1>1, <1>2
  <1> HIDE DEF K
  <1>4. \A t \in SUBSET D : Cardinality(t) \in Nat /\ Cardinality(t) <= Cardinality(D)
    BY <1>2, Parts
  <1> QED
    BY <1>1, <1>2, <1>3, <1>4 DEF Before, K

\* Where a firing goes, and what moves.
LEMMA ScheduleIs ==
  ASSUME NEW q \in Seq(Pending), NEW f \in Pending
  PROVE  /\ Before(q, f) \in 0 .. Len(q)
         /\ Schedule(q, f) \in Seq(Pending) /\ Len(Schedule(q, f)) = Len(q) + 1
         /\ \A k \in 1 .. Before(q, f) : Schedule(q, f)[k] = q[k]
         /\ Schedule(q, f)[Before(q, f) + 1] = f
         /\ \A k \in Before(q, f) + 1 .. Len(q) : Schedule(q, f)[k + 1] = q[k]
  <1>1. PICK n \in 0 .. Len(q) : n = Before(q, f)
    BY BeforeType
  <1>2. PICK r : r = Schedule(q, f)
    OBVIOUS
  <1>3. r = InsertAt(q, n + 1, f)
    BY <1>1, <1>2 DEF Schedule, Before
  <1> DEFINE L == Len(q)
             a == SubSeq(q, 1, n)
             b == SubSeq(q, n + 1, L)
  <1>4. L \in Nat /\ n \in Nat /\ n <= L /\ \A k \in 1 .. L : q[k] \in Pending
    BY LenProperties, ElementOfSeq
  <1>5. a \in Seq(Pending) /\ Len(a) = n /\ \A k \in 1 .. n : a[k] = q[k]
    <2>1. \A k \in 1 .. n : q[k] \in Pending
      BY <1>4
    <2> QED
      BY <1>4, <2>1
  <1>6. b \in Seq(Pending) /\ Len(b) = L - n /\ \A k \in 1 .. L - n : b[k] = q[n + k]
    <2>1. \A k \in n + 1 .. L : q[k] \in Pending
      BY <1>4
    <2> QED
      BY <1>4, <2>1
  <1>7. (n + 1) - 1 = n
    BY <1>4
  <1>8. InsertAt(q, n + 1, f) = a \o <<f>> \o b
    BY <1>7 DEF InsertAt
  <1> HIDE DEF a, b, L
  <1>9. LET c == a \o <<f>>
        IN  c \in Seq(Pending) /\ Len(c) = n + 1 /\ c[n + 1] = f /\ \A k \in 1 .. n : c[k] = q[k]
    BY <1>4, <1>5
  <1> DEFINE c == a \o <<f>>
  <1>10. c \in Seq(Pending) /\ Len(c) = n + 1 /\ c[n + 1] = f /\ \A k \in 1 .. n : c[k] = q[k]
    BY <1>9
  <1>11. r = c \o b
    BY <1>3, <1>8
  <1> HIDE DEF c
  <1>12. /\ r \in Seq(Pending) /\ Len(r) = (n + 1) + (L - n)
         /\ \A k \in 1 .. n + 1 : r[k] = c[k]
         /\ \A k \in 1 .. L - n : r[(n + 1) + k] = b[k]
    <2>1. r \in Seq(Pending)
      BY <1>6, <1>10, <1>11, ConcatProperties
    <2>2. Len(r) = Len(c) + Len(b)
      BY <1>6, <1>10, <1>11, ConcatProperties
    <2>3. ASSUME NEW k \in 1 .. Len(c) + Len(b)
          PROVE  r[k] = IF k <= Len(c) THEN c[k] ELSE b[k - Len(c)]
      BY <1>6, <1>10, <1>11, ConcatProperties
    <2>4. ASSUME NEW k \in 1 .. n + 1 PROVE r[k] = c[k]
      <3>1. k \in 1 .. Len(c) + Len(b) /\ k <= Len(c)
        BY <1>4, <1>6, <1>10
      <3> QED
        BY <2>3, <3>1
    <2>5. ASSUME NEW k \in 1 .. L - n PROVE r[(n + 1) + k] = b[k]
      <3>1. /\ (n + 1) + k \in 1 .. Len(c) + Len(b)
            /\ ~ ((n + 1) + k <= Len(c))
            /\ ((n + 1) + k) - Len(c) = k
        BY <1>4, <1>6, <1>10
      <3> QED
        BY <2>3, <3>1
    <2> QED
      BY <1>6, <1>10, <2>1, <2>2, <2>4, <2>5
  <1>13. Len(r) = L + 1
    BY <1>4, <1>12
  <1>14. \A k \in 1 .. n : r[k] = q[k]
    BY <1>4, <1>10, <1>12
  <1>15. r[n + 1] = f
    BY <1>4, <1>10, <1>12
  <1>16. ASSUME NEW k \in n + 1 .. L PROVE r[k + 1] = q[k]
    <2>1. PICK j \in 1 .. L - n : k = n + j
      <3>1. k - n \in 1 .. L - n /\ k = n + (k - n)
        BY <1>4
      <3> QED
        BY <3>1
    <2>2. r[(n + 1) + j] = b[j] /\ b[j] = q[n + j] /\ (n + 1) + j = k + 1
      BY <1>4, <1>6, <1>12, <2>1
    <2> QED
      BY <2>1, <2>2
  <1>17. /\ r \in Seq(Pending) /\ Len(r) = Len(q) + 1
         /\ \A k \in 1 .. n : r[k] = q[k]
         /\ r[n + 1] = f
         /\ \A k \in n + 1 .. Len(q) : r[k + 1] = q[k]
    BY <1>12, <1>13, <1>14, <1>15, <1>16 DEF L
  <1> QED
    BY <1>1, <1>2, <1>17

\* The declared transitions are a sequence of transitions.
LEMMA DeclaredType ==
  /\ Len(Declared) \in Nat /\ DOMAIN Declared = 1 .. Len(Declared)
  /\ 1 \in 1 .. Len(Declared) + 1
  /\ \A i \in DOMAIN Declared : Declared[i] \in Transition
  <1>1. Len(Declared) \in Nat /\ DOMAIN Declared = 1 .. Len(Declared)
    BY DeclaredAssumption, LenProperties
  <1> QED
    BY <1>1, DeclaredAssumption, ElementOfSeq

\* What the type of a run says, part by part.
LEMMA RunType ==
  ASSUME NEW r \in Runs
  PROVE  /\ r.net \in Nets /\ r.delay \in [Transition -> Nat] /\ r.opening \in Marking
         /\ Len(r.ends) \in Nat \ {0} /\ DOMAIN r.ends = 1 .. Len(r.ends)
         /\ DOMAIN r.live = DOMAIN r.ends
         /\ \A k \in DOMAIN r.ends : r.ends[k] \in Nat /\ r.live[k] \subseteq Transition
         /\ \A t \in Transition, p \in Place :
              Taken(r.net, t, p) \in Nat /\ Given(r.net, t, p) \in Nat
  <1>1. r \in Run
    BY RunsAssumption
  <1>2. /\ r.net \in Nets /\ r.delay \in [Transition -> Nat] /\ r.opening \in Marking
        /\ r.ends \in Seq(Nat) /\ r.live \in Seq(SUBSET Transition)
        /\ r.ends # <<>> /\ Len(r.live) = Len(r.ends)
    BY <1>1 DEF Run
  <1>3. /\ Len(r.ends) \in Nat \ {0} /\ DOMAIN r.ends = 1 .. Len(r.ends)
        /\ DOMAIN r.live = DOMAIN r.ends
        /\ \A k \in DOMAIN r.ends : r.ends[k] \in Nat /\ r.live[k] \subseteq Transition
    BY <1>2
  <1>4. \A t \in Transition, p \in Place : Taken(r.net, t, p) \in Nat /\ Given(r.net, t, p) \in Nat
    BY <1>2, TotalsType, ConsumingAssumption
  <1> QED
    BY <1>2, <1>3, <1>4

\* The effect of a firing on a place.
LEMMA DeltaType ==
  ASSUME TypeOK, NEW t \in Transition, NEW p \in Place
  PROVE  /\ Taken(run.net, t, p) \in Nat /\ Given(run.net, t, p) \in Nat
         /\ Delta(t, p) = Given(run.net, t, p) - Taken(run.net, t, p)
         /\ Delta(t, p) \in Int
  <1>1. Taken(run.net, t, p) \in Nat /\ Given(run.net, t, p) \in Nat
    BY RunType DEF TypeOK
  <1> QED
    BY <1>1 DEF Delta

\* The times of a segment are numbers.
LEMMA SpanType ==
  ASSUME TypeOK
  PROVE  Span \in Int /\ Opens(run, seg) \in Int /\ Opens(run, seg) + Span = run.ends[seg]
  <1>1. /\ seg \in 1 .. Len(run.ends) /\ Len(run.ends) \in Nat
        /\ \A k \in 1 .. Len(run.ends) : run.ends[k] \in Nat
    BY RunType DEF TypeOK
  <1>2. Opens(run, seg) \in Nat
    <2>1. CASE seg = 1
      BY <2>1 DEF Opens
    <2>2. CASE seg # 1
      <3>1. seg - 1 \in 1 .. Len(run.ends)
        BY <1>1, <2>2
      <3> QED
        BY <1>1, <2>2, <3>1 DEF Opens
    <2> QED
      BY <2>1, <2>2
  <1>3. run.ends[seg] \in Nat
    BY <1>1
  <1> QED
    BY <1>2, <1>3 DEF Span

\* The head of the queue and the rest.
LEMMA FirstDue ==
  ASSUME TypeOK, queue # <<>>
  PROVE  /\ Len(queue) \in Nat \ {0} /\ DOMAIN queue = 1 .. Len(queue)
         /\ Head(queue) = queue[1] /\ Head(queue) \in Pending
         /\ Tail(queue) \in Seq(Pending) /\ Len(Tail(queue)) = Len(queue) - 1
         /\ DOMAIN Tail(queue) = 1 .. Len(queue) - 1
         /\ \A k \in 1 .. Len(queue) - 1 : Tail(queue)[k] = queue[k + 1]
  BY HeadTailProperties DEF TypeOK

-----------------------------------------------------------------------------
(* The tokens: what the firings fd completed have added to p, and what those *)
(* of the queue q hold of it.                                               *)

Gained(fd, p) == SumFunctionOnSet([t \in Transition |-> fd[t] * Delta(t, p)], Transition)

Held(q, p) == SumFunctionOnSet([k \in 1 .. Len(q) |-> Taken(run.net, q[k].tr, p)], 1 .. Len(q))

\* Products of integers, which the solver does not find by itself.
LEMMA Products == \A x, y \in Int : x * y \in Int /\ (x + 1) * y = x * y + y
  OBVIOUS

Tokens ==
  \A p \in Place : mk[p] = run.opening[p] + Gained(fired, p) - Held(queue, p)

\* The books balance where every place's balance is shown.
LEMMA TokensStep ==
  ASSUME run' = run,
         \A p \in Place : mk'[p] = run.opening[p] + Gained(fired', p) - Held(queue', p)
  PROVE  Tokens'
  <1>1. \A p \in Place : Gained(fired, p)' = Gained(fired', p) /\ Held(queue, p)' = Held(queue', p)
    BY DEF Gained, Held, Delta
  <1> QED
    BY <1>1 DEF Tokens

\* One firing more of u changes what a place gained by u's effect on it.
LEMMA GainedOne ==
  ASSUME TypeOK, NEW u \in Transition, NEW p \in Place
  PROVE  /\ Gained(fired, p) \in Int
         /\ Gained([fired EXCEPT ![u] = @ + 1], p) = Gained(fired, p) + Delta(u, p)
  <1> DEFINE f == [t \in Transition |-> fired[t] * Delta(t, p)]
             g == [t \in Transition |-> [fired EXCEPT ![u] = @ + 1][t] * Delta(t, p)]
  <1>1. \A t \in Transition : Delta(t, p) \in Int /\ fired[t] \in Int
    BY DeltaType DEF TypeOK
  <1>2. \A t \in Transition : f[t] \in Int
    BY <1>1, Products
  <1>3. \A t \in Transition \ {u} : f[t] = g[t]
    BY DEF TypeOK
  <1>4. g[u] = f[u] + Delta(u, p)
    <2>1. g[u] = (fired[u] + 1) * Delta(u, p)
      BY DEF TypeOK
    <2> QED
      BY <1>1, <2>1, Products
  <1>5. Gained(fired, p) = SumFunctionOnSet(f, Transition)
        /\ Gained([fired EXCEPT ![u] = @ + 1], p) = SumFunctionOnSet(g, Transition)
    BY DEF Gained
  <1> HIDE DEF f, g
  <1>6. \A t \in Transition : g[t] \in Int
    BY <1>1, <1>2, <1>3, <1>4
  <1>7. IsFiniteSet(Transition)
    BY NodeAssumption
  <1>8. SumFunctionOnSet(g, Transition) = SumFunctionOnSet(f, Transition) + (g[u] - f[u])
    BY <1>2, <1>3, <1>6, <1>7, SumChange
  <1>9. SumFunctionOnSet(f, Transition) \in Int
    BY <1>2, <1>7, SumIsInt
  <1> QED
    BY <1>1, <1>2, <1>4, <1>5, <1>8, <1>9

\* What is in flight of a place is a number.
LEMMA HeldType ==
  ASSUME TypeOK, NEW q \in Seq(Pending), NEW p \in Place
  PROVE  Held(q, p) \in Int
  <1> DEFINE f == [k \in 1 .. Len(q) |-> Taken(run.net, q[k].tr, p)]
  <1>1. IsFiniteSet(1 .. Len(q))
    BY LenProperties, FS_Interval
  <1>2. \A k \in 1 .. Len(q) : q[k].tr \in Transition
    <2>1. \A k \in 1 .. Len(q) : q[k] \in Pending
      BY ElementOfSeq
    <2> QED
      BY <2>1 DEF Pending
  <1>3. \A k \in 1 .. Len(q) : f[k] \in Int
    BY <1>2, DeltaType
  <1> HIDE DEF f
  <1>4. SumFunctionOnSet(f, 1 .. Len(q)) \in Int
    BY <1>1, <1>3, SumIsInt
  <1> QED
    BY <1>4 DEF Held, f

\* The firing at position n + 1 of r and not in q holds the difference.
LEMMA HeldInsert ==
  ASSUME TypeOK, NEW q \in Seq(Pending), NEW r \in Seq(Pending), NEW p \in Place,
         NEW n \in 0 .. Len(q), Len(r) = Len(q) + 1,
         \A k \in 1 .. n : r[k] = q[k],
         \A k \in n + 1 .. Len(q) : r[k + 1] = q[k]
  PROVE  Held(r, p) = Taken(run.net, r[n + 1].tr, p) + Held(q, p)
  <1> DEFINE f == [k \in 1 .. Len(q) |-> Taken(run.net, q[k].tr, p)]
             g == [k \in 1 .. Len(r) |-> Taken(run.net, r[k].tr, p)]
  <1>1. PICK L \in Nat : L = Len(q)
    BY LenProperties
  <1>2. n \in 0 .. L /\ Len(r) = L + 1
    BY <1>1
  <1>3. \A k \in 1 .. L + 1 : g[k] = Taken(run.net, r[k].tr, p) /\ g[k] \in Int
    <2>1. \A k \in 1 .. L + 1 : r[k].tr \in Transition
      <3>1. \A k \in 1 .. L + 1 : r[k] \in Pending
        BY <1>2, ElementOfSeq
      <3> QED
        BY <3>1 DEF Pending
    <2> QED
      BY <1>2, <2>1, DeltaType
  <1>4. \A k \in 1 .. n : f[k] = g[k]
    <2>1. \A k \in 1 .. n : k \in 1 .. L /\ k \in 1 .. L + 1
      BY <1>2
    <2> QED
      BY <1>1, <1>2, <2>1
  <1>5. \A k \in n + 1 .. L : f[k] = g[k + 1]
    <2>1. \A k \in n + 1 .. L : k \in 1 .. L /\ k + 1 \in 1 .. L + 1
      BY <1>2
    <2> QED
      BY <1>1, <1>2, <2>1
  <1>6. Held(r, p) = SumFunctionOnSet(g, 1 .. L + 1) /\ Held(q, p) = SumFunctionOnSet(f, 1 .. L)
    BY <1>1, <1>2 DEF Held
  <1>7. n + 1 \in 1 .. L + 1
    BY <1>2
  <1> HIDE DEF f, g
  <1>8. SumFunctionOnSet(g, 1 .. L + 1) = g[n + 1] + SumFunctionOnSet(f, 1 .. L)
    BY <1>2, <1>3, <1>4, <1>5, SumInsert
  <1> QED
    BY <1>3, <1>6, <1>7, <1>8

\* A firing that starts holds what it took.
LEMMA HeldMore ==
  ASSUME TypeOK, NEW f \in Pending, NEW p \in Place
  PROVE  Held(Schedule(queue, f), p) = Taken(run.net, f.tr, p) + Held(queue, p)
  <1>1. queue \in Seq(Pending)
    BY DEF TypeOK
  <1> DEFINE n == Before(queue, f)
             r == Schedule(queue, f)
  <1>2. /\ n \in 0 .. Len(queue)
        /\ r \in Seq(Pending) /\ Len(r) = Len(queue) + 1
        /\ \A k \in 1 .. n : r[k] = queue[k]
        /\ r[n + 1] = f
        /\ \A k \in n + 1 .. Len(queue) : r[k + 1] = queue[k]
    BY <1>1, ScheduleIs
  <1> HIDE DEF n, r
  <1>3. Held(r, p) = Taken(run.net, r[n + 1].tr, p) + Held(queue, p)
    BY <1>1, <1>2, HeldInsert
  <1> QED
    BY <1>2, <1>3 DEF r

\* A firing that lands no longer holds what it took.
LEMMA HeldLess ==
  ASSUME TypeOK, queue # <<>>, NEW p \in Place
  PROVE  Held(queue, p) = Taken(run.net, Head(queue).tr, p) + Held(Tail(queue), p)
  <1> DEFINE q == Tail(queue)
  <1>1. /\ q \in Seq(Pending) /\ Len(queue) = Len(q) + 1
        /\ \A k \in 1 .. Len(q) : queue[k + 1] = q[k]
    BY FirstDue
  <1> HIDE DEF q
  <1>2. Len(q) \in Nat /\ queue \in Seq(Pending)
    BY <1>1, LenProperties DEF TypeOK
  <1>3. 0 \in 0 .. Len(q) /\ \A k \in 1 .. 0 : queue[k] = q[k]
    BY <1>2
  <1>4. \A k \in 0 + 1 .. Len(q) : queue[k + 1] = q[k]
    BY <1>1
  <1>5. Held(queue, p) = Taken(run.net, queue[0 + 1].tr, p) + Held(q, p)
    BY <1>1, <1>2, <1>3, <1>4, HeldInsert
  <1> QED
    BY <1>5, FirstDue DEF q

-----------------------------------------------------------------------------
(* Types and tokens are kept by every step. *)

Books == TypeOK /\ Tokens

\* The books balance at first.
LEMMA InitBooks == Init => Books
  <1> SUFFICES ASSUME Init PROVE Books
    OBVIOUS
  <1> USE DEF Init
  <1>1. run.opening \in [Place -> Int] /\ 1 \in DOMAIN run.ends
    <2>1. run.opening \in Marking /\ Len(run.ends) \in Nat \ {0} /\ DOMAIN run.ends = 1 .. Len(run.ends)
      BY RunType
    <2>2. run.opening \in [Place -> Count]
      BY <2>1 DEF Marking
    <2>3. 1 \in DOMAIN run.ends
      BY <2>1
    <2> QED
      BY <2>2, <2>3, CountInt
  <1>2. queue \in Seq(Pending) /\ Len(queue) = 0
    OBVIOUS
  <1>3. TypeOK
    <2>1. fired \in [Transition -> Nat] /\ next \in 1 .. Len(Declared) + 1
      BY DeclaredType
    <2>2. seg \in DOMAIN run.ends /\ mk \in [Place -> Int] /\ queue \in Seq(Pending)
      BY <1>1, <1>2
    <2>3. clock \in Int /\ steps \in Nat /\ pc \in {"start", "race", "over"}
      OBVIOUS
    <2>4. started \in Nat /\ run \in Runs
      OBVIOUS
    <2>5. again \in BOOLEAN /\ cut \in BOOLEAN
      BY Zenon
    <2> HIDE DEF Init
    <2> QED
      BY <2>1, <2>2, <2>3, <2>4, <2>5 DEF TypeOK
  <1>4. ASSUME NEW p \in Place PROVE Gained(fired, p) = 0 /\ Held(queue, p) = 0
    <2> DEFINE f == [t \in Transition |-> fired[t] * Delta(t, p)]
    <2>1. \A t \in Transition : f[t] = 0
      <3>1. \A t \in Transition : Delta(t, p) \in Int
        BY <1>3, DeltaType
      <3>2. \A x \in Int : 0 * x = 0
        OBVIOUS
      <3> QED
        BY <3>1, <3>2
    <2>2. Gained(fired, p) = SumFunctionOnSet(f, Transition)
      BY DEF Gained
    <2>3. IsFiniteSet(Transition)
      BY NodeAssumption
    <2> HIDE DEF f
    <2>4. SumFunctionOnSet(f, Transition) = 0
      BY <2>1, <2>3, SumZero
    <2>5. 1 .. Len(queue) = {}
      BY <1>2
    <2>6. Held(queue, p) = 0
      BY <2>5, SumEmpty DEF Held
    <2> QED
      BY <2>2, <2>4, <2>6
  <1>5. Tokens
    BY <1>1, <1>4 DEF Tokens
  <1> QED
    BY <1>3, <1>5 DEF Books

\* A start keeps the books.
LEMMA StartBooks == ASSUME Books, NEW i \in DOMAIN Declared, Start(i) PROVE Books'
  <1> DEFINE t == Declared[i]
  <1>1. /\ t \in Transition /\ i \in 1 .. Len(Declared) /\ Len(Declared) \in Nat
    BY DeclaredType
  <1>2. /\ TypeOK /\ run \in Runs /\ run.delay[t] \in Nat /\ queue \in Seq(Pending)
        /\ clock \in Int /\ started \in Nat /\ mk \in [Place -> Int]
    BY <1>1, RunType DEF Books, TypeOK
  <1>3. Flight(i) \in Pending /\ Flight(i).tr = t
    BY <1>1, <1>2 DEF Flight, Pending
  <1>4. /\ queue' = Schedule(queue, Flight(i))
        /\ mk' = [p \in Place |-> mk[p] - Taken(run.net, t, p)]
        /\ started' = started + 1 /\ next' = i + 1 /\ again' = TRUE
        /\ UNCHANGED <<run, seg, clock, pc, steps, fired, cut>>
    BY DEF Start, Take, Flight
  <1>5. queue' \in Seq(Pending)
    BY <1>2, <1>3, <1>4, ScheduleIs
  <1>6. \A p \in Place : Taken(run.net, t, p) \in Int /\ mk[p] \in Int
    BY <1>1, <1>2, DeltaType
  <1>7. mk' \in [Place -> Int]
    BY <1>4, <1>6
  <1>8. TypeOK'
    BY <1>1, <1>2, <1>4, <1>5, <1>7 DEF Books, TypeOK
  <1> HIDE DEF t
  <1>9. ASSUME NEW p \in Place
        PROVE  mk'[p] = run.opening[p] + Gained(fired', p) - Held(queue', p)
    <2>1. Held(queue', p) = Taken(run.net, t, p) + Held(queue, p)
      BY <1>2, <1>3, <1>4, HeldMore
    <2>2. Held(queue, p) \in Int /\ run.opening[p] \in Int /\ Gained(fired, p) \in Int
      BY <1>1, <1>2, HeldType, GainedOne, RunType, CountInt DEF Marking
    <2>3. mk[p] = run.opening[p] + Gained(fired, p) - Held(queue, p)
      BY DEF Books, Tokens
    <2>4. mk'[p] = mk[p] - Taken(run.net, t, p) /\ fired' = fired
      BY <1>4
    <2> QED
      BY <1>6, <2>1, <2>2, <2>3, <2>4
  <1>10. Tokens'
    BY <1>4, <1>9, TokensStep
  <1> QED
    BY <1>8, <1>10 DEF Books

\* Where the head of the loop leaves the state.
LEMMA LoopType ==
  ASSUME TypeOK, NEW c \in Int, Loop(c, steps)
  PROVE  /\ clock' \in Int /\ pc' \in {"start", "over"} /\ steps' \in Nat
         /\ next' = 1 /\ again' = FALSE /\ cut' \in BOOLEAN
  BY DEF Loop, TypeOK

\* A landing keeps the books.
LEMMA CompleteBooks == ASSUME Books, Complete PROVE Books'
  <1> DEFINE t == Head(queue).tr
  <1>1. /\ TypeOK /\ queue # <<>> /\ queue \in Seq(Pending) /\ mk \in [Place -> Int]
        /\ run \in Runs /\ fired \in [Transition -> Nat]
    BY DEF Complete, Books, TypeOK
  <1>2. t \in Transition /\ Head(queue).at \in Int /\ Tail(queue) \in Seq(Pending)
    BY <1>1, FirstDue DEF Pending
  <1>3. /\ mk' = [p \in Place |-> mk[p] + Given(run.net, t, p)]
        /\ fired' = [fired EXCEPT ![t] = @ + 1]
        /\ queue' = Tail(queue)
        /\ Loop(Head(queue).at, steps)
        /\ UNCHANGED <<run, seg, started>>
    BY DEF Complete
  <1> HIDE DEF t
  <1>4. \A p \in Place : /\ Taken(run.net, t, p) \in Int /\ Given(run.net, t, p) \in Int
                         /\ mk[p] \in Int
                         /\ Delta(t, p) = Given(run.net, t, p) - Taken(run.net, t, p)
    BY <1>1, <1>2, DeltaType
  <1>5. mk' \in [Place -> Int]
    BY <1>3, <1>4
  <1>6. TypeOK'
    <2>1. /\ clock' \in Int /\ pc' \in {"start", "over"} /\ steps' \in Nat
          /\ next' = 1 /\ again' = FALSE /\ cut' \in BOOLEAN
      BY <1>1, <1>2, <1>3, LoopType
    <2>2. next' \in 1 .. Len(Declared) + 1
      BY <2>1, DeclaredType
    <2>3. fired' \in [Transition -> Nat]
      BY <1>1, <1>2, <1>3
    <2> QED
      BY <1>1, <1>2, <1>3, <1>5, <2>1, <2>2, <2>3 DEF TypeOK
  <1>7. ASSUME NEW p \in Place
        PROVE  mk'[p] = run.opening[p] + Gained(fired', p) - Held(queue', p)
    <2>1. Held(queue, p) = Taken(run.net, t, p) + Held(queue', p)
      BY <1>1, <1>3, HeldLess DEF t
    <2>2. Held(queue', p) \in Int /\ run.opening[p] \in Int /\ Gained(fired, p) \in Int
      BY <1>1, <1>2, <1>3, HeldType, GainedOne, RunType, CountInt DEF Marking
    <2>3. mk[p] = run.opening[p] + Gained(fired, p) - Held(queue, p)
      BY DEF Books, Tokens
    <2>4. mk'[p] = mk[p] + Given(run.net, t, p)
      BY <1>3
    <2>5. Gained(fired', p) = Gained(fired, p) + Delta(t, p)
      BY <1>1, <1>2, <1>3, GainedOne
    <2> QED
      BY <1>4, <2>1, <2>2, <2>3, <2>4, <2>5
  <1>8. Tokens'
    BY <1>3, <1>7, TokensStep
  <1> QED
    BY <1>6, <1>8 DEF Books

\* A firing drawn in the race keeps the books.
LEMMA DrawBooks ==
  ASSUME Books, NEW t \in Transition, NEW c \in clock .. Span, Draw(t, c)
  PROVE  Books'
  <1>1. /\ TypeOK /\ queue \in Seq(Pending) /\ mk \in [Place -> Int] /\ c \in Int
        /\ run \in Runs /\ fired \in [Transition -> Nat]
    BY SpanType DEF Books, TypeOK
  <1>2. /\ mk' = [p \in Place |-> mk[p] + Delta(t, p)]
        /\ fired' = [fired EXCEPT ![t] = @ + 1]
        /\ Loop(c, steps)
        /\ UNCHANGED <<run, seg, queue, started>>
    BY DEF Draw
  <1>3. \A p \in Place : mk[p] \in Int /\ Delta(t, p) \in Int
    BY <1>1, DeltaType
  <1>4. mk' \in [Place -> Int]
    BY <1>2, <1>3
  <1>5. TypeOK'
    <2>1. /\ clock' \in Int /\ pc' \in {"start", "over"} /\ steps' \in Nat
          /\ next' = 1 /\ again' = FALSE /\ cut' \in BOOLEAN
      BY <1>1, <1>2, LoopType
    <2>2. next' \in 1 .. Len(Declared) + 1
      BY <2>1, DeclaredType
    <2>3. fired' \in [Transition -> Nat]
      BY <1>1, <1>2
    <2> QED
      BY <1>1, <1>2, <1>4, <2>1, <2>2, <2>3 DEF TypeOK
  <1>6. ASSUME NEW p \in Place
        PROVE  mk'[p] = run.opening[p] + Gained(fired', p) - Held(queue', p)
    <2>1. Held(queue, p) \in Int /\ run.opening[p] \in Int /\ Gained(fired, p) \in Int
      BY <1>1, HeldType, GainedOne, RunType, CountInt DEF Marking
    <2>2. mk[p] = run.opening[p] + Gained(fired, p) - Held(queue, p)
      BY DEF Books, Tokens
    <2>3. mk'[p] = mk[p] + Delta(t, p) /\ queue' = queue
      BY <1>2
    <2>4. Gained(fired', p) = Gained(fired, p) + Delta(t, p)
      BY <1>1, <1>2, GainedOne
    <2> QED
      BY <1>3, <2>1, <2>2, <2>3, <2>4
  <1>7. Tokens'
    BY <1>2, <1>6, TokensStep
  <1> QED
    BY <1>5, <1>7 DEF Books

\* The firings in flight, each on the next segment's clock.
LEMMA RebasedIs ==
  ASSUME TypeOK, NextSegment
  PROVE  /\ queue' \in Seq(Pending) /\ Len(queue') = Len(queue)
         /\ \A k \in 1 .. Len(queue) : queue'[k] = [queue[k] EXCEPT !.at = @ - Span]
         /\ seg' = seg + 1 /\ seg' \in DOMAIN run.ends
  <1>1. /\ DOMAIN queue = 1 .. Len(queue) /\ Len(queue) \in Nat
        /\ \A k \in 1 .. Len(queue) : queue[k] \in Pending
    BY LenProperties, ElementOfSeq DEF TypeOK
  <1>2. queue' = [k \in 1 .. Len(queue) |-> [queue[k] EXCEPT !.at = @ - Span]]
    BY <1>1 DEF NextSegment
  <1>3. \A k \in 1 .. Len(queue) : [queue[k] EXCEPT !.at = @ - Span] \in Pending
    BY <1>1, SpanType DEF Pending
  <1>4. queue' \in [1 .. Len(queue) -> Pending]
    BY <1>2, <1>3
  <1>5. queue' \in Seq(Pending) /\ Len(queue') = Len(queue)
    <2>1. queue' \in Seq(Pending)
      BY <1>1, <1>4, SeqDef
    <2>2. 1 .. Len(queue') = 1 .. Len(queue) /\ Len(queue') \in Nat
      BY <1>4, <2>1, LenProperties
    <2> QED
      BY <1>1, <2>1, <2>2
  <1>6. seg' = seg + 1 /\ seg + 1 \in 1 .. Len(run.ends) /\ DOMAIN run.ends = 1 .. Len(run.ends)
    <2>1. /\ seg \in 1 .. Len(run.ends) /\ Len(run.ends) \in Nat
          /\ DOMAIN run.ends = 1 .. Len(run.ends)
      BY RunType DEF TypeOK
    <2> QED
      BY <2>1 DEF NextSegment
  <1> QED
    BY <1>2, <1>5, <1>6

\* The boundary of two segments keeps the books.
LEMMA NextSegmentBooks == ASSUME Books, NextSegment PROVE Books'
  <1>1. TypeOK
    BY DEF Books
  <1>2. /\ queue' \in Seq(Pending) /\ Len(queue') = Len(queue)
        /\ \A k \in 1 .. Len(queue) : queue'[k] = [queue[k] EXCEPT !.at = @ - Span]
        /\ seg' \in DOMAIN run.ends
    BY <1>1, RebasedIs
  <1>3. /\ clock' = 0 /\ pc' = "start" /\ next' = 1 /\ again' = FALSE /\ steps' = 1
        /\ UNCHANGED <<run, mk, fired, started, cut>>
    BY DEF NextSegment
  <1>4. TypeOK'
    <2>1. next' \in 1 .. Len(Declared) + 1
      BY <1>3, DeclaredType
    <2>2. clock' \in Int /\ steps' \in Nat /\ pc' \in {"start", "race", "over"}
      BY <1>3
    <2>3. again' \in BOOLEAN
      BY <1>3, Zenon
    <2>4. run' \in Runs /\ seg' \in DOMAIN run'.ends
      BY <1>1, <1>2, <1>3 DEF TypeOK
    <2>5. mk' \in [Place -> Int] /\ fired' \in [Transition -> Nat] /\ started' \in Nat /\ cut' \in BOOLEAN
      BY <1>1, <1>3 DEF TypeOK
    <2> QED
      BY <1>2, <2>1, <2>2, <2>3, <2>4, <2>5 DEF TypeOK
  <1>5. \A k \in 1 .. Len(queue) : queue'[k].tr = queue[k].tr
    <2>1. \A k \in 1 .. Len(queue) : queue[k] \in Pending
      BY <1>1, ElementOfSeq DEF TypeOK
    <2> QED
      BY <1>2, <2>1 DEF Pending
  <1>6. \A p \in Place : Held(queue', p) = Held(queue, p)
    <2> TAKE p \in Place
    <2>1. [k \in 1 .. Len(queue) |-> Taken(run.net, queue'[k].tr, p)]
            = [k \in 1 .. Len(queue) |-> Taken(run.net, queue[k].tr, p)]
      BY <1>5
    <2> QED
      BY <1>2, <2>1 DEF Held
  <1>7. Tokens'
    BY <1>3, <1>6, TokensStep DEF Books, Tokens
  <1> QED
    BY <1>4, <1>7 DEF Books

\* A step that leaves the tokens alone.
LEMMA QuietBooks == ASSUME Books, EndPass \/ Break \/ UNCHANGED vars PROVE Books'
  <1>1. UNCHANGED <<run, seg, clock, mk, queue, steps, fired, started, cut>>
    BY DEF EndPass, Break, vars
  <1>2. TypeOK'
    <2>1. /\ pc' \in {"start", "race", "over"} /\ again' \in BOOLEAN
          /\ next' \in 1 .. Len(Declared) + 1
      BY DeclaredType DEF Books, TypeOK, EndPass, Break, vars
    <2> QED
      BY <1>1, <2>1 DEF Books, TypeOK
  <1>3. Tokens'
    BY <1>1, TokensStep DEF Books, Tokens
  <1> QED
    BY <1>2, <1>3 DEF Books

\* Every step keeps the books.
LEMMA NextBooks == Books /\ [Next]_vars => Books'
  BY StartBooks, CompleteBooks, DrawBooks, NextSegmentBooks, QuietBooks DEF Next

\* The invariant of the tokens holds at every state of a run.
THEOREM BooksBalance == Spec => []Books
  BY InitBooks, NextBooks, PTL DEF Spec

\* A total that does not add up is what the firings in flight hold, at any time
\* and across segments (engine.rs, ssa: starts take, completions give).
THEOREM NothingLost == Spec => []Accounted
  <1>1. Books => Accounted
    <2> SUFFICES ASSUME Books PROVE Accounted
      OBVIOUS
    <2>1. DOMAIN queue = 1 .. Len(queue)
      BY LenProperties DEF Books, TypeOK
    <2> QED
      BY <2>1 DEF Books, Tokens, Accounted, Gained, Held, SumFunction
  <1> QED
    BY <1>1, BooksBalance, PTL

-----------------------------------------------------------------------------
(* The order of the queue, and time.                                        *)

\* Nothing with a delay could start.
Idle == \A i \in DOMAIN Declared : ~ Startable(i)

\* The firings in flight stand by time, those due together as they started.
Ordered ==
  /\ \A k \in DOMAIN queue : queue[k].no < started
  /\ \A j, k \in DOMAIN queue :
       j < k => \/ queue[j].at < queue[k].at
                \/ queue[j].at = queue[k].at /\ queue[j].no < queue[k].no

\* Until a segment runs out of steps, its clock stays within it and passes over
\* nothing that is due.
InTime ==
  ~ cut => /\ 0 <= clock /\ clock <= Span
           /\ \A k \in DOMAIN queue : clock <= queue[k].at

\* A pass that has started nothing is at its beginning; there is a race only
\* when nothing could start; and a segment is over at its end, or when nothing
\* happens before it.
Calm ==
  /\ pc = "start" /\ ~ again => next = 1
  /\ pc = "race" => Idle
  /\ pc = "over" /\ ~ cut => \/ clock = Span
                             \/ Idle /\ \A k \in DOMAIN queue : queue[k].at > Span

IInv == Books /\ Ordered /\ InTime /\ Calm

\* What the type of the queue says, firing by firing.
LEMMA QueueType ==
  ASSUME TypeOK
  PROVE  /\ DOMAIN queue = 1 .. Len(queue) /\ Len(queue) \in Nat
         /\ \A k \in DOMAIN queue : /\ queue[k].at \in Int /\ queue[k].no \in Nat
                                    /\ queue[k].tr \in Transition
  <1>1. DOMAIN queue = 1 .. Len(queue) /\ Len(queue) \in Nat
    BY LenProperties DEF TypeOK
  <1>2. \A k \in DOMAIN queue : queue[k] \in Pending
    BY <1>1, ElementOfSeq DEF TypeOK
  <1> QED
    BY <1>1, <1>2 DEF Pending

\* In a sorted queue those due no later than f come first, and Before counts
\* them.
LEMMA BeforeIs ==
  ASSUME TypeOK, Ordered, NEW f \in Pending
  PROVE  \A k \in 1 .. Len(queue) : k <= Before(queue, f) <=> queue[k].at <= f.at
  <1> DEFINE L == Len(queue)
             K == {k \in 1 .. L : queue[k].at <= f.at}
             T == {k \in Nat : k >= 1 /\ k <= L + 1 /\ k \notin K}
  <1>1. L \in Nat /\ DOMAIN queue = 1 .. L /\ f.at \in Int /\ \A k \in 1 .. L : queue[k].at \in Int
    BY QueueType DEF Pending
  <1>2. \A j, k \in 1 .. L : j < k => queue[j].at <= queue[k].at
    BY <1>1 DEF Ordered
  <1>3. L + 1 \in T /\ T \in SUBSET Nat
    BY <1>1
  <1>4. Before(queue, f) = Cardinality(K)
    BY <1>1 DEF Before
  <1>5. \A j, k \in 1 .. L : j < k /\ k \in K => j \in K
    BY <1>1, <1>2
  <1>6. PICK m \in T : \A k \in T : m <= k
    BY <1>3, LeastOf
  <1>7. m \in Nat /\ m >= 1 /\ m <= L + 1 /\ m \notin K
    OBVIOUS
  <1>8. \A k \in 1 .. L : k \in K <=> k < m
    <2> SUFFICES ASSUME NEW k \in 1 .. L PROVE k \in K <=> k < m
      OBVIOUS
    <2>1. k < m => k \in K
      <3>1. k \in Nat /\ k >= 1 /\ k <= L + 1
        BY <1>1
      <3> QED
        BY <1>6, <1>7, <3>1
    <2>2. k \in K /\ k > m => m \in K
      <3>1. k > m => m \in 1 .. L
        BY <1>1, <1>7
      <3> QED
        BY <1>5, <1>7, <3>1
    <2> HIDE DEF K, T
    <2>3. k < m \/ k = m \/ k > m
      BY <1>1, <1>7
    <2> QED
      BY <1>7, <2>1, <2>2, <2>3
  <1>9. K = 1 .. m - 1
    <2>1. \A k \in 1 .. m - 1 : k \in 1 .. L /\ k < m
      BY <1>1, <1>7
    <2>2. \A k \in K : k \in 1 .. L
      OBVIOUS
    <2>3. \A k \in 1 .. L : k < m => k \in 1 .. m - 1
      BY <1>1, <1>7
    <2> HIDE DEF K, T
    <2> QED
      BY <1>8, <2>1, <2>2, <2>3
  <1>10. Cardinality(1 .. m - 1) = m - 1
    BY <1>7, FS_Interval
  <1>11. Before(queue, f) = m - 1
    BY <1>4, <1>9, <1>10
  <1>12. \A k \in 1 .. L : k <= m - 1 <=> k < m
    BY <1>7
  <1>13. \A k \in 1 .. L : k \in K <=> queue[k].at <= f.at
    OBVIOUS
  <1> HIDE DEF K, T
  <1> QED
    BY <1>8, <1>11, <1>12, <1>13

\* What a start knows.
LEMMA StartFacts ==
  ASSUME Books, Ordered, NEW i \in DOMAIN Declared, Start(i)
  PROVE  LET n == Before(queue, Flight(i))
         IN  /\ Flight(i) \in Pending /\ Flight(i).no = started /\ started \in Nat
             /\ Flight(i).tr = Declared[i] /\ Flight(i).at = clock + run.delay[Declared[i]]
             /\ Declared[i] \in Transition /\ run.delay[Declared[i]] \in Nat /\ clock \in Int
             /\ n \in 0 .. Len(queue) /\ Len(queue) \in Nat
             /\ queue' \in Seq(Pending) /\ Len(queue') = Len(queue) + 1
             /\ \A k \in 1 .. n : queue'[k] = queue[k] /\ queue[k].at <= Flight(i).at
             /\ queue'[n + 1] = Flight(i)
             /\ \A k \in n + 1 .. Len(queue) :
                  queue'[k + 1] = queue[k] /\ queue[k].at > Flight(i).at
  <1> DEFINE f == Flight(i)
             n == Before(queue, f)
  <1>1. /\ TypeOK /\ Declared[i] \in Transition /\ clock \in Int /\ started \in Nat
        /\ run \in Runs /\ queue \in Seq(Pending)
    BY DeclaredType DEF Books, TypeOK
  <1>2. run.delay[Declared[i]] \in Nat
    BY <1>1, RunType
  <1>3. /\ f \in Pending /\ f.no = started
        /\ f.tr = Declared[i] /\ f.at = clock + run.delay[Declared[i]]
    BY <1>1, <1>2 DEF Flight, Pending
  <1>4. queue' = Schedule(queue, f)
    BY DEF Start, Flight
  <1> HIDE DEF f
  <1>5. /\ n \in 0 .. Len(queue)
        /\ queue' \in Seq(Pending) /\ Len(queue') = Len(queue) + 1
        /\ \A k \in 1 .. n : queue'[k] = queue[k]
        /\ queue'[n + 1] = f
        /\ \A k \in n + 1 .. Len(queue) : queue'[k + 1] = queue[k]
    BY <1>1, <1>3, <1>4, ScheduleIs
  <1>6. \A k \in 1 .. Len(queue) : k <= n <=> queue[k].at <= f.at
    BY <1>1, <1>3, BeforeIs
  <1>7. /\ Len(queue) \in Nat /\ f.at \in Int
        /\ \A k \in 1 .. Len(queue) : queue[k].at \in Int
    BY <1>1, <1>3, QueueType DEF Pending
  <1> HIDE DEF n
  <1>8. \A k \in 1 .. n : k \in 1 .. Len(queue) /\ k <= n
    BY <1>5, <1>7
  <1>9. \A k \in n + 1 .. Len(queue) : k \in 1 .. Len(queue) /\ ~ (k <= n)
    BY <1>5, <1>7
  <1>10. \A k \in 1 .. n : queue'[k] = queue[k] /\ queue[k].at <= f.at
    BY <1>5, <1>6, <1>8
  <1>11. \A k \in n + 1 .. Len(queue) : queue'[k + 1] = queue[k] /\ queue[k].at > f.at
    <2> TAKE k \in n + 1 .. Len(queue)
    <2>1. ~ (queue[k].at <= f.at) /\ queue[k].at \in Int
      BY <1>6, <1>7, <1>9
    <2> QED
      BY <1>5, <1>7, <2>1
  <1> QED
    BY <1>1, <1>2, <1>3, <1>5, <1>7, <1>10, <1>11 DEF f, n

\* A start keeps the queue in order.
LEMMA StartOrdered ==
  ASSUME Books, Ordered, NEW i \in DOMAIN Declared, Start(i) PROVE Ordered'
  <1> DEFINE f == Flight(i)
             n == Before(queue, f)
             L == Len(queue)
  <1>1. /\ f \in Pending /\ f.no = started /\ started \in Nat
        /\ n \in 0 .. L /\ L \in Nat
        /\ queue' \in Seq(Pending) /\ Len(queue') = L + 1
        /\ \A k \in 1 .. n : queue'[k] = queue[k] /\ queue[k].at <= f.at
        /\ queue'[n + 1] = f
        /\ \A k \in n + 1 .. L : queue'[k + 1] = queue[k] /\ queue[k].at > f.at
    BY StartFacts
  <1>2. DOMAIN queue = 1 .. L /\ \A k \in 1 .. L : queue[k].at \in Int /\ queue[k].no \in Nat
    BY QueueType DEF Books
  <1>3. DOMAIN queue' = 1 .. L + 1
    BY <1>1
  <1>4. started' = started + 1
    BY DEF Start
  <1>5. f.at \in Int
    BY <1>1 DEF Pending
  <1> HIDE DEF f, n, L
  <1>6. \A k \in 1 .. L : queue[k].no < started
    BY <1>2 DEF Ordered
  <1>7. \A j, k \in 1 .. L : j < k => \/ queue[j].at < queue[k].at
                                      \/ queue[j].at = queue[k].at /\ queue[j].no < queue[k].no
    BY <1>2 DEF Ordered
  \* where a position of the new queue comes from
  <1>8. ASSUME NEW k \in 1 .. L + 1
        PROVE  \/ k \in 1 .. n
               \/ k = n + 1
               \/ k > n + 1 /\ k - 1 \in n + 1 .. L /\ k - 1 \in 1 .. L /\ (k - 1) + 1 = k
    BY <1>1
  <1>9. \A k \in 1 .. n : k \in 1 .. L
    BY <1>1
  <1>10. ASSUME NEW k \in 1 .. L + 1 PROVE queue'[k].no < started'
    <2>1. CASE k \in 1 .. n
      BY <1>1, <1>2, <1>4, <1>6, <1>9, <2>1
    <2>2. CASE k = n + 1
      BY <1>1, <1>4, <2>2
    <2>3. CASE k > n + 1 /\ k - 1 \in n + 1 .. L /\ k - 1 \in 1 .. L /\ (k - 1) + 1 = k
      <3>1. queue'[k] = queue[k - 1]
        BY <1>1, <2>3
      <3>2. queue[k - 1].no < started /\ queue[k - 1].no \in Nat
        BY <1>2, <1>6, <2>3
      <3> QED
        BY <1>1, <1>4, <3>1, <3>2
    <2> QED
      BY <1>8, <2>1, <2>2, <2>3
  <1>11. ASSUME NEW j \in 1 .. L + 1, NEW k \in 1 .. L + 1, j < k
         PROVE  \/ queue'[j].at < queue'[k].at
                \/ queue'[j].at = queue'[k].at /\ queue'[j].no < queue'[k].no
    <2>1. CASE k \in 1 .. n
      <3>1. j \in 1 .. n
        BY <1>1, <1>11, <2>1
      <3> QED
        BY <1>1, <1>7, <1>9, <1>11, <2>1, <3>1
    <2>2. CASE k = n + 1
      <3>1. j \in 1 .. n
        BY <1>1, <1>11, <2>2
      <3>2. /\ queue'[j] = queue[j] /\ queue[j].at <= f.at /\ queue[j].at \in Int
            /\ queue[j].no < started
        BY <1>1, <1>2, <1>6, <1>9, <3>1
      <3> QED
        BY <1>1, <1>5, <2>2, <3>2
    <2>3. CASE k > n + 1 /\ k - 1 \in n + 1 .. L /\ k - 1 \in 1 .. L /\ (k - 1) + 1 = k
      <3>1. queue'[k] = queue[k - 1] /\ queue[k - 1].at > f.at /\ queue[k - 1].at \in Int
        BY <1>1, <1>2, <2>3
      <3>2. CASE j \in 1 .. n
        <4>1. j < k - 1 /\ j \in 1 .. L
          BY <1>1, <1>9, <2>3, <3>2
        <4>2. queue'[j] = queue[j]
          BY <1>1, <3>2
        <4> QED
          BY <1>7, <2>3, <3>1, <4>1, <4>2
      <3>3. CASE j = n + 1
        BY <1>1, <1>5, <3>1, <3>3
      <3>4. CASE j > n + 1 /\ j - 1 \in n + 1 .. L /\ j - 1 \in 1 .. L /\ (j - 1) + 1 = j
        <4>1. queue'[j] = queue[j - 1]
          BY <1>1, <3>4
        <4>2. j - 1 < k - 1
          BY <1>1, <1>11
        <4> QED
          BY <1>7, <2>3, <3>1, <3>4, <4>1, <4>2
      <3> QED
        BY <1>8, <3>2, <3>3, <3>4
    <2> QED
      BY <1>8, <2>1, <2>2, <2>3
  <1> QED
    BY <1>3, <1>10, <1>11 DEF Ordered

\* The first due is due first, and what follows it keeps its order.
LEMMA LessOrdered ==
  ASSUME TypeOK, Ordered, queue # <<>>, queue' = Tail(queue), started' = started
  PROVE  /\ Ordered'
         /\ DOMAIN queue' = 1 .. Len(queue) - 1
         /\ \A k \in DOMAIN queue : Head(queue).at <= queue[k].at
         /\ \A k \in DOMAIN queue' : /\ k + 1 \in DOMAIN queue /\ queue'[k] = queue[k + 1]
                                     /\ Head(queue).at <= queue'[k].at
  <1>1. /\ Len(queue) \in Nat \ {0} /\ DOMAIN queue = 1 .. Len(queue)
        /\ Head(queue) = queue[1]
        /\ DOMAIN queue' = 1 .. Len(queue) - 1
        /\ \A k \in 1 .. Len(queue) - 1 : queue'[k] = queue[k + 1]
    BY FirstDue
  <1>2. \A k \in 1 .. Len(queue) : queue[k].at \in Int /\ queue[k].no \in Nat
    BY QueueType, <1>1
  <1>3. ASSUME NEW k \in 1 .. Len(queue) PROVE Head(queue).at <= queue[k].at
    <2>1. CASE k = 1
      BY <1>1, <1>2, <2>1
    <2>2. CASE k # 1
      <3>1. 1 \in DOMAIN queue /\ k \in DOMAIN queue /\ 1 < k
        BY <1>1, <2>2
      <3> QED
        BY <1>1, <1>2, <3>1 DEF Ordered
    <2> QED
      BY <2>1, <2>2
  <1>4. \A k \in 1 .. Len(queue) - 1 : k + 1 \in 1 .. Len(queue)
    BY <1>1
  <1>5. \A j, k \in 1 .. Len(queue) - 1 : j < k => j + 1 < k + 1
    BY <1>1
  <1>6. Ordered'
    <2>1. \A k \in DOMAIN queue' : queue'[k].no < started'
      BY <1>1, <1>4 DEF Ordered
    <2>2. ASSUME NEW j \in DOMAIN queue', NEW k \in DOMAIN queue', j < k
          PROVE  \/ queue'[j].at < queue'[k].at
                 \/ queue'[j].at = queue'[k].at /\ queue'[j].no < queue'[k].no
      <3>1. /\ j + 1 \in DOMAIN queue /\ k + 1 \in DOMAIN queue /\ j + 1 < k + 1
            /\ queue'[j] = queue[j + 1] /\ queue'[k] = queue[k + 1]
        BY <1>1, <1>4, <1>5, <2>2
      <3> QED
        BY <3>1 DEF Ordered
    <2> QED
      BY <2>1, <2>2 DEF Ordered
  <1> QED
    BY <1>1, <1>3, <1>4, <1>6

\* Re-basing the queue keeps its order.
LEMMA RebasedOrdered ==
  ASSUME TypeOK, Ordered, NextSegment
  PROVE  /\ Ordered'
         /\ DOMAIN queue' = DOMAIN queue
         /\ \A k \in DOMAIN queue : /\ queue'[k].at = queue[k].at - Span
                                    /\ queue'[k].no = queue[k].no /\ queue'[k].tr = queue[k].tr
  <1>1. /\ DOMAIN queue' = 1 .. Len(queue) /\ DOMAIN queue = 1 .. Len(queue)
        /\ \A k \in 1 .. Len(queue) : queue'[k] = [queue[k] EXCEPT !.at = @ - Span]
    BY RebasedIs, QueueType
  <1>2. \A k \in 1 .. Len(queue) : queue[k] \in Pending
    BY ElementOfSeq DEF TypeOK
  <1>3. Span \in Int /\ \A k \in 1 .. Len(queue) : queue[k].at \in Int
    BY <1>1, SpanType, QueueType
  <1>4. \A k \in DOMAIN queue : /\ queue'[k].at = queue[k].at - Span
                                /\ queue'[k].no = queue[k].no /\ queue'[k].tr = queue[k].tr
    BY <1>1, <1>2 DEF Pending
  <1>5. started' = started
    BY DEF NextSegment
  <1>6. \A x, y, z \in Int : (x < y <=> x - z < y - z) /\ (x = y <=> x - z = y - z)
    OBVIOUS
  <1>7. Ordered'
    <2>1. \A k \in DOMAIN queue' : queue'[k].no < started'
      BY <1>1, <1>4, <1>5 DEF Ordered
    <2>2. ASSUME NEW j \in DOMAIN queue', NEW k \in DOMAIN queue', j < k
          PROVE  \/ queue'[j].at < queue'[k].at
                 \/ queue'[j].at = queue'[k].at /\ queue'[j].no < queue'[k].no
      <3>1. /\ j \in DOMAIN queue /\ k \in DOMAIN queue
            /\ queue[j].at \in Int /\ queue[k].at \in Int
        BY <1>1, <1>3
      <3>2. \/ queue[j].at < queue[k].at
            \/ queue[j].at = queue[k].at /\ queue[j].no < queue[k].no
        BY <2>2, <3>1 DEF Ordered
      <3> QED
        BY <1>3, <1>4, <1>6, <3>1, <3>2
    <2> QED
      BY <2>1, <2>2 DEF Ordered
  <1> QED
    BY <1>1, <1>4, <1>7

\* Segments follow each other, none of them empty.
LEMMA SegmentsType ==
  ASSUME NEW r \in Runs, NEW k \in DOMAIN r.ends
  PROVE  /\ Opens(r, k) \in Nat /\ r.ends[k] \in Nat /\ Opens(r, k) < r.ends[k]
         /\ k + 1 \in DOMAIN r.ends => Opens(r, k + 1) = r.ends[k]
  <1>1. /\ Len(r.ends) \in Nat \ {0} /\ DOMAIN r.ends = 1 .. Len(r.ends)
        /\ \A j \in DOMAIN r.ends : r.ends[j] \in Nat
    BY RunType
  <1>2. r.ends[k] > IF k = 1 THEN 0 ELSE r.ends[k - 1]
    BY RunsAssumption DEF Run
  <1>3. Opens(r, k) = IF k = 1 THEN 0 ELSE r.ends[k - 1]
    BY DEF Opens
  <1>4. k # 1 => k - 1 \in DOMAIN r.ends
    BY <1>1
  <1>5. k + 1 # 1 /\ (k + 1) - 1 = k
    BY <1>1
  <1>6. Opens(r, k + 1) = r.ends[k]
    BY <1>5 DEF Opens
  <1>7. Opens(r, k) \in Nat
    BY <1>1, <1>3, <1>4
  <1>8. Opens(r, k) < r.ends[k]
    BY <1>1, <1>2, <1>3, <1>7
  <1> QED
    BY <1>1, <1>6, <1>7, <1>8

\* No segment ends after the horizon.
LEMMA EndsByHorizon ==
  ASSUME NEW r \in Runs
  PROVE  \A k \in DOMAIN r.ends : r.ends[k] <= Horizon(r)
  <1> DEFINE L == Len(r.ends)
             T == {n \in Nat : n < L => r.ends[L - n] <= Horizon(r)}
  <1>1. L \in Nat \ {0} /\ DOMAIN r.ends = 1 .. L /\ \A j \in 1 .. L : r.ends[j] \in Nat
    BY RunType
  <1>2. Horizon(r) = r.ends[L] /\ Horizon(r) \in Nat
    BY <1>1 DEF Horizon
  <1> HIDE DEF L
  <1>3. 0 \in T
    BY <1>1, <1>2
  <1>4. ASSUME NEW n \in T PROVE n + 1 \in T
    <2> SUFFICES ASSUME n + 1 < L PROVE r.ends[L - (n + 1)] <= Horizon(r)
      OBVIOUS
    <2>1. r.ends[L - n] <= Horizon(r)
      BY <1>1
    <2>2. L - n \in 1 .. L /\ L - n # 1 /\ (L - n) - 1 = L - (n + 1) /\ L - (n + 1) \in 1 .. L
      BY <1>1
    <2>3. r.ends[L - n] > r.ends[L - (n + 1)]
      <3>1. r.ends[L - n] > IF L - n = 1 THEN 0 ELSE r.ends[(L - n) - 1]
        BY <1>1, <2>2, RunsAssumption DEF Run
      <3> QED
        BY <2>2, <3>1
    <2> QED
      BY <1>1, <1>2, <2>1, <2>2, <2>3
  <1>5. T \in SUBSET Nat /\ \A n \in T : n + 1 \in T
    BY <1>4
  <1> HIDE DEF T
  <1>6. T = Nat
    BY <1>3, <1>5, Induct
  <1>7. ASSUME NEW k \in 1 .. L PROVE r.ends[k] <= Horizon(r)
    <2>1. L - k \in Nat /\ L - k < L /\ L - (L - k) = k
      BY <1>1
    <2>2. L - k \in T
      BY <1>6, <2>1
    <2> QED
      BY <2>1, <2>2 DEF T
  <1> QED
    BY <1>1, <1>7

-----------------------------------------------------------------------------
(* Order, time and calm are kept by every step. *)

\* The invariant holds at first.
LEMMA InitIInv == Init => IInv
  <1> SUFFICES ASSUME Init PROVE IInv
    OBVIOUS
  <1>1. Books
    BY InitBooks
  <1>2. DOMAIN queue = {}
    BY DEF Init
  <1>3. Ordered
    BY <1>2 DEF Ordered
  <1>4. clock = 0 /\ Span >= 0
    <2>1. run \in Runs /\ seg \in DOMAIN run.ends /\ TypeOK
      BY <1>1 DEF Books, TypeOK
    <2>2. Opens(run, seg) \in Nat /\ run.ends[seg] \in Nat /\ Opens(run, seg) < run.ends[seg]
      BY <2>1, SegmentsType
    <2> QED
      BY <2>2 DEF Init, Span
  <1>5. InTime
    BY <1>2, <1>4 DEF InTime
  <1>6. Calm
    BY DEF Init, Calm
  <1> QED
    BY <1>1, <1>3, <1>5, <1>6 DEF IInv

\* A start keeps the invariant.
LEMMA StartIInv == ASSUME IInv, NEW i \in DOMAIN Declared, Start(i) PROVE IInv'
  <1> DEFINE f == Flight(i)
             n == Before(queue, f)
  <1>1. Books' /\ Ordered'
    BY StartBooks, StartOrdered DEF IInv
  <1>2. UNCHANGED <<run, seg, clock, pc, steps, fired, cut>> /\ again' = TRUE /\ pc = "start"
    BY DEF Start
  <1>3. Span' = Span
    BY <1>2 DEF Span
  <1>4. /\ n \in 0 .. Len(queue) /\ Len(queue) \in Nat
        /\ queue' \in Seq(Pending) /\ Len(queue') = Len(queue) + 1
        /\ \A k \in 1 .. n : queue'[k] = queue[k]
        /\ queue'[n + 1] = f
        /\ \A k \in n + 1 .. Len(queue) : queue'[k + 1] = queue[k]
        /\ f.at = clock + run.delay[Declared[i]]
        /\ run.delay[Declared[i]] \in Nat /\ clock \in Int
    BY StartFacts DEF IInv
  <1>5. DOMAIN queue = 1 .. Len(queue) /\ \A k \in 1 .. Len(queue) : queue[k].at \in Int
    BY QueueType DEF IInv, Books
  <1> HIDE DEF f, n
  <1>6. ASSUME ~ cut, NEW k \in DOMAIN queue' PROVE clock <= queue'[k].at
    <2>1. \A j \in 1 .. Len(queue) : clock <= queue[j].at
      BY <1>5, <1>6 DEF IInv, InTime
    <2>2. k \in 1 .. Len(queue) + 1
      BY <1>4
    <2>3. CASE k \in 1 .. n
      BY <1>4, <2>1, <2>3
    <2>4. CASE k = n + 1
      BY <1>4, <2>4
    <2>5. CASE k > n + 1
      <3>1. k - 1 \in n + 1 .. Len(queue) /\ k - 1 \in 1 .. Len(queue) /\ (k - 1) + 1 = k
        BY <1>4, <2>2, <2>5
      <3> QED
        BY <1>4, <2>1, <3>1
    <2> QED
      BY <1>4, <2>2, <2>3, <2>4, <2>5
  <1>7. InTime'
    BY <1>2, <1>3, <1>6 DEF IInv, InTime
  <1>8. Calm'
    BY <1>2 DEF Calm
  <1> QED
    BY <1>1, <1>7, <1>8 DEF IInv

\* The end of a pass keeps the invariant.
LEMMA EndPassIInv == ASSUME IInv, EndPass PROVE IInv'
  <1>1. /\ UNCHANGED <<run, seg, clock, mk, queue, steps, fired, started, cut>>
        /\ pc = "start" /\ next' = 1 /\ pc' = (IF again THEN "start" ELSE "race")
        /\ \A j \in next .. Len(Declared) : ~ Startable(j)
    BY DEF EndPass
  <1>2. Books'
    BY QuietBooks DEF IInv
  <1>3. Ordered' /\ InTime'
    BY <1>1 DEF IInv, Ordered, InTime, Span
  <1>4. Idle' <=> Idle
    BY <1>1 DEF Idle, Startable, CanFire, Gated, Delta
  <1>5. ~ again => Idle
    BY <1>1, DeclaredType DEF IInv, Calm, Idle
  <1>6. Calm'
    BY <1>1, <1>4, <1>5 DEF Calm
  <1> QED
    BY <1>2, <1>3, <1>6 DEF IInv

\* Where the head of the loop leaves time: at c, within the segment.
LEMMA LoopCalm ==
  ASSUME TypeOK, NEW c \in Int, Loop(c, steps), c <= Span, UNCHANGED <<run, seg>>
  PROVE  /\ Calm' /\ clock' = c /\ Span' = Span /\ (~ cut' => ~ cut)
  <1>1. Span \in Int
    BY SpanType
  <1>2. Span' = Span
    BY DEF Span
  <1>3. /\ clock' = c /\ next' = 1 /\ (cut' = (cut \/ (steps >= MaxSteps /\ c < Span)))
        /\ IF steps < MaxSteps /\ c < Span THEN pc' = "start" ELSE pc' = "over"
    BY DEF Loop
  <1>4. steps \in Nat /\ MaxSteps \in Nat
    BY MaxStepsAssumption DEF TypeOK
  <1>5. (steps >= MaxSteps <=> ~ (steps < MaxSteps)) /\ (c >= Span <=> ~ (c < Span))
    BY <1>1, <1>4
  <1>6. ~ cut' => ~ cut
    BY <1>3, Zenon
  <1>7. pc' = "start" \/ (pc' = "over" /\ (~ cut' => c >= Span))
    <2>1. CASE steps < MaxSteps /\ c < Span
      BY <1>3, <2>1
    <2>2. CASE ~ (steps < MaxSteps /\ c < Span)
      <3>1. pc' = "over"
        BY <1>3, <2>2
      <3>2. ~ cut' => ~ (steps >= MaxSteps /\ c < Span)
        BY <1>3, Zenon
      <3>3. ~ cut' => c >= Span
        BY <1>5, <2>2, <3>2
      <3> QED
        BY <3>1, <3>3
    <2> QED
      BY <2>1, <2>2
  <1>8. c >= Span => c = Span
    BY <1>1
  <1>9. Calm'
    BY <1>2, <1>3, <1>7, <1>8 DEF Calm
  <1> QED
    BY <1>2, <1>3, <1>6, <1>9

\* A landing keeps the invariant.
LEMMA CompleteIInv == ASSUME IInv, Complete PROVE IInv'
  <1> DEFINE c == Head(queue).at
  <1>1. /\ TypeOK /\ Ordered /\ queue # <<>> /\ c <= Span
        /\ queue' = Tail(queue) /\ started' = started /\ UNCHANGED <<run, seg>>
        /\ Loop(c, steps)
    BY DEF Complete, IInv, Books
  <1>2. Books'
    BY CompleteBooks DEF IInv
  <1>3. /\ Ordered' /\ \A k \in DOMAIN queue' : c <= queue'[k].at
    BY <1>1, LessOrdered
  <1>4. 1 \in DOMAIN queue /\ Head(queue) = queue[1] /\ c \in Int
    BY <1>1, FirstDue, QueueType
  <1>5. ~ cut => 0 <= clock /\ clock <= c
    BY <1>4 DEF IInv, InTime
  <1> HIDE DEF c
  <1>6. Calm' /\ clock' = c /\ Span' = Span /\ (~ cut' => ~ cut)
    BY <1>1, <1>4, LoopCalm
  <1>7. InTime'
    <2>1. clock \in Int
      BY <1>1 DEF TypeOK
    <2> QED
      BY <1>1, <1>3, <1>4, <1>5, <1>6, <2>1 DEF InTime
  <1> QED
    BY <1>2, <1>3, <1>6, <1>7 DEF IInv

\* A firing drawn in the race keeps the invariant.
LEMMA DrawIInv ==
  ASSUME IInv, NEW t \in Transition, NEW c \in clock .. Span, Draw(t, c)
  PROVE  IInv'
  <1>1. /\ TypeOK /\ UNCHANGED <<run, seg, queue, started>> /\ Loop(c, steps)
        /\ queue # <<>> => c < Head(queue).at
    BY DEF Draw, IInv, Books
  <1>2. clock \in Int /\ Span \in Int /\ c \in Int /\ clock <= c /\ c <= Span
    BY <1>1, SpanType DEF TypeOK
  <1>3. Books'
    BY DrawBooks DEF IInv
  <1>4. Ordered'
    BY <1>1 DEF IInv, Ordered
  <1>5. ASSUME NEW k \in DOMAIN queue PROVE c <= queue[k].at
    <2>1. queue # <<>>
      BY <1>5
    <2>2. Head(queue) = queue[1] /\ 1 \in DOMAIN queue /\ DOMAIN queue = 1 .. Len(queue)
          /\ Len(queue) \in Nat
      BY <1>1, <2>1, FirstDue
    <2>3. queue[1].at \in Int /\ queue[k].at \in Int
      BY <1>1, <2>2, QueueType
    <2>4. queue[1].at <= queue[k].at
      <3>1. CASE k = 1
        BY <2>3, <3>1
      <3>2. CASE k # 1
        <4>1. 1 < k
          BY <2>2, <3>2
        <4> QED
          BY <2>2, <2>3, <4>1 DEF IInv, Ordered
      <3> QED
        BY <3>1, <3>2
    <2> QED
      BY <1>1, <1>2, <2>1, <2>2, <2>3, <2>4
  <1>6. Calm' /\ clock' = c /\ Span' = Span /\ (~ cut' => ~ cut)
    BY <1>1, <1>2, LoopCalm
  <1>7. InTime'
    BY <1>1, <1>2, <1>5, <1>6 DEF IInv, InTime
  <1> QED
    BY <1>3, <1>4, <1>6, <1>7 DEF IInv

\* A segment that ends early keeps the invariant.
LEMMA BreakIInv == ASSUME IInv, Break PROVE IInv'
  <1>1. /\ UNCHANGED <<run, seg, clock, mk, queue, next, again, steps, fired, started, cut>>
        /\ pc = "race" /\ pc' = "over"
        /\ queue # <<>> => Head(queue).at > Span
    BY DEF Break
  <1>2. Books' /\ TypeOK
    BY QuietBooks DEF IInv, Books
  <1>3. Ordered' /\ InTime'
    BY <1>1 DEF IInv, Ordered, InTime, Span
  <1>4. Idle'
    <2>1. Idle
      BY <1>1 DEF IInv, Calm
    <2> QED
      BY <1>1, <2>1 DEF Idle, Startable, CanFire, Gated, Delta
  <1>5. ASSUME NEW k \in DOMAIN queue PROVE queue[k].at > Span
    <2>1. queue # <<>>
      BY <1>5
    <2>2. Head(queue) = queue[1] /\ 1 \in DOMAIN queue /\ DOMAIN queue = 1 .. Len(queue)
          /\ Len(queue) \in Nat
      BY <1>2, <2>1, FirstDue
    <2>3. queue[1].at \in Int /\ queue[k].at \in Int /\ Span \in Int
      BY <1>2, <2>2, QueueType, SpanType
    <2>4. CASE k = 1
      BY <1>1, <2>1, <2>2, <2>4
    <2>5. CASE k # 1
      <3>1. 1 < k
        BY <2>2, <2>5
      <3> QED
        BY <1>1, <2>1, <2>2, <2>3, <3>1 DEF IInv, Ordered
    <2> QED
      BY <2>4, <2>5
  <1>6. Span' = Span
    BY <1>1 DEF Span
  <1>7. Calm'
    BY <1>1, <1>4, <1>5, <1>6 DEF Calm
  <1> QED
    BY <1>2, <1>3, <1>7 DEF IInv

\* The boundary of two segments keeps the invariant.
LEMMA NextSegmentIInv == ASSUME IInv, NextSegment PROVE IInv'
  <1>1. /\ clock' = 0 /\ pc = "over" /\ pc' = "start" /\ next' = 1 /\ UNCHANGED <<run, mk, cut>>
    BY DEF NextSegment
  <1>2. Books' /\ TypeOK /\ TypeOK'
    BY NextSegmentBooks DEF IInv, Books
  <1>3. /\ Ordered' /\ DOMAIN queue' = DOMAIN queue
        /\ \A k \in DOMAIN queue : queue'[k].at = queue[k].at - Span
    BY <1>2, RebasedOrdered DEF IInv
  <1>4. \A k \in DOMAIN queue : queue[k].at \in Int
    BY <1>2, QueueType
  <1>5. clock \in Int /\ Span \in Int
    BY <1>2, SpanType DEF TypeOK
  <1>6. Span' >= 0
    <2>1. run \in Runs /\ seg' \in DOMAIN run.ends
      BY <1>1, <1>2 DEF TypeOK
    <2>2. /\ Opens(run, seg') \in Nat /\ run.ends[seg'] \in Nat
          /\ Opens(run, seg') < run.ends[seg']
      BY <2>1, SegmentsType
    <2>3. Span' = run.ends[seg'] - Opens(run, seg')
      BY <1>1 DEF Span, Opens
    <2> QED
      BY <2>2, <2>3
  <1>7. ASSUME ~ cut, NEW k \in DOMAIN queue PROVE queue[k].at >= Span
    <2>1. clock <= queue[k].at
      BY <1>7 DEF IInv, InTime
    <2>2. clock = Span \/ queue[k].at > Span
      BY <1>1, <1>7 DEF IInv, Calm
    <2> QED
      BY <1>4, <1>5, <2>1, <2>2
  <1>8. InTime'
    <2>1. ASSUME ~ cut, NEW k \in DOMAIN queue PROVE 0 <= queue'[k].at
      BY <1>3, <1>4, <1>5, <1>7, <2>1
    <2> QED
      BY <1>1, <1>3, <1>6, <2>1 DEF InTime
  <1>9. Calm'
    BY <1>1 DEF Calm
  <1> QED
    BY <1>2, <1>3, <1>8, <1>9 DEF IInv

\* A step that changes nothing keeps the invariant.
LEMMA StutterIInv == ASSUME IInv, UNCHANGED vars PROVE IInv'
  <1>1. Books'
    BY QuietBooks DEF IInv
  <1>2. Ordered' /\ InTime' /\ Calm'
    BY DEF IInv, Ordered, InTime, Calm, Idle, Startable, CanFire, Gated, Delta, Span, vars
  <1> QED
    BY <1>1, <1>2 DEF IInv

\* Every step keeps the invariant.
LEMMA NextIInv == IInv /\ [Next]_vars => IInv'
  BY StartIInv, EndPassIInv, CompleteIInv, DrawIInv, BreakIInv, NextSegmentIInv, StutterIInv DEF Next

\* The invariant of the engine: every reachable state satisfies it.
THEOREM Invariance == Spec => []IInv
  BY InitIInv, NextIInv, PTL DEF Spec

-----------------------------------------------------------------------------
(* The firing rule.  The engine adds counts as they are, the rule saturates *)
(* them: they agree where no count leaves the range of an i64.              *)

InRange ==
  /\ mk \in Marking
  /\ \A t \in Transition, p \in Place :
       /\ Taken(run.net, t, p) \in Count /\ Given(run.net, t, p) \in Count
       /\ mk[p] - Taken(run.net, t, p) \in Count /\ mk[p] + Given(run.net, t, p) \in Count

\* In range, a firing's effect is the plain difference, and nothing saturates.
LEMMA EffectExact ==
  ASSUME TypeOK, InRange, NEW t \in Transition, NEW p \in Place
  PROVE  /\ NetEffect(run.net, t, p) = Delta(t, p)
         /\ Clamp(mk[p] + Delta(t, p)) = mk[p] + Delta(t, p)
         /\ Clamp(Clamp(mk[p] - Taken(run.net, t, p)) + Given(run.net, t, p)) = mk[p] + Delta(t, p)
  <1> DEFINE a == Taken(run.net, t, p)
             b == Given(run.net, t, p)
             m == mk[p]
  <1>1. a \in Nat /\ b \in Nat /\ Delta(t, p) = b - a
    BY DeltaType
  <1>2. m \in Int /\ a \in Count /\ b \in Count /\ m - a \in Count /\ m + b \in Count
    BY DEF InRange, TypeOK
  <1> HIDE DEF a, b, m
  <1>3. 0 - a \in Count /\ (0 - a) + b \in Count /\ (m - a) + b \in Count /\ (0 - a) + b = b - a
        /\ (m - a) + b = m + (b - a)
    BY <1>1, <1>2, MaxIntAssumption DEF Count, MinInt
  <1>4. Clamp(0 - a) = 0 - a /\ Clamp((0 - a) + b) = (0 - a) + b
    BY <1>3, ClampId
  <1>5. Clamp(m - a) = m - a /\ Clamp((m - a) + b) = (m - a) + b
    BY <1>2, <1>3, ClampId
  <1>6. NetEffect(run.net, t, p) = Clamp(Clamp(0 - a) + b)
    BY DEF NetEffect, a, b
  <1>7. Clamp(Clamp(m - a) + b) = m + Delta(t, p) /\ Clamp(m + Delta(t, p)) = m + Delta(t, p)
    BY <1>1, <1>3, <1>5
  <1> QED
    BY <1>1, <1>3, <1>4, <1>6, <1>7 DEF a, b, m

\* In range, the compiled engine enables and fires as the rule does.
LEMMA FiresByTheRule ==
  ASSUME TypeOK, InRange, NEW t \in Transition
  PROVE  /\ CanFire(t) <=> Enabled(run.net, t, mk)
         /\ [p \in Place |-> mk[p] + Delta(t, p)] = Fire(run.net, t, mk)
  <1> DEFINE n == run.net
  <1>1. ~ Invalid(n, t)
    BY ConsumingAssumption DEF TypeOK
  <1>2. \A i \in Inputs(n, t) :
          Passes(n.arcs[i], mk[n.arcs[i].from])
            <=> mk[n.arcs[i].from] >= Weight(n.arcs[i])
    BY DEF Inputs, ReadOnly, Passes
  <1>3. \A p \in Place : /\ NetEffect(n, t, p) = Delta(t, p)
                         /\ Clamp(mk[p] + Delta(t, p)) = mk[p] + Delta(t, p)
    BY EffectExact
  <1>4. Raised(n, t) = {p \in Place : n.cap[p] > 0 /\ Delta(t, p) > 0}
    BY <1>3 DEF Raised
  <1>5. (\A p \in Raised(n, t) : Clamp(mk[p] + NetEffect(n, t, p)) <= n.cap[p])
          <=> \A p \in Place : n.cap[p] > 0 /\ Delta(t, p) > 0 => mk[p] + Delta(t, p) <= n.cap[p]
    BY <1>3, <1>4
  <1>6. CanFire(t) <=> Enabled(n, t, mk)
    BY <1>1, <1>2, <1>5 DEF CanFire, Gated, Enabled
  <1>7. [p \in Place |-> mk[p] + Delta(t, p)] = Fire(n, t, mk)
    BY EffectExact DEF Fire
  <1> QED
    BY <1>6, <1>7

-----------------------------------------------------------------------------
(* The refinement: every step of the engine is one of OneClock, or leaves *)
(* what it sees alone.                                                    *)

\* OneClock's firing rule is this one: the same definitions, through INSTANCE.
LEMMA SameTotals ==
  ASSUME NEW n, NEW t, NEW p
  PROVE  C!Taken(n, t, p) = Taken(n, t, p) /\ C!Given(n, t, p) = Given(n, t, p)
  <1>1. \A f : C!SumFunction(f) = SumFunction(f)
    BY DEF C!SumFunction, SumFunction, C!SumFunctionOnSet, SumFunctionOnSet,
           C!FoldFunctionOnSet, FoldFunctionOnSet, C!MapThenFoldSet, MapThenFoldSet
  <1>2. \A a : C!Weight(a) = Weight(a)
    BY DEF C!Weight, Weight
  <1>3. \A S : C!Total(n, S) = Total(n, S)
    <2> TAKE S
    <2>1. [i \in S |-> C!Weight(n.arcs[i])] = [i \in S |-> Weight(n.arcs[i])]
      BY <1>2
    <2> QED
      BY <1>1, <2>1 DEF C!Total, Total
  <1>4. C!Inputs(n, t) = Inputs(n, t) /\ C!Outputs(n, t) = Outputs(n, t)
    BY DEF C!Inputs, Inputs, C!Outputs, Outputs, C!ReadOnly, ReadOnly
  <1> QED
    BY <1>3, <1>4 DEF C!Taken, Taken, C!Given, Given

\* The abstract specification uses the same rule.
LEMMA SameRule ==
  ASSUME NEW n, NEW t, NEW m
  PROVE  /\ C!Enabled(n, t, m) <=> Enabled(n, t, m)
         /\ C!Fire(n, t, m) = Fire(n, t, m)
  <1>1. \A x : C!Clamp(x) = Clamp(x)
    BY DEF C!Clamp, Clamp, C!Count, Count, C!MinInt, MinInt
  <1>2. \A a : C!Weight(a) = Weight(a)
    BY DEF C!Weight, Weight
  <1>3. /\ C!Inputs(n, t) = Inputs(n, t) /\ C!Outputs(n, t) = Outputs(n, t)
        /\ C!Tests(n, t) = Tests(n, t)
    BY DEF C!Inputs, Inputs, C!Outputs, Outputs, C!Tests, Tests, C!ReadOnly, ReadOnly
  <1>4. \A p : C!NetEffect(n, t, p) = NetEffect(n, t, p)
    BY <1>1, SameTotals DEF C!NetEffect, NetEffect
  <1>5. C!Invalid(n, t) <=> Invalid(n, t)
    BY <1>2, <1>3 DEF C!Invalid, Invalid
  <1>6. \A a, v : C!Passes(a, v) <=> Passes(a, v)
    BY <1>2 DEF C!Passes, Passes
  <1>7. C!Raised(n, t) = Raised(n, t)
    BY <1>4 DEF C!Raised, Raised
  <1>8. C!Enabled(n, t, m) <=> Enabled(n, t, m)
    BY <1>1, <1>3, <1>4, <1>5, <1>6, <1>7 DEF C!Enabled, Enabled
  <1>9. C!Fire(n, t, m) = Fire(n, t, m)
    BY <1>1, SameTotals DEF C!Fire, Fire
  <1> QED
    BY <1>8, <1>9

\* The abstract specification reads the schedule the same way.
LEMMA SameSchedule ==
  ASSUME NEW r, NEW t, NEW k
  PROVE  /\ C!Delayed(r, t) <=> Delayed(r, t)
         /\ C!Opens(r, k) = Opens(r, k) /\ C!Horizon(r) = Horizon(r)
  BY DEF C!Delayed, Delayed, C!Opens, Opens, C!Horizon, Horizon

\* What OneClock sees of the k-th firing in flight, of all of them, and its time.
Seen(k) ==
  [tr |-> queue[k].tr, due |-> Opens(run, seg) + queue[k].at, no |-> queue[k].no]

Flying == {Seen(k) : k \in DOMAIN queue}

Now == Opens(run, seg) + clock

\* When nothing can start here, nothing with a delay is enabled there.
LEMMA IdleIsSettled == ASSUME TypeOK, InRange, Idle PROVE C!Settled
  <1>1. SUFFICES ASSUME NEW t \in Transition, Delayed(run, t)
                 PROVE  ~ Enabled(run.net, t, mk)
    BY SameRule, SameSchedule DEF C!Settled
  <1>2. PICK i \in DOMAIN Declared : Declared[i] = t
    BY DeclaredAssumption
  <1>3. ~ CanFire(t)
    BY <1>1, <1>2 DEF Idle, Startable
  <1> QED
    BY <1>3, FiresByTheRule

\* The times, on the one clock.
LEMMA TimesType ==
  ASSUME TypeOK
  PROVE  /\ Opens(run, seg) \in Nat /\ clock \in Int /\ Span \in Int
         /\ Opens(run, seg) + Span <= C!Horizon(run)
         /\ \A k \in DOMAIN queue : queue[k].at \in Int
         /\ run.ends[seg] = Opens(run, seg) + Span
         /\ C!Horizon(run) \in Int
  <1>1. run \in Runs /\ seg \in DOMAIN run.ends /\ clock \in Int
    BY DEF TypeOK
  <1>2. Opens(run, seg) \in Nat /\ run.ends[seg] <= Horizon(run)
    BY <1>1, SegmentsType, EndsByHorizon
  <1>3. Horizon(run) \in Int
    BY <1>1, RunType DEF Horizon
  <1> QED
    BY <1>1, <1>2, <1>3, SpanType, QueueType, SameSchedule

\* A start is the abstract specification's start.
LEMMA StartStep ==
  ASSUME IInv, InRange, NEW i \in DOMAIN Declared, Start(i)
  PROVE  C!Start(Declared[i])
  <1> DEFINE f == Flight(i)
             n == Before(queue, f)
             t == Declared[i]
  <1>1. TypeOK /\ Books /\ Ordered /\ t \in Transition
    BY DeclaredType DEF IInv, Books
  <1>2. /\ Delayed(run, t) /\ CanFire(t)
        /\ mk' = [p \in Place |-> mk[p] - Taken(run.net, t, p)]
        /\ started' = started + 1 /\ UNCHANGED <<run, seg, clock, cut>>
    BY DEF Start, Startable, Take
  <1>3. C!Delayed(run, t) /\ C!Enabled(run.net, t, mk)
    BY <1>1, <1>2, FiresByTheRule, SameRule, SameSchedule
  <1>4. mk' = [p \in Place |-> mk[p] - C!Taken(run.net, t, p)]
    BY <1>2, SameTotals
  <1>5. /\ f.no = started /\ f.tr = t /\ f.at = clock + run.delay[t] /\ run.delay[t] \in Nat
        /\ n \in 0 .. Len(queue) /\ Len(queue) \in Nat
        /\ DOMAIN queue' = 1 .. Len(queue) + 1
        /\ \A k \in 1 .. n : queue'[k] = queue[k]
        /\ queue'[n + 1] = f
        /\ \A k \in n + 1 .. Len(queue) : queue'[k + 1] = queue[k]
    BY <1>1, StartFacts
  <1>6. DOMAIN queue = 1 .. Len(queue)
    BY <1>1, QueueType
  <1> DEFINE new == [tr |-> t, due |-> Now + run.delay[t], no |-> started]
  <1> HIDE DEF f, n
  <1>7. \A k \in DOMAIN queue : \E j \in DOMAIN queue' : queue'[j] = queue[k]
    <2> TAKE k \in DOMAIN queue
    <2>1. CASE k \in 1 .. n
      BY <1>5, <1>6, <2>1
    <2>2. CASE k \in n + 1 .. Len(queue)
      <3>1. k + 1 \in DOMAIN queue' /\ queue'[k + 1] = queue[k]
        BY <1>5, <1>6, <2>2
      <3> QED
        BY <3>1
    <2> QED
      BY <1>5, <1>6, <2>1, <2>2
  <1>8. \A j \in DOMAIN queue' : queue'[j] = f \/ \E k \in DOMAIN queue : queue'[j] = queue[k]
    <2> TAKE j \in DOMAIN queue'
    <2>1. CASE j \in 1 .. n
      BY <1>5, <1>6, <2>1
    <2>2. CASE j = n + 1
      BY <1>5, <2>2
    <2>3. CASE j > n + 1
      <3>1. j - 1 \in n + 1 .. Len(queue) /\ j - 1 \in DOMAIN queue /\ (j - 1) + 1 = j
        BY <1>5, <1>6, <2>3
      <3> QED
        BY <1>5, <3>1
    <2> QED
      BY <1>5, <2>1, <2>2, <2>3
  <1>9. n + 1 \in DOMAIN queue' /\ queue'[n + 1] = f
    BY <1>5
  <1>10. Opens(run, seg)' = Opens(run, seg)
    BY <1>2 DEF Opens
  <1>11. new = [tr |-> f.tr, due |-> Opens(run, seg) + f.at, no |-> f.no]
    BY <1>1, <1>5, TimesType DEF Now
  <1>12. Flying' = {[tr |-> queue'[j].tr, due |-> Opens(run, seg) + queue'[j].at,
                     no |-> queue'[j].no] : j \in DOMAIN queue'}
    BY <1>10 DEF Flying, Seen
  <1> HIDE DEF new
  <1>13. Flying' = Flying \cup {new}
    BY <1>7, <1>8, <1>9, <1>11, <1>12 DEF Flying, Seen
  <1>14. Now' = Now
    BY <1>2, <1>10 DEF Now
  <1> QED
    BY <1>2, <1>3, <1>4, <1>13, <1>14 DEF C!Start, Flying, Seen, Now, new

\* Time may move on to c, on the clock of the segment, from where nothing can
\* start, unless something is due before.
LEMMA TimeReaches ==
  ASSUME IInv, InRange, NEW c \in Int, c <= Span, ~ cut => clock <= c,
         \A k \in DOMAIN queue : ~ cut => c <= queue[k].at,
         ~ cut /\ clock < c => Idle
  PROVE  C!Reaches(Opens(run, seg) + c)
  <1> DEFINE o == Opens(run, seg)
  <1>1. TypeOK
    BY DEF IInv, Books
  <1>2. /\ o \in Nat /\ clock \in Int /\ Span \in Int /\ o + Span <= C!Horizon(run)
        /\ C!Horizon(run) \in Int
        /\ \A k \in DOMAIN queue : queue[k].at \in Int
    BY <1>1, TimesType
  <1> SUFFICES ASSUME ~ cut PROVE C!Reaches(o + c)
    BY DEF C!Reaches
  <1>3. clock <= c /\ (\A k \in DOMAIN queue : c <= queue[k].at) /\ (clock < c => Idle)
    OBVIOUS
  <1> HIDE DEF o
  <1>4. Now = o + clock
    BY DEF Now, o
  <1>5. Now <= o + c /\ o + c <= C!Horizon(run) /\ (Now < o + c => clock < c)
    BY <1>2, <1>3, <1>4
  <1>6. \A k \in DOMAIN queue : o + c <= o + queue[k].at
    BY <1>2, <1>3
  <1>7. \A f \in Flying : o + c <= f.due
    BY <1>6 DEF Flying, Seen, o
  <1>8. Now < o + c => C!Settled
    BY <1>1, <1>3, <1>5, IdleIsSettled
  <1> QED
    BY <1>5, <1>7, <1>8 DEF C!Reaches, Now, Flying, Seen, o

\* The loop spends a step, and time goes where it says.
LEMMA LoopSpends ==
  ASSUME TypeOK, NEW c \in Int, Loop(c, steps), UNCHANGED <<run, seg>>
  PROVE  C!Spend /\ Now' = Opens(run, seg) + c
  <1>1. clock' = c /\ (cut' = (cut \/ (steps >= MaxSteps /\ c < Span)))
    BY DEF Loop
  <1>2. cut' \in {cut, TRUE}
    <2>1. cut \in BOOLEAN
      BY DEF TypeOK
    <2> QED
      BY <1>1, <2>1, Zenon
  <1>3. Opens(run, seg)' = Opens(run, seg)
    BY DEF Opens
  <1> QED
    BY <1>1, <1>2, <1>3 DEF C!Spend, Now

\* A landing is the abstract specification's landing.
LEMMA CompleteStep ==
  ASSUME IInv, InRange, Complete
  PROVE  \E f \in Flying : C!Land(f)
  <1> DEFINE c == Head(queue).at
             o == Opens(run, seg)
  <1> PICK f : f = Seen(1)
    OBVIOUS
  <1>1. /\ TypeOK /\ Ordered /\ queue # <<>> /\ c <= Span /\ pc = "race"
        /\ queue' = Tail(queue) /\ started' = started /\ UNCHANGED <<run, seg>>
        /\ Loop(c, steps)
        /\ mk' = [p \in Place |-> mk[p] + Given(run.net, Head(queue).tr, p)]
    BY DEF Complete, IInv, Books
  <1>2. /\ 1 \in DOMAIN queue /\ Head(queue) = queue[1] /\ c \in Int
        /\ DOMAIN queue = 1 .. Len(queue) /\ Len(queue) \in Nat
        /\ \A k \in DOMAIN queue : queue[k].at \in Int /\ queue[k].no \in Nat
    BY <1>1, FirstDue, QueueType
  <1>3. /\ \A k \in DOMAIN queue : c <= queue[k].at
        /\ DOMAIN queue' = 1 .. Len(queue) - 1
        /\ \A k \in DOMAIN queue' : k + 1 \in DOMAIN queue /\ queue'[k] = queue[k + 1]
    BY <1>1, LessOrdered
  <1>4. f \in Flying /\ f.tr = Head(queue).tr /\ f.due = o + c /\ f.no = queue[1].no
    BY <1>2 DEF Flying, Seen
  <1>5. o \in Nat
    BY <1>1, TimesType
  <1>6. C!Reaches(o + c)
    <2>1. ~ cut => clock <= c
      BY <1>2 DEF IInv, InTime
    <2>2. Idle
      BY <1>1 DEF IInv, Calm
    <2> QED
      BY <1>1, <1>2, <1>3, <2>1, <2>2, TimeReaches
  <1> HIDE DEF c
  <1>7. \A g \in Flying : g.due = f.due => f.no <= g.no
    <2> SUFFICES ASSUME NEW k \in DOMAIN queue, Seen(k).due = f.due PROVE f.no <= Seen(k).no
      BY DEF Flying
    <2>1. Seen(k).due = o + queue[k].at /\ Seen(k).no = queue[k].no
      BY DEF Seen
    <2>2. queue[k].at = c
      BY <1>2, <1>4, <1>5, <2>1
    <2>3. CASE k = 1
      BY <1>2, <1>4, <2>1, <2>3
    <2>4. CASE k # 1
      <3>1. 1 < k /\ queue[1].at = c
        BY <1>2, <2>4 DEF c
      <3>2. queue[1].no < queue[k].no
        BY <1>1, <1>2, <2>2, <3>1 DEF Ordered
      <3> QED
        BY <1>2, <1>4, <2>1, <3>2
    <2> QED
      BY <2>3, <2>4
  <1>8. Flying' = Flying \ {f}
    <2>1. Opens(run, seg)' = o
      BY <1>1 DEF Opens
    <2>2. Flying' = {[tr |-> queue'[k].tr, due |-> o + queue'[k].at, no |-> queue'[k].no] :
                       k \in DOMAIN queue'}
      BY <2>1 DEF Flying, Seen
    <2>3. \A k \in DOMAIN queue' :
            [tr |-> queue'[k].tr, due |-> o + queue'[k].at, no |-> queue'[k].no] = Seen(k + 1)
      BY <1>3 DEF Seen
    <2>4. \A k \in DOMAIN queue : k # 1 => k - 1 \in DOMAIN queue' /\ (k - 1) + 1 = k
      BY <1>2, <1>3
    <2>5. \A k \in DOMAIN queue' : k + 1 \in DOMAIN queue /\ k + 1 # 1
      BY <1>2, <1>3
    <2>6. \A k \in DOMAIN queue : k # 1 => Seen(k) # f
      <3> SUFFICES ASSUME NEW k \in DOMAIN queue, k # 1, Seen(k) = f PROVE FALSE
        OBVIOUS
      <3>1. 1 < k
        BY <1>2
      <3>2. Seen(k).due = o + queue[k].at /\ Seen(k).no = queue[k].no
        BY DEF Seen
      <3>3. queue[k].no = queue[1].no /\ o + queue[k].at = o + c
        BY <1>4, <3>2
      <3>4. queue[k].at = queue[1].at
        BY <1>2, <1>5, <3>3 DEF c
      <3> QED
        BY <1>1, <1>2, <3>1, <3>3, <3>4 DEF Ordered
    <2>7. Flying' = {Seen(k + 1) : k \in DOMAIN queue'}
      BY <2>2, <2>3
    <2>8. Flying = {Seen(k) : k \in DOMAIN queue} /\ f = Seen(1)
      BY DEF Flying
    <2> QED
      BY <2>4, <2>5, <2>6, <2>7, <2>8
  <1>9. C!Spend /\ Now' = o + c
    BY <1>1, <1>2, LoopSpends DEF c
  <1>10. mk' = [p \in Place |-> mk[p] + C!Given(run.net, f.tr, p)]
    BY <1>1, <1>4, SameTotals
  <1>11. C!Land(f)
    BY <1>1, <1>4, <1>6, <1>7, <1>8, <1>9, <1>10 DEF C!Land, Flying, Seen, Now
  <1> QED
    BY <1>4, <1>11

\* A firing drawn is the abstract specification's race.
LEMMA DrawStep ==
  ASSUME IInv, InRange, NEW t \in Transition, NEW c \in clock .. Span, Draw(t, c)
  PROVE  C!Race(t)
  <1> DEFINE o == Opens(run, seg)
  <1>1. /\ TypeOK /\ Ordered /\ pc = "race" /\ t \in run.live[seg] /\ ~ Delayed(run, t) /\ CanFire(t)
        /\ queue # <<>> => c < Head(queue).at
        /\ mk' = [p \in Place |-> mk[p] + Delta(t, p)]
        /\ UNCHANGED <<run, seg, queue, started>> /\ Loop(c, steps)
    BY DEF Draw, Racing, IInv, Books
  <1>2. /\ o \in Nat /\ clock \in Int /\ Span \in Int /\ c \in Int /\ clock <= c /\ c <= Span
        /\ run.ends[seg] = o + Span /\ \A k \in DOMAIN queue : queue[k].at \in Int
    BY <1>1, TimesType
  <1>3. ASSUME NEW k \in DOMAIN queue PROVE c < queue[k].at
    <2>1. queue # <<>>
      BY <1>3
    <2>2. /\ Head(queue) = queue[1] /\ 1 \in DOMAIN queue
          /\ DOMAIN queue = 1 .. Len(queue) /\ Len(queue) \in Nat
      BY <1>1, <2>1, FirstDue
    <2>3. c < queue[1].at
      BY <1>1, <2>1, <2>2
    <2>4. CASE k = 1
      BY <2>3, <2>4
    <2>5. CASE k # 1
      <3>1. 1 < k
        BY <2>2, <2>5
      <3> QED
        BY <1>1, <1>2, <2>2, <2>3, <3>1 DEF Ordered
    <2> QED
      BY <2>4, <2>5
  <1>4. C!Reaches(o + c)
    <2>1. \A k \in DOMAIN queue : c <= queue[k].at
      BY <1>2, <1>3
    <2>2. Idle
      BY <1>1 DEF IInv, Calm
    <2> QED
      BY <1>2, <2>1, <2>2, TimeReaches
  <1>5. ~ C!Delayed(run, t) /\ C!Enabled(run.net, t, mk)
    BY <1>1, FiresByTheRule, SameRule, SameSchedule
  <1>6. mk' = C!Fire(run.net, t, mk)
    BY <1>1, FiresByTheRule, SameRule
  <1>7. C!Spend /\ Now' = o + c
    BY <1>1, <1>2, LoopSpends
  <1>8. Flying' = Flying
    BY <1>1 DEF Flying, Seen, Opens
  <1> HIDE DEF o
  <1>9. ASSUME ~ cut PROVE C!Live(t, o + c)
    <2>1. seg \in DOMAIN run.ends /\ C!Opens(run, seg) = o
      BY <1>1, SameSchedule DEF TypeOK, o
    <2>2. o <= o + c /\ o + c <= run.ends[seg]
      <3>1. 0 <= clock
        BY <1>9 DEF IInv, InTime
      <3> QED
        BY <1>2, <3>1
    <2> QED
      BY <1>1, <2>1, <2>2 DEF C!Live
  <1>10. \A f \in Flying : f.due # o + c
    <2>1. \A k \in DOMAIN queue : o + queue[k].at # o + c
      BY <1>2, <1>3
    <2> QED
      BY <2>1 DEF Flying, Seen, o
  <1> QED
    BY <1>1, <1>4, <1>5, <1>6, <1>7, <1>8, <1>9, <1>10 DEF C!Race, Flying, Seen, Now

\* The boundary of two segments is time passing, no more.
LEMMA NextSegmentStep ==
  ASSUME IInv, InRange, NextSegment
  PROVE  C!Wait
  <1> DEFINE o == Opens(run, seg)
  <1>1. /\ pc = "over" /\ seg < Len(run.ends) /\ seg' = seg + 1 /\ clock' = 0
        /\ UNCHANGED <<run, mk, started, cut>> /\ TypeOK
    BY DEF NextSegment, IInv, Books
  <1>2. /\ Ordered' /\ DOMAIN queue' = DOMAIN queue
        /\ \A k \in DOMAIN queue : /\ queue'[k].at = queue[k].at - Span
                                   /\ queue'[k].no = queue[k].no /\ queue'[k].tr = queue[k].tr
    BY <1>1, RebasedOrdered DEF IInv
  <1>3. /\ o \in Nat /\ clock \in Int /\ Span \in Int /\ run.ends[seg] = o + Span
        /\ \A k \in DOMAIN queue : queue[k].at \in Int
    BY <1>1, TimesType
  <1>4. Opens(run, seg)' = o + Span
    <2>1. run \in Runs /\ seg \in DOMAIN run.ends /\ seg + 1 \in DOMAIN run.ends
      <3>1. run \in Runs /\ seg \in DOMAIN run.ends
        BY <1>1 DEF TypeOK
      <3>2. DOMAIN run.ends = 1 .. Len(run.ends) /\ Len(run.ends) \in Nat
        BY <3>1, RunType
      <3> QED
        BY <1>1, <3>1, <3>2
    <2>2. Opens(run, seg + 1) = run.ends[seg]
      BY <2>1, SegmentsType
    <2>3. Opens(run, seg)' = Opens(run, seg + 1)
      BY <1>1 DEF Opens
    <2> QED
      BY <1>3, <2>2, <2>3
  <1>5. Now' = o + Span
    BY <1>1, <1>3, <1>4 DEF Now
  <1>6. C!Reaches(o + Span)
    <2>1. ASSUME ~ cut PROVE clock <= Span /\ \A k \in DOMAIN queue : clock <= queue[k].at
      BY <2>1 DEF IInv, InTime
    <2>2. ASSUME ~ cut
          PROVE  clock = Span \/ (Idle /\ \A k \in DOMAIN queue : queue[k].at > Span)
      BY <1>1, <2>2 DEF IInv, Calm
    <2>3. \A k \in DOMAIN queue : ~ cut => Span <= queue[k].at
      BY <1>3, <2>1, <2>2
    <2>4. ~ cut /\ clock < Span => Idle
      BY <1>3, <2>2
    <2> QED
      BY <1>3, <2>1, <2>3, <2>4, TimeReaches
  <1> HIDE DEF o
  <1>7. Flying' = Flying
    <2>1. \A k \in DOMAIN queue : (o + Span) + (queue[k].at - Span) = o + queue[k].at
      BY <1>3
    <2>2. Flying' = {[tr |-> queue'[k].tr, due |-> (o + Span) + queue'[k].at, no |-> queue'[k].no] :
                       k \in DOMAIN queue'}
      BY <1>4 DEF Flying, Seen
    <2>3. \A k \in DOMAIN queue :
            [tr |-> queue'[k].tr, due |-> (o + Span) + queue'[k].at, no |-> queue'[k].no] = Seen(k)
      BY <1>2, <2>1 DEF Seen, o
    <2> QED
      BY <1>2, <2>2, <2>3 DEF Flying
  <1> QED
    BY <1>1, <1>5, <1>6, <1>7 DEF C!Wait, Flying, Seen, Now

\* Initial states are the abstract specification's.
LEMMA InitStep == Init => C!Init
  <1> SUFFICES ASSUME Init PROVE C!Init
    OBVIOUS
  <1>1. DOMAIN queue = {} /\ Opens(run, seg) = 0
    BY DEF Init, Opens
  <1>2. Flying = {} /\ Now = 0
    BY <1>1 DEF Init, Flying, Now
  <1> QED
    BY <1>2 DEF Init, C!Init, Flying, Seen, Now

\* What OneClock sees stays as it is.
LEMMA UnseenStep ==
  ASSUME UNCHANGED <<run, seg, clock, mk, queue, started, cut>>
  PROVE  UNCHANGED C!vars
  BY DEF C!vars, Opens

\* Every step is one of the abstract specification's, or none.
LEMMA NextStep ==
  ASSUME IInv, InRange, [Next]_vars
  PROVE  [C!Next]_(C!vars)
  <1>1. ASSUME NEW i \in DOMAIN Declared, Start(i) PROVE C!Next
    BY <1>1, StartStep, DeclaredType DEF C!Next
  <1>2. ASSUME NEW t \in Transition, NEW c \in clock .. Span, Draw(t, c) PROVE C!Next
    BY <1>2, DrawStep DEF C!Next
  <1>3. ASSUME Complete PROVE C!Next
    <2>1. PICK f \in Flying : C!Land(f)
      BY <1>3, CompleteStep
    <2> QED
      BY <2>1 DEF C!Next, Flying, Seen
  <1>4. ASSUME NextSegment PROVE C!Next
    BY <1>4, NextSegmentStep DEF C!Next
  <1>5. ASSUME EndPass \/ Break \/ UNCHANGED vars PROVE UNCHANGED C!vars
    <2>1. UNCHANGED <<run, seg, clock, mk, queue, started, cut>>
      BY <1>5 DEF EndPass, Break, vars
    <2> QED
      BY <2>1, UnseenStep
  <1> QED
    BY <1>1, <1>2, <1>3, <1>4, <1>5 DEF Next

\* A run in segments is a run on one clock (DelayedFiring.OneClockSpec), for
\* every net, schedule, delay and limit of steps, as long as the counts stay in
\* range: the engine moves tokens with plain arithmetic (engine.rs 249, 333, 362-365)
\* where the firing rule saturates (firing.rs 184-206, 226-230).
THEOREM OnOneClock == Spec /\ []InRange => OneClockSpec
  <1>1. Init => C!Init
    BY InitStep
  <1>2. IInv /\ InRange /\ [Next]_vars => [C!Next]_(C!vars)
    BY NextStep
  <1> QED
    BY <1>1, <1>2, Invariance, PTL DEF Spec, OneClockSpec, C!Spec

=============================================================================
