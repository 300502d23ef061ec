--------------------------- MODULE Tracked_proofs ---------------------------
(***************************************************************************)
(* The tracked enabled set is exact, and the engine walks as Walk says,    *)
(* for every net, every size of count and every depth.                     *)
(***************************************************************************)
EXTENDS Tracked, FiringRule_proofs

-----------------------------------------------------------------------------
(* The inductive invariant. *)

\* The verdict a negative weight puts into a count for good.
Base(n, u) == IF Invalid(n, u) THEN 1 ELSE 0

\* The failing conditions of u on the places outside X.
BadOutside(n, u, m, X) ==
  {c \in Conds(n, u) : c.place \notin X /\ ~ Holds(n, u, c, m[c.place])}

\* The places whose verdicts are out of the counts at this point of an update.
TakenOut == IF phase = "out" THEN Touched(net, op.t) \ pending ELSE pending

\* The places whose transitions may still have a bit that is out of date.
Stale == IF phase = "out" THEN Touched(net, op.t) ELSE pending

\* Each count is the number of its failing conditions, save on those places.
Accounted ==
  \A u \in Transition :
    failing[u] = Cardinality(BadOutside(net, u, mk, TakenOut)) + Base(net, u)

\* A bit with no condition on a stale place agrees with its count.
BitsRight ==
  \A u \in Transition :
    (\A c \in Conds(net, u) : c.place \notin Stale) => (u \in set <=> failing[u] = 0)

\* What an update in progress knows of the transition it works for.
Underway ==
  /\ phase = "rest" => pending = {}
  /\ phase # "rest" => pending \subseteq Touched(net, op.t)
  /\ phase = "out" =>
       IF op.undo THEN trail # <<>> /\ op.t = trail[Len(trail)].t
       ELSE Len(trail) < MaxDepth /\ Enabled(net, op.t, mk)

\* The marking the k-th firing of the trail led to.
Reached(k) == IF k = Len(trail) THEN mk ELSE trail[k + 1].from

TrailRight ==
  \A k \in 1 .. Len(trail) :
    trail[k].exact => /\ Exact(net, trail[k].t, trail[k].from)
                      /\ Reached(k) = Fire(net, trail[k].t, trail[k].from)

IInv == TypeOK /\ Accounted /\ BitsRight /\ Underway /\ TrailRight

-----------------------------------------------------------------------------
(* Lemmas about the firing rule. *)

\* The rule's functions of a net yield markings.
LEMMA RuleType ==
  ASSUME NEW n \in Nets, NEW t \in Transition, NEW m \in Marking
  PROVE  /\ Fire(n, t, m) \in Marking
         /\ Unfire(n, t, m) \in Marking
  <1>1. \A p \in Place : m[p] \in Int
    BY MaxIntAssumption DEF Marking, Count, MinInt
  <1>2. \A p \in Place : Taken(n, t, p) \in Int /\ Given(n, t, p) \in Int
    BY TotalsType
  <1>3. \A x \in Int : Clamp(x) \in Count /\ Clamp(x) \in Int
    BY ClampCount, MaxIntAssumption DEF Count, MinInt
  <1>4. \A p \in Place : Clamp(m[p] - Taken(n, t, p)) \in Int
                         /\ Clamp(m[p] - Given(n, t, p)) \in Int
    BY <1>1, <1>2, <1>3
  <1>5. \A p \in Place : /\ Clamp(Clamp(m[p] - Taken(n, t, p)) + Given(n, t, p)) \in Count
                         /\ Clamp(Clamp(m[p] - Given(n, t, p)) + Taken(n, t, p)) \in Count
    BY <1>2, <1>3, <1>4
  <1> QED
    BY <1>5 DEF Fire, Unfire, Marking

\* A place no arc of t touches keeps its count through a firing and its undoing.
LEMMA Elsewhere ==
  ASSUME NEW n \in Nets, NEW t \in Transition, NEW m \in Marking,
         NEW p \in Place, p \notin Touched(n, t)
  PROVE  Fire(n, t, m)[p] = m[p] /\ Unfire(n, t, m)[p] = m[p]
  <1>1. {i \in Inputs(n, t) : n.arcs[i].from = p} = {}
    BY DEF Touched
  <1>2. {i \in Outputs(n, t) : n.arcs[i].to = p} = {}
    BY DEF Touched
  <1>3. Taken(n, t, p) = 0 /\ Given(n, t, p) = 0
    BY <1>1, <1>2 DEF Taken, Given, Total
  <1>4. m[p] \in Count /\ m[p] \in Int
    BY MaxIntAssumption DEF Marking, Count, MinInt
  <1>5. Clamp(Clamp(m[p] - 0) + 0) = m[p]
    BY <1>4, ClampId
  <1> QED
    BY <1>3, <1>5 DEF Fire, Unfire

\* Undoing a firing that saturated nothing returns to the marking it left.
LEMMA UnfireFire ==
  ASSUME NEW n \in Nets, NEW t \in Transition, NEW m \in Marking, Exact(n, t, m)
  PROVE  Unfire(n, t, Fire(n, t, m)) = m
  <1>1. ASSUME NEW p \in Place
        PROVE  Clamp(Clamp(Fire(n, t, m)[p] - Given(n, t, p)) + Taken(n, t, p)) = m[p]
    <2>1. Taken(n, t, p) \in Int /\ Given(n, t, p) \in Int
      BY TotalsType
    <2>2. m[p] \in Count /\ m[p] \in Int
      BY MaxIntAssumption DEF Marking, Count, MinInt
    <2>3. /\ m[p] - Taken(n, t, p) \in Count
          /\ m[p] - Taken(n, t, p) + Given(n, t, p) \in Count
      BY DEF Exact
    <2>4. Fire(n, t, m)[p] = m[p] - Taken(n, t, p) + Given(n, t, p)
      BY <2>3, ClampId DEF Fire
    <2>5. Fire(n, t, m)[p] - Given(n, t, p) = m[p] - Taken(n, t, p)
      BY <2>1, <2>2, <2>4
    <2>6. m[p] - Taken(n, t, p) + Taken(n, t, p) = m[p]
      BY <2>1, <2>2
    <2> QED
      BY <2>2, <2>3, <2>5, <2>6, ClampId
  <1> QED
    BY <1>1 DEF Unfire, Marking

-----------------------------------------------------------------------------
(* Lemmas about conditions and counts. *)

\* What a firing touches are places.
LEMMA TouchedPlaces ==
  ASSUME NEW n \in Nets, NEW t \in Transition
  PROVE  Touched(n, t) \subseteq Place
  BY DEF Touched, Inputs, Outputs

\* A condition is about a place.
LEMMA CondPlaces ==
  ASSUME NEW n \in Nets, NEW u \in Transition, NEW c \in Conds(n, u)
  PROVE  c.place \in Place
  BY DEF Conds, Inputs, Tests, Raised

\* What a function makes of a finite set is finite.
LEMMA ImageFinite ==
  ASSUME NEW S, IsFiniteSet(S), NEW f, DOMAIN f = S, f \in [S -> {f[i] : i \in S}]
  PROVE  IsFiniteSet({f[i] : i \in S})
  <1>1. f \in Surjection(S, {f[i] : i \in S})
    BY DEF Surjection
  <1> QED
    BY <1>1, FS_Surjection

\* A transition has finitely many conditions.
LEMMA CondsFinite ==
  ASSUME NEW n \in Nets, NEW u \in Transition
  PROVE  IsFiniteSet(Conds(n, u))
  <1> DEFINE I == Inputs(n, u) \cup Tests(n, u)
  <1> DEFINE f == [i \in I |-> [arc |-> i, place |-> n.arcs[i].from]]
  <1> DEFINE g == [p \in Raised(n, u) |-> [arc |-> 0, place |-> p]]
  <1>1. IsFiniteSet(I)
    <2>1. n.arcs \in Seq(Arc)
      BY NetsAssumption DEF Net
    <2>2. DOMAIN n.arcs = 1 .. Len(n.arcs) /\ Len(n.arcs) \in Int
      BY <2>1, LenProperties
    <2>3. IsFiniteSet(DOMAIN n.arcs)
      BY <2>2, FS_Interval
    <2>4. I \subseteq DOMAIN n.arcs
      BY DEF Inputs, Tests
    <2> QED
      BY <2>3, <2>4, FS_Subset
  <1>2. IsFiniteSet(Raised(n, u))
    BY NodeAssumption, FS_Subset DEF Raised
  <1>3. DOMAIN f = I /\ f \in [I -> {f[i] : i \in I}]
    OBVIOUS
  <1>4. DOMAIN g = Raised(n, u) /\ g \in [Raised(n, u) -> {g[p] : p \in Raised(n, u)}]
    OBVIOUS
  <1>5. Conds(n, u) \subseteq {f[i] : i \in I} \cup {g[p] : p \in Raised(n, u)}
    BY DEF Conds
  <1> HIDE DEF I, f, g
  <1>6. IsFiniteSet({f[i] : i \in I})
    BY <1>1, <1>3, ImageFinite
  <1>7. IsFiniteSet({g[p] : p \in Raised(n, u)})
    BY <1>2, <1>4, ImageFinite
  <1>8. IsFiniteSet({f[i] : i \in I} \cup {g[p] : p \in Raised(n, u)})
    BY <1>6, <1>7, FS_Union
  <1> QED
    BY <1>5, <1>8, FS_Subset

\* A failing count is a natural number.
LEMMA CountType ==
  ASSUME NEW n \in Nets, NEW u \in Transition, NEW m, NEW X, NEW p
  PROVE  /\ IsFiniteSet(BadOutside(n, u, m, X))
         /\ IsFiniteSet(FailingAt(n, u, p, m))
         /\ Cardinality(BadOutside(n, u, m, X)) \in Nat
         /\ Cardinality(FailingAt(n, u, p, m)) \in Nat
         /\ Base(n, u) \in {0, 1}
  <1>1. BadOutside(n, u, m, X) \subseteq Conds(n, u) /\ FailingAt(n, u, p, m) \subseteq Conds(n, u)
    BY DEF BadOutside, FailingAt, CondsAt
  <1>2. IsFiniteSet(BadOutside(n, u, m, X)) /\ IsFiniteSet(FailingAt(n, u, p, m))
    BY <1>1, CondsFinite, FS_Subset
  <1> QED
    BY <1>2, FS_CardinalityType DEF Base

\* The failing conditions on p are what separates the count outside X from the
\* count outside X and p.
LEMMA CountSplit ==
  ASSUME NEW n \in Nets, NEW u \in Transition, NEW m, NEW X, NEW p, p \notin X
  PROVE  Cardinality(BadOutside(n, u, m, X))
           = Cardinality(BadOutside(n, u, m, X \cup {p})) + Cardinality(FailingAt(n, u, p, m))
  <1> DEFINE A == BadOutside(n, u, m, X \cup {p})
  <1> DEFINE B == FailingAt(n, u, p, m)
  <1>1. IsFiniteSet(A) /\ IsFiniteSet(B) /\ Cardinality(A) \in Nat /\ Cardinality(B) \in Nat
    BY CountType
  <1>2. A \cap B = {}
    BY DEF BadOutside, FailingAt, CondsAt
  <1>3. BadOutside(n, u, m, X) = A \cup B
    BY DEF BadOutside, FailingAt, CondsAt
  <1>4. Cardinality(A \cup B) = Cardinality(A) + Cardinality(B) - Cardinality(A \cap B)
    BY <1>1, FS_Union
  <1>5. Cardinality(A \cap B) = 0
    BY <1>2, FS_EmptySet
  <1> QED
    BY <1>1, <1>3, <1>4, <1>5

\* A transition is enabled when none of its conditions fails and no weight is
\* negative.
LEMMA EnabledByConds ==
  ASSUME NEW n \in Nets, NEW u \in Transition, NEW m \in Marking
  PROVE  Cardinality(BadOutside(n, u, m, {})) + Base(n, u) = 0 <=> Enabled(n, u, m)
  <1>1. Cardinality(BadOutside(n, u, m, {})) \in Nat /\ Base(n, u) \in {0, 1}
    BY CountType
  <1>2. Cardinality(BadOutside(n, u, m, {})) = 0 <=> BadOutside(n, u, m, {}) = {}
    BY CountType, FS_EmptySet
  <1>3. CASE Invalid(n, u)
    BY <1>1, <1>3 DEF Base, Enabled
  <1>4. CASE ~ Invalid(n, u)
    <2>1. Base(n, u) = 0
      BY <1>4 DEF Base
    <2>2. BadOutside(n, u, m, {}) = {} <=> \A c \in Conds(n, u) : Holds(n, u, c, m[c.place])
      BY DEF BadOutside
    <2>3. 0 \notin Inputs(n, u) \cup Tests(n, u)
      <3>1. n.arcs \in Seq(Arc)
        BY NetsAssumption DEF Net
      <3>2. DOMAIN n.arcs = 1 .. Len(n.arcs)
        BY <3>1, LenProperties
      <3> QED
        BY <3>2 DEF Inputs, Tests
    <2>4. ASSUME \A c \in Conds(n, u) : Holds(n, u, c, m[c.place])
          PROVE  Enabled(n, u, m)
      <3>1. ASSUME NEW i \in Inputs(n, u) \cup Tests(n, u)
            PROVE  Passes(n.arcs[i], m[n.arcs[i].from])
        <4>1. [arc |-> i, place |-> n.arcs[i].from] \in Conds(n, u)
          BY <1>4 DEF Conds
        <4>2. Holds(n, u, [arc |-> i, place |-> n.arcs[i].from], m[n.arcs[i].from])
          BY <2>4, <4>1
        <4> QED
          BY <2>3, <4>2 DEF Holds
      <3>2. ASSUME NEW p \in Raised(n, u)
            PROVE  Clamp(m[p] + NetEffect(n, u, p)) <= n.cap[p]
        <4>1. [arc |-> 0, place |-> p] \in Conds(n, u)
          BY <1>4 DEF Conds
        <4>2. Holds(n, u, [arc |-> 0, place |-> p], m[p])
          BY <2>4, <4>1
        <4> QED
          BY <4>2 DEF Holds
      <3> QED
        BY <1>4, <3>1, <3>2 DEF Enabled
    <2>5. ASSUME Enabled(n, u, m), NEW c \in Conds(n, u)
          PROVE  Holds(n, u, c, m[c.place])
      <3>1. \/ \E i \in Inputs(n, u) \cup Tests(n, u) : c = [arc |-> i, place |-> n.arcs[i].from]
            \/ \E p \in Raised(n, u) : c = [arc |-> 0, place |-> p]
        BY <1>4 DEF Conds
      <3>2. CASE \E i \in Inputs(n, u) \cup Tests(n, u) : c = [arc |-> i, place |-> n.arcs[i].from]
        BY <2>3, <2>5, <3>2 DEF Holds, Enabled
      <3>3. CASE \E p \in Raised(n, u) : c = [arc |-> 0, place |-> p]
        BY <2>5, <3>3 DEF Holds, Enabled
      <3> QED
        BY <3>1, <3>2, <3>3
    <2> QED
      BY <1>1, <1>2, <2>1, <2>2, <2>4, <2>5
  <1> QED
    BY <1>3, <1>4

\* A transition is enabled exactly where all its conditions hold.
LEMMA EnabledIsConds ==
  ASSUME NEW n \in Nets, NEW u \in Transition, NEW m \in Marking, ~ Invalid(n, u)
  PROVE  Enabled(n, u, m) <=> \A c \in Conds(n, u) : Holds(n, u, c, m[c.place])
  <1>1. Cardinality(BadOutside(n, u, m, {})) = 0 <=> BadOutside(n, u, m, {}) = {}
    BY CountType, FS_EmptySet
  <1>2. Base(n, u) = 0 /\ Cardinality(BadOutside(n, u, m, {})) \in Nat
    BY CountType DEF Base
  <1>3. BadOutside(n, u, m, {}) = {} <=> \A c \in Conds(n, u) : Holds(n, u, c, m[c.place])
    BY DEF BadOutside
  <1> QED
    BY <1>1, <1>2, <1>3, EnabledByConds

\* The count from scratch is the count outside no place.
LEMMA RecountIs ==
  ASSUME NEW n, NEW u, NEW m
  PROVE  Recount(n, u, m) = Cardinality(BadOutside(n, u, m, {})) + Base(n, u)
  <1>1. {c \in Conds(n, u) : ~ Holds(n, u, c, m[c.place])} = BadOutside(n, u, m, {})
    BY DEF BadOutside
  <1> QED
    BY <1>1 DEF Recount, Base

-----------------------------------------------------------------------------
(* deficit. *)

\* Saturation keeps the sign.
LEMMA ClampSign ==
  \A x \in Int : (Clamp(x) > 0 <=> x > 0) /\ (Clamp(x) < 0 <=> x < 0)
  BY MaxIntAssumption DEF Clamp, Count, MinInt

\* A condition lacks nothing exactly when it holds: saturation never turns a
\* shortage into none.
LEMMA LackType ==
  ASSUME NEW n \in Nets, NEW t \in Transition, NEW m \in Marking, NEW c \in Conds(n, t)
  PROVE  /\ Lack(n, t, c, m[c.place]) \in Nat
         /\ Lack(n, t, c, m[c.place]) = 0 <=> Holds(n, t, c, m[c.place])
  <1>1. ASSUME NEW x \in Int
        PROVE  Short(x) \in Nat /\ (Short(x) = 0 <=> x <= 0)
    BY DEF Short
  <1>2. PICK v \in Count : v = m[c.place]
    BY CondPlaces DEF Marking
  <1>3. v \in Int
    BY CountInt
  <1>4. CASE c.arc = 0
    <2>1. c.place \in Place
      BY CondPlaces
    <2>2. PICK e \in Int : e = NetEffect(n, t, c.place)
      BY <2>1, NetEffectType, CountInt
    <2>3. PICK cap \in Int : cap = n.cap[c.place]
      BY <2>1, NetsAssumption, CountInt DEF Net
    <2>4. v + e \in Int
      BY <1>3, <2>2
    <2>5. Clamp(v + e) - cap \in Int
      BY <2>3, <2>4, ClampInt
    <2>6. Clamp(Clamp(v + e) - cap) \in Int
      BY <2>5, ClampInt
    <2>7. Clamp(Clamp(v + e) - cap) <= 0 <=> Clamp(v + e) - cap <= 0
      BY <2>5, <2>6, ClampSign
    <2>8. Clamp(v + e) - cap <= 0 <=> Clamp(v + e) <= cap
      BY <2>3, <2>4, ClampInt
    <2> QED
      BY <1>1, <1>2, <1>4, <2>2, <2>3, <2>6, <2>7, <2>8 DEF Lack, Holds
  <1>5. CASE c.arc # 0
    <2>1. c.arc \in DOMAIN n.arcs
      BY <1>5 DEF Conds, Inputs, Tests
    <2>2. PICK w \in Int : w = Weight(n.arcs[c.arc])
      BY <2>1, ArcsType
    <2>3. v - w \in Int /\ w - v \in Int
      BY <1>3, <2>2
    <2>4. CASE n.arcs[c.arc].typ = "inhibitor"
      <3>1. PICK x \in Int : x = Clamp(v - w)
        BY <2>3, ClampInt
      <3>2. x + 1 \in Int /\ Clamp(x + 1) \in Int
        BY ClampInt
      <3>3. Clamp(x + 1) <= 0 <=> x < 0
        BY <3>2, ClampSign
      <3>4. x < 0 <=> v < w
        BY <1>3, <2>2, <2>3, <3>1, ClampSign
      <3>5. Lack(n, t, c, v) = Short(Clamp(x + 1)) /\ Holds(n, t, c, v) = (v < w)
        BY <1>5, <2>2, <2>4, <3>1 DEF Lack, Holds, Passes
      <3> QED
        BY <1>1, <1>2, <3>2, <3>3, <3>4, <3>5
    <2>5. CASE n.arcs[c.arc].typ # "inhibitor"
      <3>1. PICK x \in Int : x = Clamp(w - v)
        BY <2>3, ClampInt
      <3>2. x <= 0 <=> w <= v
        BY <1>3, <2>2, <2>3, <3>1, ClampSign
      <3>3. Lack(n, t, c, v) = Short(x) /\ Holds(n, t, c, v) = (v >= w)
        BY <1>5, <2>2, <2>5, <3>1 DEF Lack, Holds, Passes
      <3> QED
        BY <1>1, <1>2, <1>3, <2>2, <3>2, <3>3
    <2> QED
      BY <2>4, <2>5
  <1> QED
    BY <1>4, <1>5

-----------------------------------------------------------------------------
(* The invariant holds at the start and every step preserves it. *)

\* The invariant holds at first.
LEMMA InitIInv == Init => IInv
  <1> SUFFICES ASSUME Init PROVE IInv
    OBVIOUS
  <1> USE DEF Init
  <1>1. mk \in Marking
    BY StartsAssumption DEF Marking
  <1>2. \A u \in Transition :
          failing[u] = Cardinality(BadOutside(net, u, mk, {})) + Base(net, u)
    BY RecountIs
  <1>3. TakenOut = {} /\ Stale = {}
    BY DEF TakenOut, Stale
  <1>4. failing \in [Transition -> Nat]
    <2>1. \A u \in Transition : Recount(net, u, mk) \in Nat
      BY RecountIs, CountType
    <2> QED
      BY <2>1
  <1>5. trail \in Seq([t : Transition, from : Marking, exact : BOOLEAN]) /\ Len(trail) = 0
    BY EmptySeq
  <1>6. TypeOK
    BY <1>1, <1>4, <1>5 DEF TypeOK, Op
  <1>7. Accounted
    BY <1>2, <1>3 DEF Accounted
  <1>8. BitsRight
    BY DEF BitsRight
  <1>9. Underway
    BY DEF Underway
  <1>10. TrailRight
    BY <1>5 DEF TrailRight
  <1> QED
    BY <1>6, <1>7, <1>8, <1>9, <1>10 DEF IInv

\* Entering a firing keeps the invariant.
LEMMA BeginFireIInv ==
  ASSUME IInv, NEW t \in Transition, BeginFire(t)
  PROVE  IInv'
  <1> USE DEF IInv, BeginFire
  <1>1. pending = {} /\ pending' = Touched(net, t) /\ Touched(net, t) \subseteq Place
    BY TouchedPlaces DEF Underway, TypeOK
  <1>2. TypeOK'
    BY <1>1 DEF TypeOK, Op
  <1>3. TakenOut = {} /\ TakenOut' = {} /\ Stale = {} /\ op'.t = t
    BY <1>1 DEF TakenOut, Stale
  <1>4. Accounted'
    BY <1>3 DEF Accounted
  <1>5. \A u \in Transition : u \in set <=> failing[u] = 0
    BY <1>3 DEF BitsRight
  <1>6. BitsRight'
    BY <1>5 DEF BitsRight
  <1>7. Enabled(net, t, mk)
    <2>1. Cardinality(BadOutside(net, t, mk, {})) + Base(net, t) = 0
      BY <1>3, <1>5 DEF Accounted
    <2> QED
      BY <2>1, EnabledByConds DEF TypeOK
  <1>8. Underway'
    BY <1>1, <1>3, <1>7 DEF Underway
  <1>9. TrailRight'
    BY DEF TrailRight, Reached
  <1> QED
    BY <1>2, <1>4, <1>6, <1>8, <1>9

\* Entering an undo keeps the invariant.
LEMMA BeginUndoIInv ==
  ASSUME IInv, BeginUndo
  PROVE  IInv'
  <1> DEFINE t == trail[Len(trail)].t
  <1> USE DEF IInv, BeginUndo
  <1>1. t \in Transition
    <2>1. trail \in Seq([t : Transition, from : Marking, exact : BOOLEAN])
      BY DEF TypeOK
    <2>2. Len(trail) \in 1 .. Len(trail)
      BY <2>1, EmptySeq
    <2>3. trail[Len(trail)] \in [t : Transition, from : Marking, exact : BOOLEAN]
      BY <2>1, <2>2, ElementOfSeq
    <2> QED
      BY <2>3
  <1>2. pending = {} /\ pending' = Touched(net, t) /\ Touched(net, t) \subseteq Place
    BY <1>1, TouchedPlaces DEF Underway, TypeOK
  <1>3. TypeOK'
    BY <1>1, <1>2 DEF TypeOK, Op
  <1>4. TakenOut = {} /\ TakenOut' = {} /\ Stale = {} /\ op'.t = t
    BY <1>2 DEF TakenOut, Stale
  <1>5. Accounted'
    BY <1>4 DEF Accounted
  <1>6. \A u \in Transition : u \in set <=> failing[u] = 0
    BY <1>4 DEF BitsRight
  <1>7. BitsRight'
    BY <1>6 DEF BitsRight
  <1>8. Underway'
    BY <1>2, <1>4 DEF Underway
  <1>9. TrailRight'
    BY DEF TrailRight, Reached
  <1> QED
    BY <1>3, <1>5, <1>7, <1>8, <1>9

\* Taking a place's verdicts out keeps the invariant.
LEMMA TakeOutIInv ==
  ASSUME IInv, NEW p \in Place, TakeOut(p)
  PROVE  IInv'
  <1> USE DEF IInv, TakeOut
  <1>1. p \in Touched(net, op.t) /\ p \notin TakenOut /\ TakenOut' = TakenOut \cup {p}
    BY DEF Underway, TakenOut
  <1>2. ASSUME NEW u \in Transition
        PROVE  /\ failing'[u] = Cardinality(BadOutside(net, u, mk, TakenOut')) + Base(net, u)
               /\ failing'[u] \in Nat
    <2>1. Cardinality(BadOutside(net, u, mk, TakenOut))
            = Cardinality(BadOutside(net, u, mk, TakenOut')) + Cardinality(FailingAt(net, u, p, mk))
      BY <1>1, CountSplit DEF TypeOK
    <2>2. failing[u] = Cardinality(BadOutside(net, u, mk, TakenOut)) + Base(net, u)
      BY DEF Accounted
    <2>3. /\ Cardinality(BadOutside(net, u, mk, TakenOut')) \in Nat
          /\ Cardinality(FailingAt(net, u, p, mk)) \in Nat
          /\ Base(net, u) \in {0, 1}
      BY CountType DEF TypeOK
    <2>4. failing'[u] = failing[u] - Cardinality(FailingAt(net, u, p, mk))
      OBVIOUS
    <2> QED
      BY <2>1, <2>2, <2>3, <2>4
  <1>3. failing' \in [Transition -> Nat]
    BY <1>2
  <1>4. TypeOK'
    BY <1>3 DEF TypeOK
  <1>5. Accounted'
    BY <1>2 DEF Accounted
  <1>6. BitsRight'
    <2>1. Stale' = Stale /\ Stale = Touched(net, op.t)
      BY DEF Stale
    <2>2. ASSUME NEW u \in Transition, \A c \in Conds(net, u) : c.place \notin Stale
          PROVE  failing'[u] = failing[u]
      <3>1. FailingAt(net, u, p, mk) = {}
        BY <1>1, <2>1, <2>2 DEF FailingAt, CondsAt
      <3>2. Cardinality(FailingAt(net, u, p, mk)) = 0
        BY <3>1, FS_EmptySet
      <3> QED
        BY <3>2 DEF TypeOK
    <2> QED
      BY <2>1, <2>2 DEF BitsRight
  <1>7. Underway'
    BY DEF Underway
  <1>8. TrailRight'
    BY DEF TrailRight, Reached
  <1> QED
    BY <1>4, <1>5, <1>6, <1>7, <1>8

\* Putting a place's new verdicts in keeps the invariant.
LEMMA PutInIInv ==
  ASSUME IInv, NEW p \in Place, PutIn(p)
  PROVE  IInv'
  <1> USE DEF IInv, PutIn
  <1>1. TakenOut = pending /\ TakenOut' = pending \ {p} /\ TakenOut = TakenOut' \cup {p}
        /\ p \notin TakenOut'
    BY DEF TakenOut
  <1>2. ASSUME NEW u \in Transition
        PROVE  /\ failing'[u] = Cardinality(BadOutside(net, u, mk, TakenOut')) + Base(net, u)
               /\ failing'[u] \in Nat
    <2>1. Cardinality(BadOutside(net, u, mk, TakenOut'))
            = Cardinality(BadOutside(net, u, mk, TakenOut)) + Cardinality(FailingAt(net, u, p, mk))
      <3>1. Cardinality(BadOutside(net, u, mk, pending \ {p}))
              = Cardinality(BadOutside(net, u, mk, (pending \ {p}) \cup {p}))
                  + Cardinality(FailingAt(net, u, p, mk))
        BY CountSplit DEF TypeOK
      <3>2. (pending \ {p}) \cup {p} = pending
        OBVIOUS
      <3> QED
        BY <1>1, <3>1, <3>2
    <2>2. failing[u] = Cardinality(BadOutside(net, u, mk, TakenOut)) + Base(net, u)
      BY DEF Accounted
    <2>3. /\ Cardinality(BadOutside(net, u, mk, TakenOut)) \in Nat
          /\ Cardinality(FailingAt(net, u, p, mk)) \in Nat
          /\ Base(net, u) \in {0, 1}
      BY CountType DEF TypeOK
    <2>4. failing'[u] = failing[u] + Cardinality(FailingAt(net, u, p, mk))
      OBVIOUS
    <2> QED
      BY <2>1, <2>2, <2>3, <2>4
  <1>3. failing' \in [Transition -> Nat]
    BY <1>2
  <1>4. TypeOK'
    BY <1>3 DEF TypeOK
  <1>5. Accounted'
    BY <1>2 DEF Accounted
  <1>6. BitsRight'
    <2>1. Stale = pending /\ Stale' = pending \ {p}
      BY DEF Stale
    <2>2. ASSUME NEW u \in Transition, \A c \in Conds(net, u) : c.place \notin Stale'
          PROVE  u \in set' <=> failing'[u] = 0
      <3>1. CASE CondsAt(net, u, p) # {}
        BY <3>1
      <3>2. CASE CondsAt(net, u, p) = {}
        <4>1. \A c \in Conds(net, u) : c.place \notin Stale
          BY <2>1, <2>2, <3>2 DEF CondsAt
        <4>2. Cardinality(FailingAt(net, u, p, mk)) = 0
          BY <3>2, FS_EmptySet DEF FailingAt
        <4>3. failing'[u] = failing[u]
          BY <4>2 DEF TypeOK
        <4>4. u \in set' <=> u \in set
          BY <3>2
        <4> QED
          BY <4>1, <4>3, <4>4 DEF BitsRight
      <3> QED
        BY <3>1, <3>2
    <2> QED
      BY <2>2 DEF BitsRight
  <1>7. Underway'
    BY DEF Underway
  <1>8. TrailRight'
    BY DEF TrailRight, Reached
  <1> QED
    BY <1>4, <1>5, <1>6, <1>7, <1>8

\* Changing the marking keeps the invariant.
LEMMA ApplyIInv ==
  ASSUME IInv, Apply
  PROVE  IInv'
  <1> DEFINE T == [t : Transition, from : Marking, exact : BOOLEAN]
  <1> DEFINE n == Len(trail)
  <1> USE DEF IInv, Apply
  <1>1. op.t \in Transition /\ op.undo \in BOOLEAN /\ mk \in Marking /\ net \in Nets
    BY DEF TypeOK, Op
  <1>2. trail \in Seq(T) /\ n \in Nat /\ \A k \in 1 .. n : trail[k] \in T
    <2>1. trail \in Seq(T)
      BY DEF TypeOK
    <2> QED
      BY <2>1, LenProperties, ElementOfSeq
  <1>3. /\ mk' \in Marking
        /\ \A p \in Place : p \notin Touched(net, op.t) => mk'[p] = mk[p]
    BY <1>1, RuleType, Elsewhere
  <1>4. pending' = Touched(net, op.t) /\ pending' \subseteq Place
    BY <1>1, TouchedPlaces
  <1>5. TakenOut = Touched(net, op.t) /\ TakenOut' = Touched(net, op.t)
        /\ Stale = Touched(net, op.t) /\ Stale' = Touched(net, op.t)
    BY DEF TakenOut, Stale
  <1>6. Accounted'
    <2>1. ASSUME NEW u \in Transition
          PROVE  BadOutside(net, u, mk', Touched(net, op.t))
                   = BadOutside(net, u, mk, Touched(net, op.t))
      <3>1. \A c \in Conds(net, u) : c.place \in Place
        BY <1>1, CondPlaces
      <3>2. \A c \in Conds(net, u) : c.place \notin Touched(net, op.t) => mk'[c.place] = mk[c.place]
        BY <1>3, <3>1
      <3> QED
        BY <3>2 DEF BadOutside
    <2>2. \A u \in Transition :
            failing[u] = Cardinality(BadOutside(net, u, mk, Touched(net, op.t))) + Base(net, u)
      BY <1>5 DEF Accounted
    <2> QED
      BY <1>5, <2>1, <2>2 DEF Accounted
  <1>7. BitsRight'
    BY <1>5 DEF BitsRight
  <1>8. Underway'
    BY <1>4 DEF Underway
  <1>9. CASE op.undo
    <2> DEFINE rest == SubSeq(trail, 1, n - 1)
    <2>1. n \in 1 .. n /\ trail[n] \in T /\ op.t = trail[n].t
      <3>1. trail # <<>> /\ op.t = trail[n].t
        BY <1>9 DEF Underway
      <3>2. n \in 1 .. n
        BY <1>2, <3>1, EmptySeq
      <3> QED
        BY <1>2, <3>1, <3>2
    <2>2. rest \in Seq(T) /\ Len(rest) = n - 1 /\ \A k \in 1 .. n - 1 : rest[k] = trail[k]
      <3>1. \A k \in 1 .. n - 1 : trail[k] \in T
        BY <1>2
      <3>2. /\ SubSeq(trail, 1, n - 1) \in Seq(T)
            /\ Len(SubSeq(trail, 1, n - 1)) = IF 1 <= n - 1 THEN n - 1 - 1 + 1 ELSE 0
            /\ \A k \in 1 .. n - 1 - 1 + 1 : SubSeq(trail, 1, n - 1)[k] = trail[1 + k - 1]
        BY <1>2, <3>1, SubSeqProperties
      <3>3. \A k \in 1 .. n - 1 : 1 + k - 1 = k /\ k \in 1 .. n - 1 - 1 + 1
        BY <1>2
      <3>4. \A k \in 1 .. n - 1 : rest[k] = trail[k]
        BY <3>2, <3>3
      <3>5. Len(rest) = n - 1
        <4>1. \A x \in Int : x >= 1 => (IF 1 <= x - 1 THEN x - 1 - 1 + 1 ELSE 0) = x - 1
          OBVIOUS
        <4>2. n \in Int /\ n >= 1
          BY <1>2, <2>1
        <4>3. Len(rest) = IF 1 <= n - 1 THEN n - 1 - 1 + 1 ELSE 0
          BY <3>2
        <4> QED
          BY <4>1, <4>2, <4>3
      <3> QED
        BY <3>2, <3>4, <3>5
    <2>3. CASE trail[n].exact
      <3>1. trail' = rest
        BY <1>9, <2>3
      <3>2. mk' = trail[n].from
        <4>1. Exact(net, trail[n].t, trail[n].from) /\ mk = Fire(net, trail[n].t, trail[n].from)
          BY <2>1, <2>3 DEF TrailRight, Reached
        <4>2. trail[n].from \in Marking
          BY <2>1
        <4> QED
          BY <1>1, <1>9, <2>1, <4>1, <4>2, UnfireFire
      <3>3. TrailRight'
        <4>1. ASSUME NEW k \in 1 .. n - 1, trail[k].exact
              PROVE  Reached(k)' = Reached(k)
          <5>1. CASE k = n - 1
            <6>1. k + 1 = n /\ k # n
              BY <1>2, <5>1
            <6>2. Reached(k) = trail[n].from
              BY <6>1 DEF Reached
            <6>3. Len(trail') = k
              BY <2>2, <3>1, <5>1
            <6> QED
              BY <3>2, <6>2, <6>3 DEF Reached
          <5>2. CASE k # n - 1
            <6>1. k + 1 \in 1 .. n - 1 /\ k # n
              BY <1>2, <5>2
            <6> QED
              BY <2>2, <3>1, <5>2, <6>1 DEF Reached
          <5> QED
            BY <5>1, <5>2
        <4>2. \A k \in 1 .. n - 1 : k \in 1 .. n
          BY <1>2
        <4> QED
          BY <2>2, <3>1, <4>1, <4>2 DEF TrailRight
      <3>4. TypeOK'
        BY <1>3, <1>4, <2>2, <3>1 DEF TypeOK
      <3> QED
        BY <1>6, <1>7, <1>8, <3>3, <3>4
    <2>4. CASE ~ trail[n].exact
      <3>1. trail' = Inexact(rest)
        BY <1>9, <2>4
      <3>2. \A k \in 1 .. n - 1 : Inexact(rest)[k] \in T /\ ~ Inexact(rest)[k].exact
        <4>1. \A k \in 1 .. n - 1 : rest[k] \in T
          BY <1>2, <2>2
        <4> QED
          BY <2>2, <4>1 DEF Inexact
      <3>3. Inexact(rest) \in Seq(T) /\ Len(Inexact(rest)) = n - 1
        <4>1. Inexact(rest) = [k \in 1 .. n - 1 |-> Inexact(rest)[k]]
          BY <2>2 DEF Inexact
        <4>2. n - 1 \in Nat
          BY <1>2, <2>1
        <4>3. Inexact(rest) \in [1 .. n - 1 -> T]
          BY <3>2, <4>1
        <4>4. Inexact(rest) \in Seq(T)
          BY <4>2, <4>3, SeqDef
        <4>5. 1 .. Len(Inexact(rest)) = 1 .. n - 1 /\ Len(Inexact(rest)) \in Nat
          BY <4>3, <4>4, LenProperties
        <4>6. Len(Inexact(rest)) = n - 1
          BY <4>2, <4>5
        <4> QED
          BY <4>4, <4>6
      <3>4. TrailRight'
        BY <3>1, <3>2, <3>3 DEF TrailRight
      <3>5. TypeOK'
        BY <1>3, <1>4, <3>1, <3>3 DEF TypeOK
      <3> QED
        BY <1>6, <1>7, <1>8, <3>4, <3>5
    <2> QED
      BY <2>3, <2>4
  <1>10. CASE ~ op.undo
    <2> DEFINE f == [t |-> op.t, from |-> mk, exact |-> Exact(net, op.t, mk)]
    <2>1. trail' = Append(trail, f) /\ mk' = Fire(net, op.t, mk)
      BY <1>10
    <2>2. f \in T
      BY <1>1 DEF Exact
    <2>3. /\ trail' \in Seq(T)
          /\ Len(trail') = n + 1
          /\ trail'[n + 1] = f
          /\ \A k \in 1 .. n : trail'[k] = trail[k]
      BY <1>2, <2>1, <2>2
    <2>4. TrailRight'
      <3>1. ASSUME NEW k \in 1 .. n, trail[k].exact
            PROVE  Reached(k)' = Reached(k)
        <4>1. CASE k = n
          BY <1>2, <2>3, <4>1 DEF Reached
        <4>2. CASE k # n
          <5>1. k + 1 \in 1 .. n /\ k # n + 1
            BY <1>2, <4>2
          <5> QED
            BY <2>3, <4>2, <5>1 DEF Reached
        <4> QED
          BY <4>1, <4>2
      <3>2. ASSUME NEW k, k = n + 1
            PROVE  Reached(k)' = mk' /\ trail'[k] = f
        <4>1. Len(trail') = k
          BY <2>3, <3>2
        <4> QED
          BY <2>3, <3>2, <4>1 DEF Reached
      <3>3. \A k \in 1 .. Len(trail') : k \in 1 .. n \/ k = n + 1
        BY <1>2, <2>3
      <3>4. ASSUME NEW k \in 1 .. Len(trail'), trail'[k].exact
            PROVE  /\ Exact(net, trail'[k].t, trail'[k].from)
                   /\ Reached(k)' = Fire(net, trail'[k].t, trail'[k].from)
        <4>1. CASE k \in 1 .. n
          BY <2>3, <3>1, <3>4, <4>1 DEF TrailRight
        <4>2. CASE k = n + 1
          BY <2>1, <3>2, <3>4, <4>2
        <4> QED
          BY <3>3, <4>1, <4>2
      <3>5. net' = net
        OBVIOUS
      <3> QED
        BY <3>4, <3>5 DEF TrailRight
    <2>5. TypeOK'
      BY <1>3, <1>4, <2>3 DEF TypeOK
    <2> QED
      BY <1>6, <1>7, <1>8, <2>4, <2>5
  <1> QED
    BY <1>1, <1>9, <1>10

\* The end of an update keeps the invariant.
LEMMA FinishIInv ==
  ASSUME IInv, Finish
  PROVE  IInv'
  <1> USE DEF IInv, Finish
  <1>1. TypeOK'
    BY DEF TypeOK
  <1>2. TakenOut = {} /\ TakenOut' = {} /\ Stale = {} /\ Stale' = {}
    BY DEF TakenOut, Stale
  <1>3. Accounted'
    BY <1>2 DEF Accounted
  <1>4. BitsRight'
    BY <1>2 DEF BitsRight
  <1>5. Underway'
    BY DEF Underway
  <1>6. TrailRight'
    BY DEF TrailRight, Reached
  <1> QED
    BY <1>1, <1>3, <1>4, <1>5, <1>6

\* A step that changes nothing keeps the invariant.
LEMMA StutterIInv == ASSUME IInv, UNCHANGED vars PROVE IInv'
  BY DEF vars, IInv, TypeOK, Accounted, BitsRight, Underway, TrailRight, Reached, TakenOut, Stale

\* Every step keeps the invariant.
LEMMA NextIInv == IInv /\ [Next]_vars => IInv'
  <1> SUFFICES ASSUME IInv, [Next]_vars PROVE IInv'
    OBVIOUS
  <1>1. ASSUME NEW t \in Transition, BeginFire(t) PROVE IInv'
    BY <1>1, BeginFireIInv
  <1>2. CASE BeginUndo
    BY <1>2, BeginUndoIInv
  <1>3. ASSUME NEW p \in Place, TakeOut(p) PROVE IInv'
    BY <1>3, TakeOutIInv
  <1>4. ASSUME NEW p \in Place, PutIn(p) PROVE IInv'
    BY <1>4, PutInIInv
  <1>5. CASE Apply
    BY <1>5, ApplyIInv
  <1>6. CASE Finish
    BY <1>6, FinishIInv
  <1>7. CASE UNCHANGED vars
    BY <1>7, StutterIInv
  <1> QED
    BY <1>1, <1>2, <1>3, <1>4, <1>5, <1>6, <1>7 DEF Next

-----------------------------------------------------------------------------
(* The theorems. *)

\* The invariant of the engine: every reachable state satisfies it.
THEOREM Invariance == Spec => []IInv
  BY InitIInv, NextIInv, PTL DEF Spec

\* The counts stay natural numbers in the middle of every update, and the rest
\* of the state has its type (indexed.rs, retrack).
THEOREM TypeCorrect == Spec => []TypeOK
  <1>1. IInv => TypeOK
    BY DEF IInv
  <1> QED
    BY <1>1, Invariance, PTL

\* deficit is zero exactly when the reference rule enables the transition,
\* whatever saturates on the way (indexed.rs deficit, which steers its search
\* by it).
THEOREM DeficitExact == Spec => []DeficitZeroIffEnabled
  <1>1. IInv => DeficitZeroIffEnabled
    <2> SUFFICES ASSUME IInv, NEW t \in Transition
                 PROVE  Deficit(net, t, mk) = 0 <=> Enabled(net, t, mk)
      BY DEF DeficitZeroIffEnabled
    <2>1. net \in Nets /\ mk \in Marking
      BY DEF IInv, TypeOK
    <2>2. Never \in Nat /\ Never # 0
      BY MaxIntAssumption DEF Never
    <2>3. CASE Invalid(net, t)
      BY <2>2, <2>3 DEF Deficit, Enabled
    <2>4. CASE ~ Invalid(net, t)
      <3> DEFINE C == Conds(net, t)
                 lack == [c \in C |-> Lack(net, t, c, mk[c.place])]
                 d == SumFunctionOnSet(lack, C)
      <3>1. IsFiniteSet(C)
        BY <2>1, CondsFinite
      <3>2. \A c \in C : lack[c] \in Nat /\ (lack[c] = 0 <=> Holds(net, t, c, mk[c.place]))
        BY <2>1, LackType
      <3>3. Deficit(net, t, mk) = IF d > Never THEN Never ELSE d
        BY <2>4 DEF Deficit, SumFunction
      <3>4. Enabled(net, t, mk) <=> \A c \in C : Holds(net, t, c, mk[c.place])
        BY <2>1, <2>4, EnabledIsConds
      <3> HIDE DEF lack, C
      <3>5. d \in Nat /\ \A c \in C : lack[c] <= d
        BY <3>1, <3>2, SumNotNegative
      <3>6. d = 0 <=> \A c \in C : lack[c] = 0
        <4>1. ASSUME d = 0, NEW c \in C PROVE lack[c] = 0
          BY <3>2, <3>5, <4>1
        <4>2. ASSUME \A c \in C : lack[c] = 0 PROVE d = 0
          BY <3>1, <4>2, SumZero
        <4> QED
          BY <4>1, <4>2
      <3> HIDE DEF d
      <3>7. Deficit(net, t, mk) = 0 <=> d = 0
        BY <2>2, <3>3, <3>5
      <3> QED
        BY <3>2, <3>4, <3>6, <3>7
    <2> QED
      BY <2>3, <2>4
  <1> QED
    BY <1>1, Invariance, PTL

\* At rest the counts and the tracked set are those of a full recheck by the
\* reference rule, and deficit agrees (indexed.rs fire_tracked and unfire_tracked,
\* firing.rs enabled).
THEOREM TrackedIsExact == Spec => []TrackedExact
  <1>1. IInv /\ DeficitZeroIffEnabled => TrackedExact
    <2> SUFFICES ASSUME IInv, DeficitZeroIffEnabled, phase = "rest"
                 PROVE  /\ failing = [u \in Transition |-> Recount(net, u, mk)]
                        /\ set = {u \in Transition : Enabled(net, u, mk)}
      BY DEF TrackedExact
    <2> USE DEF IInv
    <2>1. TakenOut = {} /\ Stale = {}
      BY DEF Underway, TakenOut, Stale
    <2>2. \A u \in Transition :
            failing[u] = Cardinality(BadOutside(net, u, mk, {})) + Base(net, u)
      BY <2>1 DEF Accounted
    <2>3. failing = [u \in Transition |-> Recount(net, u, mk)]
      BY <2>2, RecountIs DEF TypeOK
    <2>4. \A u \in Transition : u \in set <=> failing[u] = 0
      BY <2>1 DEF BitsRight
    <2>5. \A u \in Transition : u \in set <=> Enabled(net, u, mk)
      BY <2>2, <2>4, EnabledByConds DEF TypeOK
    <2> QED
      BY <2>3, <2>5 DEF TypeOK
  <1> QED
    BY <1>1, Invariance, DeficitExact, PTL

\* The engine implements Walk: its firings are the reference rule's, and its
\* undo is exact unless a count saturated (indexed.rs unfire_tracked).
THEOREM ImplementsWalk == Spec => WalkSpec
  <1>1. Init => W!Init
    BY DEF Init, W!Init
  <1>2. IInv /\ [Next]_vars => [W!Next]_(W!vars)
    <2> SUFFICES ASSUME IInv, [Next]_vars
                 PROVE  W!Next \/ UNCHANGED <<net, mk, trail>>
      BY DEF W!vars
    <2>1. CASE Apply
      <3>1. op.t \in Transition /\ op.undo \in BOOLEAN /\ mk \in Marking /\ net \in Nets
        BY DEF IInv, TypeOK, Op
      <3>2. CASE op.undo
        <4>1. trail # <<>> /\ op.t = trail[Len(trail)].t
          BY <2>1, <3>2 DEF IInv, Underway, Apply
        <4>2. trail \in Seq([t : Transition, from : Marking, exact : BOOLEAN])
          BY DEF IInv, TypeOK
        <4>3. Len(trail) \in 1 .. Len(trail)
          BY <4>1, <4>2, EmptySeq
        <4>4. trail[Len(trail)] \in [t : Transition, from : Marking, exact : BOOLEAN]
          BY <4>2, <4>3, ElementOfSeq
        <4>5. mk' = Unfire(net, op.t, mk) /\ mk' \in Marking /\ net' = net
          BY <2>1, <3>1, <3>2, RuleType DEF Apply
        <4>6. trail' = LET rest == SubSeq(trail, 1, Len(trail) - 1)
                       IN  IF trail[Len(trail)].exact THEN rest ELSE W!Inexact(rest)
          BY <2>1, <3>2 DEF Apply, Inexact, W!Inexact
        <4>7. ASSUME trail[Len(trail)].exact
              PROVE  mk' = trail[Len(trail)].from
          <5>1. /\ Exact(net, trail[Len(trail)].t, trail[Len(trail)].from)
                /\ mk = Fire(net, trail[Len(trail)].t, trail[Len(trail)].from)
            BY <4>3, <4>7 DEF IInv, TrailRight, Reached
          <5>2. trail[Len(trail)].from \in Marking
            BY <4>4
          <5> QED
            BY <3>1, <4>1, <4>5, <5>1, <5>2, UnfireFire
        <4>8. W!Back
          BY <4>1, <4>5, <4>6, <4>7 DEF W!Back
        <4> QED
          BY <4>8 DEF W!Next
      <3>3. CASE ~ op.undo
        <4>1. Len(trail) < MaxDepth /\ Enabled(net, op.t, mk)
          BY <2>1, <3>3 DEF IInv, Underway, Apply
        <4>2. W!Step(op.t)
          BY <2>1, <3>3, <4>1 DEF Apply, W!Step
        <4> QED
          BY <3>1, <4>2 DEF W!Next
      <3> QED
        BY <3>1, <3>2, <3>3
    <2>2. CASE ~ Apply
      BY <2>2 DEF Next, vars, BeginFire, BeginUndo, TakeOut, PutIn, Finish
    <2> QED
      BY <2>1, <2>2
  <1> QED
    BY <1>1, <1>2, Invariance, PTL DEF Spec, WalkSpec, W!Spec

=============================================================================
