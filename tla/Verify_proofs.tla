---------------------------- MODULE Verify_proofs ----------------------------
(***************************************************************************)
(* What the verifier concludes by algebra alone is so, for every net and   *)
(* all limits: the elimination gives nothing but laws of the net, and each *)
(* marking of the graph keeps them, unless a firing saturates a count.     *)
(***************************************************************************)
EXTENDS Verify, FiringRule_proofs

-----------------------------------------------------------------------------
(* What coefficients make of counts. *)

\* It is a sum over the places that have one.
LEMMA ValueIs ==
  ASSUME NEW y, IsFiniteSet(DOMAIN y), NEW c
  PROVE  Value(y, c) = SumFunctionOnSet([p \in DOMAIN y |-> y[p] * c[p]], DOMAIN y)
  <1> DEFINE D == DOMAIN y
             f == [p \in D |-> y[p] * c[p]]
             it == CHOOSE g : g = [s \in SUBSET D |->
                     IF s = {} THEN 0
                     ELSE y[CHOOSE x \in s : TRUE] * c[CHOOSE x \in s : TRUE] + g[s \ {CHOOSE x \in s : TRUE}]]
  <1>1. Value(y, c) = it[D]
    BY DEF Value, MapThenSumSet, MapThenFoldSet
  <1>2. \A g : Solves(f, g, SUBSET D) <=>
          g = [s \in SUBSET D |->
                IF s = {} THEN 0
                ELSE y[CHOOSE x \in s : TRUE] * c[CHOOSE x \in s : TRUE] + g[s \ {CHOOSE x \in s : TRUE}]]
    <2> SUFFICES ASSUME NEW g
                 PROVE  Solves(f, g, SUBSET D) <=>
                          g = [s \in SUBSET D |->
                                IF s = {} THEN 0
                                ELSE y[CHOOSE x \in s : TRUE] * c[CHOOSE x \in s : TRUE] + g[s \ {CHOOSE x \in s : TRUE}]]
      OBVIOUS
    <2>1. \A s \in SUBSET D : s # {} => f[Some(s)] = y[Some(s)] * c[Some(s)]
      BY SomeOf
    <2> HIDE DEF f, D
    <2>2. [s \in SUBSET D |-> IF s = {} THEN 0 ELSE f[Some(s)] + g[s \ {Some(s)}]]
            = [s \in SUBSET D |-> IF s = {} THEN 0 ELSE y[Some(s)] * c[Some(s)] + g[s \ {Some(s)}]]
      BY <2>1
    <2> QED
      BY <2>2 DEF Solves, Some
  <1>3. PICK g : Solves(f, g, SUBSET D)
    BY SumsExist
  <1> HIDE DEF f, D
  <1>4. Solves(f, it, SUBSET D)
    BY <1>2, <1>3
  <1>5. IsFiniteSet(D) /\ D \in SUBSET D
    BY DEF D
  <1> HIDE DEF it
  <1>6. PICK h : Solves(f, h, SUBSET D) /\ SumFunctionOnSet(f, D) = h[D]
    BY <1>5, SumIsOne
  <1>7. it[D] = h[D]
    BY <1>4, <1>5, <1>6, SumsAgree
  <1> QED
    BY <1>1, <1>6, <1>7 DEF f, D

\* Coefficients and counts of these places.
Weighting == [Place -> Int]

\* It is a number.
LEMMA ValueType ==
  ASSUME NEW y, DOMAIN y \subseteq Place, NEW c, \A p \in DOMAIN y : y[p] \in Int /\ c[p] \in Int
  PROVE  IsFiniteSet(DOMAIN y) /\ Value(y, c) \in Int
  <1> DEFINE f == [p \in DOMAIN y |-> y[p] * c[p]]
  <1>1. IsFiniteSet(DOMAIN y)
    BY NodeAssumption, FS_Subset
  <1>2. \A p \in DOMAIN y : f[p] \in Int
    OBVIOUS
  <1>3. Value(y, c) = SumFunctionOnSet(f, DOMAIN y)
    BY <1>1, ValueIs
  <1> HIDE DEF f
  <1> QED
    BY <1>1, <1>2, <1>3, SumIsInt

\* It is linear in the coefficients.
LEMMA ValueOfCombination ==
  ASSUME NEW u \in Weighting, NEW v \in Weighting, NEW w \in Weighting, NEW c, \A p \in Place : c[p] \in Int,
         NEW a \in Int, NEW b \in Int, Combines(w, a, u, b, v, Place)
  PROVE  Value(w, c) = a * Value(u, c) + b * Value(v, c)
  <1> DEFINE of(y) == [p \in Place |-> y[p] * c[p]]
  <1>1. DOMAIN u = Place /\ DOMAIN v = Place /\ DOMAIN w = Place /\ IsFiniteSet(Place)
    BY NodeAssumption DEF Weighting
  <1>2. /\ Value(u, c) = SumFunctionOnSet(of(u), Place)
        /\ Value(v, c) = SumFunctionOnSet(of(v), Place)
        /\ Value(w, c) = SumFunctionOnSet(of(w), Place)
    BY <1>1, ValueIs
  <1>3. ASSUME NEW p \in Place
        PROVE  of(u)[p] \in Int /\ of(v)[p] \in Int /\ of(w)[p] = a * of(u)[p] + b * of(v)[p]
    <2> DEFINE x == u[p]  y == v[p]  z == c[p]
    <2>1. x \in Int /\ y \in Int /\ z \in Int /\ w[p] = a * x + b * y
      BY DEF Combines
    <2>2. of(u)[p] = x * z /\ of(v)[p] = y * z /\ of(w)[p] = w[p] * z
      OBVIOUS
    <2> HIDE DEF x, y, z
    <2>3. (a * x + b * y) * z = a * (x * z) + b * (y * z) /\ x * z \in Int /\ y * z \in Int
      BY <2>1
    <2> HIDE DEF of
    <2> QED
      BY <2>1, <2>2, <2>3
  <1> DEFINE fu == of(u)  fv == of(v)  fw == of(w)
  <1>4. SumFunctionOnSet(fw, Place) = a * SumFunctionOnSet(fu, Place) + b * SumFunctionOnSet(fv, Place)
    <2>1. Combines(fw, a, fu, b, fv, Place)
      BY <1>3 DEF Combines
    <2> HIDE DEF of, fu, fv, fw
    <2> QED
      BY <1>1, <2>1, SumCombined
  <1> HIDE DEF of
  <1> QED
    BY <1>2, <1>4

\* It is additive in the counts.
LEMMA ValueOfSum ==
  ASSUME NEW y \in Weighting, NEW c, NEW d, NEW e,
         \A p \in Place : c[p] \in Int /\ d[p] \in Int /\ e[p] = c[p] + d[p]
  PROVE  Value(y, e) = Value(y, c) + Value(y, d)
  <1> DEFINE of(x) == [p \in Place |-> y[p] * x[p]]
  <1>1. DOMAIN y = Place /\ IsFiniteSet(Place)
    BY NodeAssumption DEF Weighting
  <1>2. /\ Value(y, c) = SumFunctionOnSet(of(c), Place)
        /\ Value(y, d) = SumFunctionOnSet(of(d), Place)
        /\ Value(y, e) = SumFunctionOnSet(of(e), Place)
    BY <1>1, ValueIs
  <1>3. ASSUME NEW p \in Place
        PROVE  of(c)[p] \in Int /\ of(d)[p] \in Int /\ of(e)[p] = 1 * of(c)[p] + 1 * of(d)[p]
    <2>1. y[p] \in Int
      BY DEF Weighting
    <2> QED
      BY <2>1
  <1>4. SumFunctionOnSet(of(c), Place) \in Int /\ SumFunctionOnSet(of(d), Place) \in Int
    <2> HIDE DEF of
    <2> QED
      BY <1>1, <1>3, SumIsInt
  <1>5. SumFunctionOnSet(of(e), Place) = 1 * SumFunctionOnSet(of(c), Place) + 1 * SumFunctionOnSet(of(d), Place)
    <2> HIDE DEF of
    <2>1. Combines(of(e), 1, of(c), 1, of(d), Place)
      BY <1>3 DEF Combines
    <2> QED
      BY <1>1, <2>1, SumCombined
  <1> HIDE DEF of
  <1> QED
    BY <1>2, <1>4, <1>5

-----------------------------------------------------------------------------
(* The greatest common divisor. *)

\* Finitely many naturals have a bound.
LEMMA FinitelyBounded ==
  ASSUME NEW S, IsFiniteSet(S), S \subseteq Nat
  PROVE  \E n \in Nat : \A x \in S : x <= n
  <1> DEFINE T == {t \in SUBSET S : \E n \in Nat : \A x \in t : x <= n}
  <1>1. {} \in T
    OBVIOUS
  <1>2. ASSUME NEW t \in SUBSET S, t # {}, \A x \in t : t \ {x} \in T PROVE t \in T
    <2>1. PICK y \in t : TRUE
      BY <1>2
    <2>2. PICK n \in Nat : \A x \in t \ {y} : x <= n
      BY <1>2
    <2>3. y \in Nat /\ \A x \in t : x \in Nat
      OBVIOUS
    <2>4. \A x \in t : x <= n + y
      BY <2>2, <2>3
    <2>5. n + y \in Nat
      BY <2>3
    <2> HIDE DEF T
    <2> QED
      BY <2>4, <2>5 DEF T
  <1> HIDE DEF T
  <1>3. S \in T
    BY <1>1, <1>2, PartsInduct
  <1> QED
    BY <1>3 DEF T

\* Of numbers that are not all zero, it is one that divides each.
LEMMA DivisorIs ==
  ASSUME NEW S, IsFiniteSet(S), S \subseteq Nat, NEW z \in S, z > 0
  PROVE  GreatestDivisor(S) \in Nat \ {0} /\ \A x \in S : x % GreatestDivisor(S) = 0
  <1> DEFINE P == S \ {0}
             top == Max(S)
             D == {d \in 1 .. top : \A x \in S : x % d = 0}
  <1>1. PICK n \in Nat : \A x \in S : x <= n
    BY FinitelyBounded
  <1>2. P \in SUBSET (1 .. n) /\ P # {} /\ z \in P
    BY <1>1
  <1>3. Max(P) \in P /\ \A x \in P : x <= Max(P)
    <2> HIDE DEF P
    <2> QED
      BY <1>2, Greatest
  <1>4. \E m \in S : \A x \in S : m >= x
    <2> DEFINE m == Max(P)
    <2>1. m \in P /\ \A x \in P : x <= m
      BY <1>3
    <2> HIDE DEF m
    <2>2. m \in S /\ \A x \in S : m >= x
      BY <2>1
    <2> QED
      BY <2>2
  <1>5. top \in S /\ \A x \in S : top >= x
    BY <1>4 DEF Max
  <1> HIDE DEF top
  <1>6. top \in Nat /\ top >= 1
    BY <1>5
  <1>7. \A x \in S : x % 1 = 0
    OBVIOUS
  <1>8. 1 \in D /\ D \in SUBSET (1 .. top)
    BY <1>6, <1>7
  <1>9. GreatestDivisor(S) = Max(D)
    BY DEF GreatestDivisor, top
  <1>10. Max(D) \in D
    <2> HIDE DEF D
    <2> QED
      BY <1>6, <1>8, Greatest
  <1> QED
    BY <1>9, <1>10

\* A multiple has its factor for quotient.
LEMMA Quotient ==
  ASSUME NEW g \in Nat \ {0}, NEW q \in Int, NEW x \in Int, x = g * q
  PROVE  x \div g = q /\ x % g = 0
  <1>1. x \div g \in Int /\ x % g \in 0 .. g - 1 /\ x = g * (x \div g) + (x % g)
    OBVIOUS
  <1> DEFINE k == x \div g  r == x % g  d == q - k
  <1>2. k \in Int /\ r \in Int /\ 0 <= r /\ r < g /\ g * q = g * k + r
    BY <1>1
  <1> HIDE DEF k, r
  <1>3. d \in Int /\ r = g * d
    BY <1>2
  <1> HIDE DEF d
  <1>4. d = 0
    <2>1. d >= 1 => g * d >= g
      BY <1>3
    <2>2. d <= -1 => g * d <= -g
      BY <1>3
    <2> QED
      BY <1>2, <1>3, <2>1, <2>2
  <1>5. r = 0
    BY <1>3, <1>4
  <1> QED
    BY <1>2, <1>4, <1>5 DEF k, r, d

\* What a number divides, it divides without rest, whatever the sign.
LEMMA Divides ==
  ASSUME NEW x \in Int, NEW g \in Nat \ {0}, Magnitude(x) % g = 0
  PROVE  /\ x \div g \in Int /\ g * (x \div g) = x
         /\ x >= 0 => x \div g \in Nat
         /\ x > 0 => x \div g > 0
  <1> DEFINE y == Magnitude(x)  k == y \div g
  <1>1. y \in Int
    BY DEF Magnitude
  <1>2. k \in Int /\ y = g * k
    <2> HIDE DEF y
    <2>1. y \div g \in Int /\ y = g * (y \div g) + (y % g)
      BY <1>1
    <2>2. y % g = 0
      BY DEF y
    <2> QED
      BY <2>1, <2>2
  <1> HIDE DEF k
  <1>3. PICK q \in Int : x = g * q
    <2>1. x = y \/ x = -y
      BY DEF Magnitude
    <2> HIDE DEF y
    <2>2. -k \in Int /\ -(g * k) = g * (-k)
      BY <1>2
    <2> QED
      BY <1>2, <2>1, <2>2
  <1>4. x \div g = q
    BY <1>3, Quotient
  <1>5. (x >= 0 => q >= 0) /\ (x > 0 => q > 0)
    <2>1. q <= -1 => g * q <= -g
      BY <1>3
    <2>2. q = 0 => g * q = 0
      BY <1>3
    <2> QED
      BY <1>3, <2>1, <2>2
  <1> QED
    BY <1>3, <1>4, <1>5

-----------------------------------------------------------------------------
(* The elimination gives laws. *)

\* What t moves of y is linear in y.
LEMMA MovedIs ==
  ASSUME NEW n \in Nets, NEW t \in Transition
  PROVE  \E d \in Weighting : /\ \A p \in Place : d[p] = Flow(n, t, p)
                             /\ \A y \in Weighting : MovedBy(n, y, t) = Value(y, d) /\ MovedBy(n, y, t) \in Int
  <1> DEFINE d == [p \in Place |-> Flow(n, t, p)]
  <1>1. d \in Weighting
    BY TotalsType DEF Flow, Weighting
  <1>2. ASSUME NEW y \in Weighting PROVE MovedBy(n, y, t) = Value(y, d)
    BY DEF MovedBy, Weighting
  <1> HIDE DEF d
  <1>3. ASSUME NEW y \in Weighting PROVE Value(y, d) \in Int
    <2>1. DOMAIN y = Place /\ \A p \in Place : y[p] \in Int /\ d[p] \in Int
      BY <1>1 DEF Weighting
    <2> QED
      BY <2>1, ValueType
  <1>4. \A p \in Place : d[p] = Flow(n, t, p)
    BY DEF d
  <1> QED
    BY <1>1, <1>2, <1>3, <1>4

\* A row: places not all out of it, and what each transition does to them.
Rows(n) ==
  {r \in [of : [Place -> Nat], flow : [Transition -> Int]] :
     /\ \E p \in Place : r.of[p] > 0
     /\ \A t \in Transition : r.flow[t] = MovedBy(n, r.of, t)}

\* The magnitudes of some numbers.
Magnitudes(x, y) == {Magnitude(z) : z \in Range(x) \cup Range(y)}

\* They are finitely many naturals.
LEMMA MagnitudesAre ==
  ASSUME NEW x \in [Place -> Int], NEW y \in [Transition -> Int]
  PROVE  /\ IsFiniteSet(Magnitudes(x, y)) /\ Magnitudes(x, y) \subseteq Nat
         /\ \A p \in Place : Magnitude(x[p]) \in Magnitudes(x, y)
         /\ \A t \in Transition : Magnitude(y[t]) \in Magnitudes(x, y)
  <1> DEFINE A == {Magnitude(x[p]) : p \in Place}
             B == {Magnitude(y[t]) : t \in Transition}
  <1>1. Magnitudes(x, y) = A \cup B
    <2>1. Range(x) = {x[p] : p \in Place} /\ Range(y) = {y[t] : t \in Transition}
      BY DEF Range
    <2> QED
      BY <2>1 DEF Magnitudes
  <1>2. A \subseteq Nat /\ B \subseteq Nat
    BY DEF Magnitude
  <1>3. IsFiniteSet(A) /\ IsFiniteSet(B)
    <2> DEFINE f == [p \in Place |-> Magnitude(x[p])]
               h == [t \in Transition |-> Magnitude(y[t])]
    <2>1. A = {f[p] : p \in Place} /\ B = {h[t] : t \in Transition}
      OBVIOUS
    <2> HIDE DEF f, h
    <2>2. f \in Surjection(Place, A) /\ h \in Surjection(Transition, B)
      <3>1. f \in [Place -> A] /\ h \in [Transition -> B]
        BY <2>1 DEF f, h
      <3> QED
        BY <2>1, <3>1 DEF Surjection
    <2> HIDE DEF A, B
    <2> QED
      BY <2>2, NodeAssumption, FS_Surjection
  <1>4. IsFiniteSet(A \cup B)
    BY <1>3, FS_Union
  <1> QED
    BY <1>1, <1>2, <1>4

\* Two rows combined are a row, which t leaves alone, and any transition that
\* left both alone.
LEMMA CombineIs ==
  ASSUME NEW n \in Nets, NEW u \in Rows(n), NEW v \in Rows(n), NEW t \in Transition, u.flow[t] > 0, v.flow[t] < 0
  PROVE  /\ Combine(u, v, t) \in Rows(n)
         /\ Combine(u, v, t).flow[t] = 0
         /\ \A s \in Transition : u.flow[s] = 0 /\ v.flow[s] = 0 => Combine(u, v, t).flow[s] = 0
  <1> DEFINE a == Magnitude(v.flow[t])
             b == u.flow[t]
             X == [p \in Place |-> a * u.of[p] + b * v.of[p]]
             Y == [s \in Transition |-> a * u.flow[s] + b * v.flow[s]]
             g == GreatestDivisor(Magnitudes(X, Y))
             c == Combine(u, v, t)
  <1>1. /\ u.of \in [Place -> Nat] /\ v.of \in [Place -> Nat]
        /\ u.flow \in [Transition -> Int] /\ v.flow \in [Transition -> Int]
        /\ \E p \in Place : u.of[p] > 0
        /\ \A s \in Transition : u.flow[s] = MovedBy(n, u.of, s) /\ v.flow[s] = MovedBy(n, v.of, s)
    BY DEF Rows
  <1>2. /\ c = [of |-> [p \in Place |-> X[p] \div g], flow |-> [s \in Transition |-> Y[s] \div g]]
    BY <1>1 DEF Combine, Magnitudes
  <1>3. a \in Nat \ {0} /\ b \in Nat \ {0} /\ a = -v.flow[t]
    BY <1>1 DEF Magnitude
  <1> HIDE DEF a, b
  <1>4. \A p \in Place : X[p] \in Nat /\ X[p] = a * u.of[p] + b * v.of[p] /\ (u.of[p] > 0 => X[p] > 0)
    <2> SUFFICES ASSUME NEW p \in Place
                 PROVE  X[p] \in Nat /\ X[p] = a * u.of[p] + b * v.of[p] /\ (u.of[p] > 0 => X[p] > 0)
      OBVIOUS
    <2> DEFINE x == u.of[p]  y == v.of[p]
    <2>1. x \in Nat /\ y \in Nat /\ X[p] = a * x + b * y
      BY <1>1
    <2> HIDE DEF x, y, X
    <2>2. a * x \in Nat /\ b * y \in Nat /\ (x > 0 => a * x > 0)
      BY <1>3, <2>1
    <2> QED
      BY <2>1, <2>2 DEF x, y
  <1>5. \A s \in Transition : Y[s] \in Int /\ Y[s] = a * u.flow[s] + b * v.flow[s]
    BY <1>1, <1>3
  <1>6. X \in [Place -> Nat] /\ X \in [Place -> Int] /\ Y \in [Transition -> Int]
    BY <1>4, <1>5
  <1>7. PICK q \in Place : X[q] > 0
    BY <1>1, <1>4
  <1> HIDE DEF X, Y
  <1>8. g \in Nat \ {0} /\ \A x \in Magnitudes(X, Y) : x % g = 0
    <2>1. Magnitude(X[q]) \in Magnitudes(X, Y) /\ Magnitude(X[q]) > 0
      BY <1>6, <1>7, MagnitudesAre DEF Magnitude
    <2>2. IsFiniteSet(Magnitudes(X, Y)) /\ Magnitudes(X, Y) \subseteq Nat
      BY <1>6, MagnitudesAre
    <2> QED
      BY <2>1, <2>2, DivisorIs
  <1> HIDE DEF g, c
  <1>9. \A p \in Place : c.of[p] \in Nat /\ g * c.of[p] = X[p] /\ (X[p] > 0 => c.of[p] > 0)
    <2> SUFFICES ASSUME NEW p \in Place
                 PROVE  c.of[p] \in Nat /\ g * c.of[p] = X[p] /\ (X[p] > 0 => c.of[p] > 0)
      OBVIOUS
    <2>1. Magnitude(X[p]) % g = 0
      BY <1>6, <1>8, MagnitudesAre
    <2>2. X[p] \in Int /\ X[p] >= 0 /\ c.of[p] = X[p] \div g
      BY <1>2, <1>6
    <2> QED
      BY <1>8, <2>1, <2>2, Divides
  <1>10. c.of \in [Place -> Nat] /\ c.flow \in [Transition -> Int] /\ DOMAIN c = {"of", "flow"}
    <2>1. \A s \in Transition : Y[s] \div g \in Int
      BY <1>6, <1>8
    <2>2. \A p \in Place : X[p] \div g \in Nat
      BY <1>2, <1>9
    <2> QED
      BY <1>2, <2>1, <2>2
  <1>11. ASSUME NEW s \in Transition PROVE c.flow[s] = MovedBy(n, c.of, s)
    <2>1. PICK d \in Weighting : \A y \in Weighting : MovedBy(n, y, s) = Value(y, d) /\ MovedBy(n, y, s) \in Int
      BY MovedIs
    <2>2. u.of \in Weighting /\ v.of \in Weighting /\ X \in Weighting /\ c.of \in Weighting /\ \A p \in Place : d[p] \in Int
      BY <1>1, <1>6, <1>10 DEF Weighting
    <2>3. Value(X, d) = a * Value(u.of, d) + b * Value(v.of, d)
      <3>1. Combines(X, a, u.of, b, v.of, Place)
        BY <1>1, <1>4 DEF Combines
      <3>2. a \in Int /\ b \in Int
        BY <1>3
      <3> QED
        BY <2>2, <3>1, <3>2, ValueOfCombination
    <2>4. Y[s] = Value(X, d)
      BY <1>1, <1>5, <2>1, <2>2, <2>3
    <2>5. Value(X, d) = g * Value(c.of, d) + 0 * Value(c.of, d)
      <3>1. Combines(X, g, c.of, 0, c.of, Place)
        BY <1>8, <1>9 DEF Combines
      <3>2. g \in Int /\ 0 \in Int
        BY <1>8
      <3> QED
        BY <2>2, <3>1, <3>2, ValueOfCombination
    <2>6. Value(c.of, d) \in Int /\ Value(c.of, d) = MovedBy(n, c.of, s)
      BY <2>1, <2>2
    <2>7. Y[s] = g * Value(c.of, d)
      BY <1>8, <2>4, <2>5, <2>6
    <2>8. Y[s] \div g = Value(c.of, d)
      BY <1>5, <1>8, <2>6, <2>7, Quotient
    <2> QED
      BY <1>2, <2>6, <2>8
  <1>12. c \in Rows(n)
    <2>1. c \in [of : [Place -> Nat], flow : [Transition -> Int]]
      BY <1>2, <1>10
    <2>2. c.of[q] > 0
      BY <1>7, <1>9
    <2> QED
      BY <1>11, <2>1, <2>2 DEF Rows
  <1>13. ASSUME NEW s \in Transition, Y[s] = 0 PROVE c.flow[s] = 0
    <2>1. 0 \div g = 0
      BY <1>8, Quotient
    <2> QED
      BY <1>2, <1>13, <2>1
  <1>14. Y[t] = 0
    <2>1. Y[t] = a * b + b * (-a)
      BY <1>1, <1>3, <1>5 DEF b
    <2> QED
      BY <1>3, <2>1
  <1>15. ASSUME NEW s \in Transition, u.flow[s] = 0, v.flow[s] = 0 PROVE Y[s] = 0
    BY <1>3, <1>5, <1>15
  <1> QED
    BY <1>12, <1>13, <1>14, <1>15 DEF c

\* What is left of some rows when t is eliminated.
Eliminated(rows, t) ==
  MinimalRows({r \in rows : r.flow[t] = 0}
              \cup {Combine(u, v, t) : u \in {r \in rows : r.flow[t] > 0}, v \in {r \in rows : r.flow[t] < 0}})

\* The rows at first, one for each place.
Unit(x) == [p \in Place |-> IF p = x THEN 1 ELSE 0]
Units(n) == {Row(n, Unit(x), Range(Declared)) : x \in Place}

\* The transitions declared are all there are.
LEMMA DeclaredAre ==
  /\ Len(Declared) \in Nat /\ DOMAIN Declared = 1 .. Len(Declared)
  /\ \A i \in 1 .. Len(Declared) : Declared[i] \in Transition
  /\ Range(Declared) = Transition
  <1>1. Len(Declared) \in Nat /\ DOMAIN Declared = 1 .. Len(Declared)
    BY DeclaredAssumption
  <1>2. \A i \in 1 .. Len(Declared) : Declared[i] \in Transition
    BY DeclaredAssumption
  <1>3. Range(Declared) = Transition
    BY <1>1, <1>2, DeclaredAssumption DEF Range
  <1> QED
    BY <1>1, <1>2, <1>3

\* The first rows are rows.
LEMMA UnitsAre ==
  ASSUME NEW n \in Nets PROVE Units(n) \subseteq Rows(n)
  <1> SUFFICES ASSUME NEW x \in Place PROVE Row(n, Unit(x), Range(Declared)) \in Rows(n)
    BY DEF Units
  <1> DEFINE y == Unit(x)
             r == [of |-> y, flow |-> [t \in Transition |-> MovedBy(n, y, t)]]
  <1>1. Row(n, y, Range(Declared)) = r
    BY DeclaredAre DEF Row
  <1>2. y \in [Place -> Nat] /\ y[x] > 0 /\ y \in Weighting
    BY DEF Unit, Weighting
  <1> HIDE DEF y
  <1>3. \A t \in Transition : MovedBy(n, y, t) \in Int
    BY <1>2, MovedIs
  <1>4. r \in Rows(n)
    BY <1>2, <1>3 DEF Rows
  <1> QED
    BY <1>1, <1>4 DEF y

\* Elimination of t leaves rows, all without t and without what was gone before.
LEMMA EliminatedAre ==
  ASSUME NEW n \in Nets, NEW rows \in SUBSET Rows(n), NEW t \in Transition
  PROVE  /\ Eliminated(rows, t) \in SUBSET Rows(n)
         /\ \A r \in Eliminated(rows, t) : r.flow[t] = 0
         /\ \A s \in Transition : (\A r \in rows : r.flow[s] = 0) => \A r \in Eliminated(rows, t) : r.flow[s] = 0
  <1> DEFINE kept == {r \in rows : r.flow[t] = 0}
             up == {r \in rows : r.flow[t] > 0}
             down == {r \in rows : r.flow[t] < 0}
             made == {Combine(u, v, t) : u \in up, v \in down}
  <1>1. Eliminated(rows, t) \subseteq kept \cup made
    BY DEF Eliminated, MinimalRows
  <1>2. ASSUME NEW u \in up, NEW v \in down
        PROVE  /\ Combine(u, v, t) \in Rows(n)
               /\ Combine(u, v, t).flow[t] = 0
               /\ \A s \in Transition : u.flow[s] = 0 /\ v.flow[s] = 0 => Combine(u, v, t).flow[s] = 0
    BY CombineIs
  <1>3. \A r \in made : \E u \in up, v \in down : r = Combine(u, v, t)
    OBVIOUS
  <1>4. kept \subseteq rows /\ up \subseteq rows /\ down \subseteq rows /\ \A r \in kept : r.flow[t] = 0
    OBVIOUS
  <1> HIDE DEF kept, up, down, made
  <1>5. \A r \in kept \cup made :
          /\ r \in Rows(n) /\ r.flow[t] = 0
          /\ \A s \in Transition : (\A x \in rows : x.flow[s] = 0) => r.flow[s] = 0
    <2>1. ASSUME NEW r \in made
          PROVE  /\ r \in Rows(n) /\ r.flow[t] = 0
                 /\ \A s \in Transition : (\A x \in rows : x.flow[s] = 0) => r.flow[s] = 0
      <3>1. PICK u \in up, v \in down : r = Combine(u, v, t)
        BY <1>3
      <3>2. u \in rows /\ v \in rows
        BY <1>4
      <3> QED
        BY <1>2, <3>1, <3>2
    <2> QED
      BY <1>4, <2>1
  <1> QED
    BY <1>1, <1>5

\* The elimination, a transition after the other.
LEMMA FarkasFold ==
  ASSUME NEW n \in Nets
  PROVE  \E c \in [0 .. Len(Declared) -> SUBSET Rows(n)] :
           /\ \A i \in 1 .. Len(Declared) : c[i] = Eliminated(c[i - 1], Declared[i])
           /\ Farkas(n, Place, Declared) = {r.of : r \in c[Len(Declared)]}
  <1> DEFINE l == Len(Declared)
             X == SUBSET Rows(n)
             first == Units(n)
             it == CHOOSE g : g = [s \in SUBSET (1 .. l) |->
                     IF s = {} THEN first ELSE Eliminated(g[s \ {Max(s)}], Declared[Max(s)])]
             F == [i \in 1 .. l |-> [y \in X |-> Eliminated(y, Declared[i])]]
  <1>1. l \in Nat /\ DOMAIN Declared = 1 .. l /\ \A i \in 1 .. l : Declared[i] \in Transition
    BY DeclaredAre
  <1>2. Farkas(n, Place, Declared) = {r.of : r \in it[1 .. l]}
    BY <1>1 DEF Farkas, FoldLeft, MapThenFoldSet, Eliminated, Units, Unit
  <1> HIDE DEF l
  <1>3. first \in X
    BY UnitsAre
  <1>4. F \in [1 .. l -> [X -> X]]
    <2>1. \A i \in 1 .. l : \A y \in X : Eliminated(y, Declared[i]) \in X
      BY <1>1, EliminatedAre
    <2> HIDE DEF X
    <2> QED
      BY <2>1
  <1> HIDE DEF X, F, first, it
  <1>5. PICK g0 \in [SUBSET (1 .. l) -> X] : Gathers(g0, F, first, l)
    BY <1>1, <1>3, <1>4, FoldExists
  <1>6. g0[{}] = first /\ \A s \in SUBSET (1 .. l) : s # {} => g0[s] = F[Max(s)][g0[s \ {Max(s)}]]
    BY <1>5 DEF Gathers
  <1>7. ASSUME NEW s \in SUBSET (1 .. l), s # {}
        PROVE  g0[s] = Eliminated(g0[s \ {Max(s)}], Declared[Max(s)])
    <2>1. Max(s) \in 1 .. l
      BY <1>1, <1>7, Greatest
    <2>2. g0[s \ {Max(s)}] \in X
      OBVIOUS
    <2>3. F[Max(s)][g0[s \ {Max(s)}]] = Eliminated(g0[s \ {Max(s)}], Declared[Max(s)])
      BY <2>1, <2>2 DEF F
    <2> QED
      BY <1>6, <1>7, <2>3
  <1>8. g0 = [s \in SUBSET (1 .. l) |-> IF s = {} THEN first ELSE Eliminated(g0[s \ {Max(s)}], Declared[Max(s)])]
    <2>1. \A s \in SUBSET (1 .. l) : g0[s] = IF s = {} THEN first ELSE Eliminated(g0[s \ {Max(s)}], Declared[Max(s)])
      BY <1>6, <1>7
    <2> QED
      BY <2>1
  <1>9. it = [s \in SUBSET (1 .. l) |-> IF s = {} THEN first ELSE Eliminated(it[s \ {Max(s)}], Declared[Max(s)])]
    BY <1>8 DEF it
  <1>10. it[{}] = first /\ \A s \in SUBSET (1 .. l) : s # {} => it[s] = Eliminated(it[s \ {Max(s)}], Declared[Max(s)])
    <2>1. {} \in SUBSET (1 .. l)
      OBVIOUS
    <2> QED
      BY <1>9, <2>1
  <1> DEFINE c == [i \in 0 .. l |-> it[1 .. i]]
  <1>11. c[0] \in X
    <2>1. 1 .. 0 = {} /\ 0 \in 0 .. l
      BY <1>1
    <2> QED
      BY <1>3, <1>10, <2>1
  <1>12. ASSUME NEW i \in 1 .. l PROVE c[i] = Eliminated(c[i - 1], Declared[i])
    <2>1. i \in Nat /\ i \in 1 .. i /\ 1 .. i \in SUBSET (1 .. l) /\ (1 .. i) \ {i} = 1 .. (i - 1) /\ i \in 0 .. l /\ i - 1 \in 0 .. l
      BY <1>1
    <2>2. Max(1 .. i) \in 1 .. i /\ i <= Max(1 .. i)
      BY <2>1, Greatest
    <2>3. Max(1 .. i) = i
      BY <2>1, <2>2
    <2>4. 1 .. i # {}
      BY <2>1
    <2>5. it[1 .. i] = Eliminated(it[1 .. (i - 1)], Declared[i])
      BY <1>10, <2>1, <2>3, <2>4
    <2> QED
      BY <2>1, <2>5
  <1>13. \A i \in 0 .. l : c[i] \in X
    <2>1. ASSUME NEW i \in 1 .. l, c[i - 1] \in X PROVE c[i] \in X
      <3>1. F[i][c[i - 1]] \in X
        BY <1>4, <2>1
      <3>2. F[i][c[i - 1]] = Eliminated(c[i - 1], Declared[i])
        BY <2>1 DEF F
      <3> QED
        BY <1>12, <3>1, <3>2
    <2> HIDE DEF c
    <2> QED
      BY <1>1, <1>11, <2>1, Stays
  <1>14. c \in [0 .. l -> X] /\ c[l] = it[1 .. l]
    <2>1. c = [i \in 0 .. l |-> c[i]] /\ l \in 0 .. l
      BY <1>1
    <2> HIDE DEF c
    <2>2. c \in [0 .. l -> X]
      BY <1>13, <2>1
    <2> QED
      BY <2>1, <2>2 DEF c
  <1> HIDE DEF c
  <1> QED
    BY <1>2, <1>12, <1>14 DEF l, X

\* What the elimination gives is a law of the net, with no negative coefficient.
LEMMA LawsOfBasis ==
  ASSUME NEW n \in Nets, NEW y \in Farkas(n, Place, Declared)
  PROVE  y \in [Place -> Nat] /\ IsInvariantVector(n, y)
  <1> DEFINE l == Len(Declared)
  <1>1. PICK c \in [0 .. l -> SUBSET Rows(n)] :
          /\ \A i \in 1 .. l : c[i] = Eliminated(c[i - 1], Declared[i])
          /\ Farkas(n, Place, Declared) = {r.of : r \in c[l]}
    BY FarkasFold
  <1>2. l \in Nat /\ \A i \in 1 .. l : Declared[i] \in Transition
    BY DeclaredAre
  <1> HIDE DEF l
  <1> DEFINE T == {i \in Nat : i <= l => \A j \in 1 .. i : \A r \in c[i] : r.flow[Declared[j]] = 0}
  <1>3. 0 \in T
    OBVIOUS
  <1>4. ASSUME NEW i \in T PROVE i + 1 \in T
    <2> SUFFICES ASSUME i + 1 <= l, NEW j \in 1 .. i + 1
                 PROVE  \A r \in c[i + 1] : r.flow[Declared[j]] = 0
      OBVIOUS
    <2>1. i \in 0 .. l /\ i + 1 \in 1 .. l /\ (i + 1) - 1 = i /\ j \in 1 .. l
      BY <1>2
    <2>2. c[i] \in SUBSET Rows(n) /\ Declared[i + 1] \in Transition /\ Declared[j] \in Transition
      BY <1>2, <2>1
    <2>3. c[i + 1] = Eliminated(c[i], Declared[i + 1])
      BY <1>1, <2>1
    <2>0. \A rows \in SUBSET Rows(n), t \in Transition :
            /\ \A r \in Eliminated(rows, t) : r.flow[t] = 0
            /\ \A s \in Transition :
                 (\A r \in rows : r.flow[s] = 0) => \A r \in Eliminated(rows, t) : r.flow[s] = 0
      BY EliminatedAre
    <2>4. CASE j = i + 1
      BY <2>0, <2>2, <2>3, <2>4
    <2>5. CASE j \in 1 .. i
      <3>1. \A r \in c[i] : r.flow[Declared[j]] = 0
        BY <1>2, <2>1, <2>5
      <3> DEFINE rows == c[i]  s == Declared[j]  t == Declared[i + 1]
      <3>2. rows \in SUBSET Rows(n) /\ s \in Transition /\ t \in Transition /\ \A r \in rows : r.flow[s] = 0
        BY <2>2, <3>1
      <3> HIDE DEF rows, s, t
      <3>3. \A r \in Eliminated(rows, t) : r.flow[s] = 0
        BY <2>0, <3>2
      <3> QED
        BY <2>3, <3>3 DEF rows, s, t
    <2> QED
      BY <2>1, <2>4, <2>5
  <1> HIDE DEF T
  <1>5. T = Nat
    <2>1. T \in SUBSET Nat
      BY DEF T
    <2> QED
      BY <1>3, <1>4, <2>1, Induct
  <1>6. PICK r \in c[l] : y = r.of
    BY <1>1
  <1>7. r \in Rows(n)
    BY <1>1, <1>2, <1>6
  <1>8. \A j \in 1 .. l : r.flow[Declared[j]] = 0
    BY <1>2, <1>5, <1>6 DEF T
  <1>9. \A t \in Transition : r.flow[t] = 0
    BY <1>2, <1>8, DeclaredAssumption, DeclaredAre DEF l
  <1> QED
    BY <1>6, <1>7, <1>9 DEF Rows, IsInvariantVector

-----------------------------------------------------------------------------
(* The graph keeps the laws. *)

Laws == {y \in Weighting : IsInvariantVector(job.net, y)}

\* The basis is some of them.
LEMMA BasisIsLaws ==
  ASSUME job \in Jobs
  PROVE  Basis \subseteq Laws /\ \A y \in Basis : y \in [Place -> Nat]
  <1>1. job.net \in Nets
    BY JobsAssumption DEF Job
  <1>2. ASSUME NEW y \in Basis PROVE y \in [Place -> Nat] /\ IsInvariantVector(job.net, y)
    BY <1>1, LawsOfBasis DEF Basis
  <1> QED
    BY <1>2 DEF Laws, Weighting

\* A firing that saturates no count adds to each what the arcs say.
LEMMA ExactFiring ==
  ASSUME NEW n \in Nets, NEW t \in Transition, NEW m \in Marking, Exact(n, t, m), NEW p \in Place
  PROVE  Fire(n, t, m)[p] = m[p] + Flow(n, t, p)
  <1> DEFINE a == m[p] - Taken(n, t, p)
             b == m[p] - Taken(n, t, p) + Given(n, t, p)
  <1>1. a \in Count /\ b \in Count
    BY DEF Exact
  <1>2. m[p] \in Int /\ Taken(n, t, p) \in Int /\ Given(n, t, p) \in Int
    BY CountInt, TotalsType DEF Marking
  <1>3. Clamp(a) = a /\ Clamp(b) = b
    BY <1>1, ClampId
  <1>4. Fire(n, t, m)[p] = Clamp(Clamp(a) + Given(n, t, p))
    BY DEF Fire
  <1>5. Fire(n, t, m)[p] = b
    BY <1>3, <1>4
  <1> QED
    BY <1>2, <1>5 DEF Flow

\* So it changes nothing of what a law makes of them.
LEMMA FiringKeeps ==
  ASSUME NEW n \in Nets, NEW t \in Transition, NEW m \in Marking, Exact(n, t, m),
         NEW y \in Weighting, IsInvariantVector(n, y)
  PROVE  Value(y, Fire(n, t, m)) = Value(y, m)
  <1>1. PICK d \in Weighting : /\ \A p \in Place : d[p] = Flow(n, t, p)
                              /\ \A z \in Weighting : MovedBy(n, z, t) = Value(z, d)
    BY MovedIs
  <1>2. Value(y, d) = 0
    BY <1>1 DEF IsInvariantVector
  <1> DEFINE new == Fire(n, t, m)
  <1>3. ASSUME NEW p \in Place PROVE m[p] \in Int /\ d[p] \in Int /\ new[p] = m[p] + d[p]
    BY <1>1, CountInt, ExactFiring DEF Marking, Weighting
  <1> HIDE DEF new
  <1>4. Value(y, new) = Value(y, m) + Value(y, d)
    BY <1>3, ValueOfSum
  <1>5. DOMAIN y = Place /\ \A p \in Place : y[p] \in Int
    BY DEF Weighting
  <1>6. Value(y, m) \in Int
    BY <1>3, <1>5, ValueType
  <1> QED
    BY <1>2, <1>4, <1>6 DEF new

\* Each law makes of each marking found what it makes of the opening.
Kept == Unsaturated => \A y \in Laws, m \in Known : Value(y, m) = Value(y, job.opening)

\* What the search's steps have to know of its state.
Shaped ==
  /\ job \in Jobs
  /\ found \in Seq(Marking) /\ edges \in Seq(Edge)
  /\ queue \in Seq(Known) /\ at \in Known

Lawful == Shaped /\ Kept

\* It does not depend on anything else.
LEMMA LawfulSame ==
  ASSUME Lawful, UNCHANGED <<job, found, edges>>, queue' \in Seq(Known), at' \in Known
  PROVE  Lawful'
  <1>1. Known' = Known /\ Laws' = Laws /\ (Unsaturated' <=> Unsaturated)
    BY DEF Lawful, Known, Laws, Unsaturated
  <1> HIDE DEF Known, Laws, Unsaturated
  <1>2. Shaped'
    BY <1>1 DEF Lawful, Shaped
  <1>3. Kept'
    BY <1>1 DEF Lawful, Kept
  <1> QED
    BY <1>2, <1>3 DEF Lawful

LEMMA LawfulInit ==
  ASSUME BuildInit PROVE Lawful
  <1>1. job \in Jobs /\ job.opening \in Marking
    BY JobsAssumption DEF BuildInit, Job
  <1>2. found = <<job.opening>> /\ Known = {job.opening}
    BY DEF BuildInit, Known, Range
  <1>3. found \in Seq(Marking) /\ edges \in Seq(Edge)
    BY <1>1, <1>2 DEF BuildInit
  <1>4. queue \in Seq(Known) /\ at \in Known
    BY <1>2 DEF BuildInit
  <1>5. Kept
    BY <1>2 DEF Kept
  <1> QED
    BY <1>1, <1>3, <1>4, <1>5 DEF Lawful, Shaped

LEMMA LawfulPop ==
  ASSUME Lawful, Pop PROVE Lawful'
  <1>1. queue \in Seq(Known) /\ queue # <<>>
    BY DEF Lawful, Shaped, Pop
  <1>2. Head(queue) \in Known /\ Tail(queue) \in Seq(Known)
    BY <1>1
  <1> QED
    BY <1>2, LawfulSame DEF Pop

\* The steps that leave the graph as it is.
LEMMA LawfulStill ==
  ASSUME Lawful, UNCHANGED <<job, found, edges, queue, at>> PROVE Lawful'
  <1>1. queue \in Seq(Known) /\ at \in Known
    BY DEF Lawful, Shaped
  <1> QED
    BY <1>1, LawfulSame

LEMMA LawfulDiscover ==
  ASSUME Lawful, NEW i \in DOMAIN Declared, Discover(i) PROVE Lawful'
  <1> DEFINE t == Declared[i]
             new == Fire(job.net, t, at)
             e == [from |-> at, tr |-> t, to |-> new]
  <1>1. t \in Transition /\ job.net \in Nets
    BY DeclaredAre, JobsAssumption DEF Lawful, Shaped, Job
  <1>2. found \in Seq(Marking) /\ edges \in Seq(Edge) /\ at \in Known /\ queue \in Seq(Known)
    BY DEF Lawful, Shaped
  <1>3. Known \subseteq Marking
    BY <1>2 DEF Known, Range
  <1>4. new \in Marking
    BY <1>1, <1>2, <1>3, FireType
  <1>5. job' = job /\ at' = at /\ edges' = Append(edges, e)
    BY DEF Discover, After
  <1>6. e \in Edge
    BY <1>1, <1>2, <1>3, <1>4 DEF Edge
  <1>7. /\ found' = IF new \in Known THEN found ELSE Append(found, new)
        /\ queue' = IF new \in Known THEN queue ELSE Append(queue, new)
    BY DEF Discover, After
  <1> HIDE DEF t, new, e
  <1>8. Known' = Known \cup {new}
    <2>1. CASE new \in Known
      BY <1>7, <2>1 DEF Known, Range
    <2>2. CASE new \notin Known
      <3>1. found' = Append(found, new)
        BY <1>7, <2>2
      <3>2. Len(found) \in Nat /\ DOMAIN found = 1 .. Len(found) /\ DOMAIN found' = 1 .. (Len(found) + 1)
        BY <1>2, <1>4, <3>1
      <3>3. \A k \in DOMAIN found' : found'[k] = IF k = Len(found) + 1 THEN new ELSE found[k]
        BY <1>2, <1>4, <3>1
      <3>4. Known' = {found'[k] : k \in DOMAIN found'} /\ Known = {found[k] : k \in DOMAIN found}
        BY DEF Known, Range
      <3> QED
        BY <3>2, <3>3, <3>4
    <2> QED
      BY <2>1, <2>2
  <1>9. found' \in Seq(Marking) /\ edges' \in Seq(Edge)
    BY <1>2, <1>4, <1>5, <1>6, <1>7
  <1>10. queue' \in Seq(Known \cup {new})
    <2>1. queue \in Seq(Known \cup {new})
      BY <1>2
    <2> QED
      BY <1>7, <2>1
  <1>11. Shaped'
    <2> HIDE DEF Known
    <2> QED
      BY <1>2, <1>5, <1>8, <1>9, <1>10 DEF Lawful, Shaped
  <1>12. ASSUME Unsaturated'
         PROVE  Unsaturated /\ Exact(job.net, t, at)
    <2>1. Len(edges) \in Nat /\ DOMAIN edges = 1 .. Len(edges) /\ DOMAIN edges' = 1 .. (Len(edges) + 1)
      BY <1>2, <1>5, <1>6
    <2>2. \A k \in DOMAIN edges' : edges'[k] = IF k = Len(edges) + 1 THEN e ELSE edges[k]
      BY <1>2, <1>5, <1>6
    <2>3. \A k \in DOMAIN edges' : Exact(job.net, edges'[k].tr, edges'[k].from)
      BY <1>5, <1>12 DEF Unsaturated, Exact
    <2>4. \A k \in DOMAIN edges : k \in DOMAIN edges' /\ edges'[k] = edges[k]
      BY <2>1, <2>2
    <2>5. Len(edges) + 1 \in DOMAIN edges' /\ edges'[Len(edges) + 1] = e
      BY <2>1, <2>2
    <2>6. Exact(job.net, e.tr, e.from)
      BY <2>3, <2>5
    <2>7. Unsaturated
      BY <2>3, <2>4 DEF Unsaturated
    <2> QED
      BY <2>6, <2>7 DEF e
  <1>13. Kept'
    <2> SUFFICES ASSUME Unsaturated', NEW y \in Laws', NEW m \in Known'
                 PROVE  Value(y, m) = Value(y, job'.opening)
      BY DEF Kept
    <2>1. y \in Laws /\ y \in Weighting /\ IsInvariantVector(job.net, y)
      BY <1>5 DEF Laws
    <2>2. Unsaturated /\ Exact(job.net, t, at)
      BY <1>12
    <2>3. \A o \in Known : Value(y, o) = Value(y, job.opening)
      BY <2>1, <2>2 DEF Lawful, Kept
    <2>4. Value(y, new) = Value(y, at)
      BY <1>1, <1>2, <1>3, <2>1, <2>2, FiringKeeps DEF new
    <2> QED
      BY <1>2, <1>5, <1>8, <2>3, <2>4
  <1> QED
    BY <1>11, <1>13 DEF Lawful

-----------------------------------------------------------------------------
(* What is concluded from the laws. *)

Counted == \A m \in Known, p \in Place : m[p] >= 0

\* A law holds p down in all markings found.
HeldDown(p) == \E y \in Basis : y[p] > 0 /\ \A m \in Known : y[p] * m[p] <= Value(y, job.opening)

\* All markings found satisfy e, or none does.
Settles(e, v) ==
  e.rel = "==" \/ Counted => \A m \in Known : Satisfies(e, m) = (v.status = "proved")

\* A verdict by algebra alone is so of the markings found.
Borne(c, v) ==
  v.method = "structural" /\ Unsaturated =>
    /\ IsLinear(c) => Settles(Expression(c), v)
    /\ c.kind = "bounded" /\ Counted => \A p \in Place : HeldDown(p)

\* An expression's places, weights and bound.
Typed(e) ==
  /\ DOMAIN e.coeffs \subseteq Place /\ \A p \in DOMAIN e.coeffs : e.coeffs[p] \in Int
  /\ e.rel = "<=" => e.constant \in Int

LEMMA ExpressionTyped ==
  ASSUME NEW c \in Range(Claims), IsLinear(c), ~ Malformed(c)
  PROVE  Typed(Expression(c))
  <1>1. CASE c.kind = "invariant"
    <2>1. Expression(c) = c.expr
      BY <1>1 DEF Expression
    <2>2. c.expr.coeffs \in [DOMAIN c.expr.coeffs -> Int] /\ c.expr.constant \in Int
      BY <1>1, ClaimsAssumption
    <2>3. DOMAIN c.expr.coeffs \subseteq Place
      BY <1>1, <2>1 DEF Malformed, Named, IsTarget
    <2> QED
      BY <2>1, <2>2, <2>3 DEF Typed
  <1>2. CASE c.kind = "mutex"
    <2> DEFINE where(p) == {i \in DOMAIN c.places : c.places[i] = p}
               co == [p \in Range(c.places) |-> Cardinality(where(p))]
               k == IF c.bound = 0 THEN 1 ELSE c.bound
    <2>1. Expression(c) = [coeffs |-> co, rel |-> "<=", constant |-> k]
      BY <1>2 DEF Expression
    <2>2. c.places \in Seq(Range(c.places)) /\ k \in Int
      BY <1>2, ClaimsAssumption
    <2>3. ASSUME NEW p \in Range(c.places) PROVE Cardinality(where(p)) \in Int
      <3>1. where(p) \in SUBSET (1 .. Len(c.places)) /\ Len(c.places) \in Nat
        BY <2>2
      <3> HIDE DEF where
      <3>2. IsFiniteSet(where(p))
        BY <3>1, Positions
      <3> QED
        BY <3>2, FS_CardinalityType
    <2> HIDE DEF where, k
    <2>4. DOMAIN co = Range(c.places) /\ \A p \in DOMAIN co : co[p] \in Int
      BY <2>3
    <2>5. DOMAIN co \subseteq Place
      BY <1>2, <2>1 DEF Malformed, Named, IsTarget
    <2> HIDE DEF co
    <2> QED
      BY <2>1, <2>2, <2>4, <2>5 DEF Typed
  <1>3. CASE c.kind = "conserves"
    <2>1. Expression(c) = [coeffs |-> [p \in Place |-> 1], rel |-> "==", constant |-> Tokens(job.opening)]
      BY <1>3 DEF Expression
    <2> QED
      BY <2>1 DEF Typed
  <1> QED
    BY <1>1, <1>2, <1>3 DEF IsLinear, Linear

\* Weights that no firing moves, the places left out counted as nothing, make the
\* same of each marking found.
LEMMA EquationKept ==
  ASSUME Lawful, Unsaturated, NEW e, Typed(e),
         IsInvariantVector(job.net, [p \in Place |-> IF p \in DOMAIN e.coeffs THEN e.coeffs[p] ELSE 0]),
         NEW m \in Known
  PROVE  Value(e.coeffs, m) = Value(e.coeffs, job.opening)
  <1> DEFINE D == DOMAIN e.coeffs
             y == [p \in Place |-> IF p \in D THEN e.coeffs[p] ELSE 0]
  <1>1. D \subseteq Place /\ \A p \in D : e.coeffs[p] \in Int
    BY DEF Typed
  <1>2. y \in Laws
    BY <1>1 DEF Laws, Weighting
  <1>3. IsFiniteSet(Place) /\ IsFiniteSet(D)
    BY <1>1, NodeAssumption, FS_Subset
  <1>4. m \in Marking /\ job.opening \in Marking
    BY JobsAssumption DEF Lawful, Shaped, Job, Known, Range
  <1>5. ASSUME NEW o \in Marking PROVE Value(y, o) = Value(e.coeffs, o)
    <2> DEFINE f == [p \in Place |-> IF p \in D THEN e.coeffs[p] * o[p] ELSE 0]
               g == [p \in D |-> e.coeffs[p] * o[p]]
               h == [p \in Place |-> y[p] * o[p]]
    <2>1. ASSUME NEW p \in Place
          PROVE  f[p] \in Int /\ h[p] = IF p \in D THEN f[p] ELSE 0
      <3>1. o[p] \in Int
        BY CountInt DEF Marking
      <3>2. CASE p \in D
        BY <1>1, <3>1, <3>2
      <3>3. CASE p \notin D
        BY <3>1, <3>3
      <3> QED
        BY <3>2, <3>3
    <2>2. \A p \in D : f[p] = g[p]
      BY <1>1
    <2>3. Value(y, o) = SumFunctionOnSet(h, Place)
      BY <1>3, ValueIs
    <2>4. Value(e.coeffs, o) = SumFunctionOnSet(g, D)
      BY <1>3, ValueIs
    <2> HIDE DEF f, g, h, D
    <2>5. SumFunctionOnSet(h, Place) = SumFunctionOnSet(f, D)
      BY <1>1, <1>3, <2>1, SumPart
    <2>6. SumFunctionOnSet(f, D) = SumFunctionOnSet(g, D)
      BY <1>1, <1>3, <2>1, <2>2, SumSame
    <2> QED
      BY <2>3, <2>4, <2>5, <2>6
  <1> HIDE DEF y
  <1>6. Value(y, m) = Value(y, job.opening)
    BY <1>2 DEF Lawful, Kept
  <1> QED
    BY <1>4, <1>5, <1>6

\* A law that dominates an expression bounds it, where no count is below nothing.
LEMMA BoundKept ==
  ASSUME Lawful, Unsaturated, Counted, NEW e, Typed(e), e.rel = "<=", Dominated(e), NEW m \in Known
  PROVE  Value(e.coeffs, m) <= e.constant
  <1> DEFINE D == DOMAIN e.coeffs
  <1>1. D \subseteq Place /\ (\A p \in D : e.coeffs[p] \in Int /\ e.coeffs[p] >= 0) /\ e.constant \in Int
    BY DEF Typed, Dominated
  <1>2. PICK y \in Basis : (\A p \in D : y[p] >= e.coeffs[p]) /\ Value(y, job.opening) <= e.constant
    BY DEF Dominated
  <1>3. y \in Laws /\ y \in [Place -> Nat]
    BY <1>2, BasisIsLaws DEF Lawful, Shaped
  <1>4. m \in Marking /\ job.opening \in Marking
    BY JobsAssumption DEF Lawful, Shaped, Job, Known, Range
  <1>5. \A p \in Place : m[p] \in Nat
    BY <1>4, CountInt DEF Marking, Counted
  <1>6. IsFiniteSet(Place) /\ IsFiniteSet(D)
    BY <1>1, NodeAssumption, FS_Subset
  <1> DEFINE f == [p \in Place |-> IF p \in D THEN e.coeffs[p] * m[p] ELSE 0]
             g == [p \in D |-> e.coeffs[p] * m[p]]
             h == [p \in Place |-> y[p] * m[p]]
  <1>7. ASSUME NEW p \in Place
        PROVE  f[p] \in Int /\ h[p] \in Int /\ f[p] <= h[p]
    <2> DEFINE a == y[p]  x == m[p]
    <2>1. a \in Nat /\ x \in Nat /\ h[p] = a * x
      BY <1>3, <1>5
    <2>2. CASE p \in D
      <3> DEFINE b == e.coeffs[p]
      <3>1. b \in Nat /\ b <= a /\ f[p] = b * x
        BY <1>1, <1>2, <2>1, <2>2
      <3> HIDE DEF a, b, x
      <3>2. b * x \in Int /\ a * x \in Int /\ b * x <= a * x
        BY <2>1, <3>1
      <3> QED
        BY <2>1, <3>1, <3>2
    <2>3. CASE p \notin D
      <3>1. f[p] = 0
        BY <2>3
      <3> HIDE DEF a, x, f, h
      <3>2. a * x \in Int /\ 0 <= a * x
        BY <2>1
      <3> QED
        BY <2>1, <3>1, <3>2
    <2> QED
      BY <2>2, <2>3
  <1>8. \A p \in D : f[p] = g[p]
    BY <1>1
  <1>9. Value(y, m) = SumFunctionOnSet(h, Place)
    BY <1>3, <1>6, ValueIs
  <1>10. Value(e.coeffs, m) = SumFunctionOnSet(g, D)
    BY <1>6, ValueIs
  <1>11. \A p \in Place : f[p] = IF p \in D THEN f[p] ELSE 0
    OBVIOUS
  <1> HIDE DEF f, g, h
  <1>12. SumFunctionOnSet(f, Place) = SumFunctionOnSet(f, D)
    <2> HIDE DEF D
    <2> QED
      BY <1>1, <1>6, <1>7, <1>11, SumPart
  <1>13. SumFunctionOnSet(f, D) = SumFunctionOnSet(g, D)
    <2> HIDE DEF D
    <2> QED
      BY <1>1, <1>6, <1>7, <1>8, SumSame
  <1>14. SumFunctionOnSet(f, Place) <= SumFunctionOnSet(h, Place)
    BY <1>6, <1>7, SumOrdered
  <1>15. Value(y, m) = Value(y, job.opening)
    BY <1>3 DEF Lawful, Kept
  <1>16. Value(e.coeffs, m) \in Int /\ Value(y, m) \in Int
    <2>1. SumFunctionOnSet(f, Place) \in Int /\ SumFunctionOnSet(h, Place) \in Int
      BY <1>6, <1>7, SumIsInt
    <2> QED
      BY <1>9, <1>10, <1>12, <1>13, <2>1
  <1> QED
    BY <1>1, <1>2, <1>9, <1>10, <1>12, <1>13, <1>14, <1>15, <1>16

\* What a search says it does not say by algebra.
LEMMA SearchedNotStructural ==
  ASSUME NEW S PROVE Exhaustively(S).method # "structural"
  BY DEF Exhaustively, Verdict, MethodFor

LEMMA LinearBorne ==
  ASSUME Lawful, Unsaturated, NEW e, Typed(e), CheckInvariant(e).method = "structural"
  PROVE  Settles(e, CheckInvariant(e))
  <1> DEFINE y == [p \in Place |-> IF p \in DOMAIN e.coeffs THEN e.coeffs[p] ELSE 0]
             v == CheckInvariant(e)
  <1> SUFFICES ASSUME e.rel = "==" \/ Counted, NEW m \in Known
               PROVE  Satisfies(e, m) = (v.status = "proved")
    BY DEF Settles
  <1>1. CASE e.rel = "==" /\ IsInvariantVector(job.net, y)
    <2>1. v = IF Satisfies(e, job.opening) THEN Verdict("proved", "structural", {}) ELSE Verdict("refuted", "structural", AtOpening)
      BY <1>1 DEF CheckInvariant
    <2>2. (v.status = "proved") = (Satisfies(e, job.opening) = TRUE)
      BY <2>1 DEF Verdict, Satisfies
    <2>3. Value(e.coeffs, m) = Value(e.coeffs, job.opening)
      BY <1>1, EquationKept
    <2>4. Satisfies(e, m) = Satisfies(e, job.opening)
      BY <2>3 DEF Satisfies
    <2>5. Satisfies(e, m) \in BOOLEAN
      BY DEF Satisfies
    <2> QED
      BY <2>2, <2>4, <2>5
  <1>2. CASE ~ (e.rel = "==" /\ IsInvariantVector(job.net, y)) /\ e.rel = "<=" /\ Dominated(e)
    <2>1. v = Verdict("proved", "structural", {})
      BY <1>2 DEF CheckInvariant
    <2>2. Value(e.coeffs, m) <= e.constant
      BY <1>2, BoundKept
    <2>3. v.status = "proved"
      BY <2>1 DEF Verdict
    <2>4. Satisfies(e, m) /\ Satisfies(e, m) \in BOOLEAN
      BY <1>2, <2>2 DEF Satisfies
    <2> QED
      BY <2>3, <2>4
  <1>3. CASE ~ (e.rel = "==" /\ IsInvariantVector(job.net, y)) /\ ~ (e.rel = "<=" /\ Dominated(e))
    <2>1. v = Exhaustively(NearestBreach(e))
      BY <1>3 DEF CheckInvariant
    <2> QED
      BY <2>1, SearchedNotStructural
  <1> QED
    BY <1>1, <1>2, <1>3

LEMMA BoundedBorne ==
  ASSUME Lawful, Unsaturated, Counted, StructurallyBounded, NEW p \in Place
  PROVE  HeldDown(p)
  <1>1. PICK y \in Basis : y[p] > 0
    BY DEF StructurallyBounded
  <1>2. y \in Laws /\ y \in [Place -> Nat]
    BY <1>1, BasisIsLaws DEF Lawful, Shaped
  <1>3. ASSUME NEW m \in Known PROVE y[p] * m[p] <= Value(y, job.opening)
    <2>1. m \in Marking
      BY DEF Lawful, Shaped, Known, Range
    <2>2. ASSUME NEW q \in Place PROVE m[q] \in Nat
      <3>1. m[q] \in Int
        BY <2>1, CountInt DEF Marking
      <3>2. m[q] >= 0
        BY DEF Counted
      <3> QED
        BY <3>1, <3>2
    <2> DEFINE h == [q \in Place |-> y[q] * m[q]]
    <2>3. ASSUME NEW q \in Place PROVE h[q] \in Nat
      <3> DEFINE a == y[q]  x == m[q]
      <3>1. a \in Nat /\ x \in Nat /\ h[q] = a * x
        BY <1>2, <2>2
      <3> HIDE DEF a, x, h
      <3> QED
        BY <3>1
    <2>4. DOMAIN y = Place /\ IsFiniteSet(Place)
      BY <1>2, NodeAssumption
    <2>5. Value(y, m) = SumFunctionOnSet(h, Place)
      BY <2>4, ValueIs
    <2>6. h[p] = y[p] * m[p]
      OBVIOUS
    <2> HIDE DEF h
    <2>7. h[p] <= SumFunctionOnSet(h, Place)
      BY <2>3, <2>4, SumNotNegative
    <2>8. Value(y, m) = Value(y, job.opening)
      BY <1>2 DEF Lawful, Kept
    <2> QED
      BY <2>5, <2>6, <2>7, <2>8
  <1> QED
    BY <1>1, <1>3 DEF HeldDown

\* No other check concludes anything by algebra.
LEMMA SearchedChecks ==
  /\ CheckDeadlockFree.method # "structural" /\ CheckLive.method # "structural"
  /\ CheckL4Live.method # "structural" /\ CheckTerminating.method # "structural"
  /\ \A target : CheckReachable(target).method # "structural" /\ CheckUnreachable(target).method # "structural"
  <1>1. CheckDeadlockFree.method # "structural"
    BY SearchedNotStructural DEF CheckDeadlockFree
  <1>2. CheckLive.method # "structural"
    BY SearchedNotStructural DEF CheckLive
  <1>3. CheckL4Live.method # "structural"
    BY SearchedNotStructural DEF CheckL4Live
  <1>4. CheckTerminating.method # "structural"
    BY SearchedNotStructural DEF CheckTerminating
  <1>5. ASSUME NEW target PROVE CheckUnreachable(target).method # "structural"
    BY SearchedNotStructural DEF CheckUnreachable
  <1>6. ASSUME NEW target PROVE CheckReachable(target).method # "structural"
    BY DEF CheckReachable, Verdict, MethodFor
  <1> QED
    BY <1>1, <1>2, <1>3, <1>4, <1>5, <1>6

\* Whichever claim is checked.
LEMMA CheckBorne ==
  ASSUME Lawful, NEW c \in Range(Claims) PROVE Borne(c, CheckOne(c))
  <1> DEFINE v == CheckOne(c)
  <1> SUFFICES ASSUME v.method = "structural", Unsaturated
               PROVE  /\ IsLinear(c) => Settles(Expression(c), v)
                      /\ c.kind = "bounded" /\ Counted => \A p \in Place : HeldDown(p)
    BY DEF Borne
  <1>1. c.kind \in Kind
    BY ClaimsAssumption
  <1>2. ~ Malformed(c)
    <2> SUFFICES ASSUME Malformed(c) PROVE FALSE
      OBVIOUS
    <2>1. c.kind \in {"reachable", "unreachable", "invariant", "mutex"}
      BY DEF Malformed, IsTarget
    <2>2. v = Verdict("unknown", "none", {})
      BY <2>1 DEF CheckOne
    <2> QED
      BY <2>2 DEF Verdict
  <1>3. CASE IsLinear(c)
    <2>1. v = CheckInvariant(Expression(c))
      BY <1>2, <1>3 DEF CheckOne, IsLinear, Linear
    <2>2. Settles(Expression(c), v)
      BY <1>2, <1>3, <2>1, ExpressionTyped, LinearBorne
    <2> QED
      BY <1>3, <2>2 DEF IsLinear, Linear
  <1>4. CASE c.kind = "bounded"
    <2>1. v = CheckBounded
      BY <1>2, <1>4 DEF CheckOne, IsLinear, Linear
    <2>2. StructurallyBounded
      <3> SUFFICES ASSUME ~ StructurallyBounded PROVE FALSE
        OBVIOUS
      <3>1. v = IF PumpFound # {}
                THEN Verdict("refuted", "witness", UNION {Counterexample(w.prefix \o w.pump, w.to) : w \in PumpFound})
                ELSE Exhaustively({})
        BY <2>1 DEF CheckBounded
      <3> QED
        BY <3>1, SearchedNotStructural DEF Verdict
    <2> QED
      BY <1>4, <2>2, BoundedBorne DEF IsLinear, Linear
  <1>5. CASE ~ IsLinear(c) /\ c.kind # "bounded"
    <2>1. c.kind \in {"deadlock_free", "live", "l4_live", "terminating", "reachable", "unreachable"}
      BY <1>1, <1>5 DEF IsLinear, Kind
    <2>2. CASE c.kind = "deadlock_free"
      BY <1>2, <1>5, <2>2, SearchedChecks DEF CheckOne
    <2>3. CASE c.kind = "live"
      BY <1>2, <1>5, <2>3, SearchedChecks DEF CheckOne
    <2>4. CASE c.kind = "l4_live"
      BY <1>2, <1>5, <2>4, SearchedChecks DEF CheckOne
    <2>5. CASE c.kind = "terminating"
      BY <1>2, <1>5, <2>5, SearchedChecks DEF CheckOne
    <2>6. CASE c.kind = "reachable"
      BY <1>2, <1>5, <2>6, SearchedChecks DEF CheckOne
    <2>7. CASE c.kind = "unreachable"
      BY <1>2, <1>5, <2>7, SearchedChecks DEF CheckOne
    <2> QED
      BY <2>1, <2>2, <2>3, <2>4, <2>5, <2>6, <2>7
  <1> QED
    BY <1>3, <1>4, <1>5

-----------------------------------------------------------------------------
(* The inductive invariant. *)

\* Verdicts are only given of a graph that does not change any more.
VInv ==
  /\ Lawful
  /\ verdicts \in Seq(Range(verdicts)) /\ Len(verdicts) <= Len(Claims)
  /\ verdicts # <<>> => stage = "check"
  /\ \A k \in DOMAIN verdicts : Borne(Claims[k], verdicts[k])

\* A verdict stays as true as it is while the search and its graph stay.
LEMMA BorneSame ==
  ASSUME UNCHANGED <<job, found, edges>>, NEW c, NEW v, Borne(c, v)
  PROVE  Borne(c, v)'
  <1>1. Known' = Known /\ (Unsaturated' <=> Unsaturated) /\ (Counted' <=> Counted) /\ Basis' = Basis
    BY DEF Known, Unsaturated, Counted, Basis
  <1>2. Expression(c)' = Expression(c)
    BY DEF Expression, Tokens
  <1> HIDE DEF Known, Unsaturated, Counted, Basis
  <1>3. (\A p \in Place : HeldDown(p))' <=> (\A p \in Place : HeldDown(p))
    BY <1>1 DEF HeldDown
  <1>4. Settles(Expression(c), v)' <=> Settles(Expression(c), v)
    BY <1>1, <1>2 DEF Settles, Satisfies
  <1> QED
    BY <1>1, <1>3, <1>4 DEF Borne

\* Neither do those already given change where none is.
LEMMA VInvSame ==
  ASSUME VInv, Lawful', UNCHANGED <<job, found, edges, verdicts>>, verdicts # <<>> => stage' = "check"
  PROVE  VInv'
  <1>1. ASSUME NEW k \in DOMAIN verdicts PROVE Borne(Claims[k], verdicts[k])'
    <2> DEFINE c == Claims[k]  v == verdicts'[k]
    <2>1. Borne(c, v) /\ UNCHANGED <<job, found, edges>>
      BY DEF VInv
    <2> QED
      BY <2>1, BorneSame
  <1> HIDE DEF Borne
  <1>2. (\A k \in DOMAIN verdicts : Borne(Claims[k], verdicts[k]))'
    BY <1>1
  <1> QED
    BY <1>2 DEF VInv, Range

LEMMA VInvCheck ==
  ASSUME VInv, Check PROVE VInv'
  <1> DEFINE n == Len(verdicts)
             c == Claims[n + 1]
             v == CheckOne(c)
  <1>1. verdicts \in Seq(Range(verdicts)) /\ n \in Nat /\ n < Len(Claims) /\ stage = "check"
    BY DEF VInv, Check
  <1>2. verdicts' = Append(verdicts, v)
    BY DEF Check
  <1>3. UNCHANGED <<job, found, edges, queue, at>> /\ stage' = stage
    BY DEF Check, analysis, graph
  <1>4. Lawful'
    BY <1>3, LawfulStill DEF VInv
  <1>5. c \in Range(Claims) /\ Len(Claims) \in Nat
    <2>1. Claims \in Seq(Range(Claims))
      BY ClaimsAssumption
    <2>2. DOMAIN Claims = 1 .. Len(Claims) /\ Len(Claims) \in Nat /\ n + 1 \in DOMAIN Claims
      BY <1>1, <2>1
    <2> QED
      BY <2>2 DEF Range
  <1>6. Borne(c, v)
    BY <1>5, CheckBorne DEF VInv
  <1> HIDE DEF v
  <1>7. verdicts' \in Seq(Range(verdicts) \cup {v})
    BY <1>1, <1>2
  <1>8. Len(verdicts') = n + 1 /\ DOMAIN verdicts' = 1 .. (n + 1) /\ DOMAIN verdicts = 1 .. n
    BY <1>1, <1>2
  <1>9. \A k \in 1 .. (n + 1) : verdicts'[k] = IF k = n + 1 THEN v ELSE verdicts[k]
    BY <1>1, <1>2
  <1>10. verdicts' \in Seq(Range(verdicts'))
    <2>1. \A k \in 1 .. (n + 1) : verdicts'[k] \in Range(verdicts')
      BY <1>8 DEF Range
    <2>2. verdicts' = [k \in 1 .. (n + 1) |-> verdicts'[k]]
      BY <1>7, <1>8
    <2> QED
      BY <1>1, <2>1, <2>2
  <1>11. ASSUME NEW k \in 1 .. (n + 1) PROVE Borne(Claims[k], verdicts'[k])
    <2>1. CASE k = n + 1
      BY <1>6, <1>9, <2>1
    <2>2. CASE k # n + 1
      <3>1. k \in DOMAIN verdicts /\ verdicts'[k] = verdicts[k]
        BY <1>1, <1>8, <1>9, <2>2
      <3> QED
        BY <3>1 DEF VInv
    <2> QED
      BY <2>1, <2>2
  <1>12. ASSUME NEW k \in 1 .. (n + 1) PROVE Borne(Claims[k], verdicts[k])'
    <2> DEFINE d == Claims[k]  w == verdicts'[k]
    <2>1. Borne(d, w)
      BY <1>11
    <2> QED
      BY <1>3, <2>1, BorneSame
  <1> HIDE DEF n
  <1>13. (\A k \in DOMAIN verdicts : Borne(Claims[k], verdicts[k]))'
    BY <1>8, <1>12
  <1>14. Len(verdicts') <= Len(Claims)
    BY <1>1, <1>5, <1>8
  <1> QED
    BY <1>1, <1>3, <1>4, <1>10, <1>13, <1>14 DEF VInv

LEMMA VInvBuild ==
  ASSUME VInv, Building, UNCHANGED verdicts PROVE VInv'
  <1>1. stage' = stage
    BY DEF Building
  <1>2. verdicts = <<>>
    BY DEF Building, VInv
  <1>3. Lawful'
    <2>1. CASE Pop
      BY <1>2, <2>1, LawfulPop DEF VInv
    <2>2. CASE \E i \in DOMAIN Declared : Discover(i)
      BY <1>2, <2>2, LawfulDiscover DEF VInv
    <2>3. CASE (\E i \in DOMAIN Declared : Exceed(i)) \/ EndExpand \/ Finish
      <3>1. UNCHANGED <<job, found, edges, queue, at>>
        BY <2>3 DEF Exceed, EndExpand, Finish
      <3> QED
        BY <1>2, <3>1, LawfulStill DEF VInv
    <2> QED
      BY <2>1, <2>2, <2>3 DEF Building, Build
  <1>4. UNCHANGED <<verdicts, stage>> /\ DOMAIN verdicts = {}
    BY <1>1, <1>2
  <1> HIDE DEF Lawful, Borne
  <1> QED
    BY <1>2, <1>3, <1>4 DEF VInv, Range

\* The laws of the arcs are kept, and what follows from them is so, all along.
THEOREM VerifyInvariance == Spec => []VInv
  <1>1. Init => VInv
    <2> SUFFICES ASSUME Init PROVE VInv
      OBVIOUS
    <2>1. Lawful /\ verdicts = <<>>
      BY LawfulInit DEF Init, Start
    <2>2. Len(Claims) \in Nat
      BY ClaimsAssumption
    <2> HIDE DEF Lawful, Borne
    <2>3. verdicts \in Seq(Range(verdicts)) /\ Len(verdicts) = 0 /\ DOMAIN verdicts = {}
      BY <2>1
    <2> QED
      BY <2>1, <2>2, <2>3 DEF VInv
  <1>2. VInv /\ [Next]_vars => VInv'
    <2> SUFFICES ASSUME VInv, [Next]_vars PROVE VInv'
      OBVIOUS
    <2>1. CASE Building /\ UNCHANGED verdicts
      BY <2>1, VInvBuild
    <2>2. CASE (Group \/ Grouping \/ Ready) /\ UNCHANGED verdicts
      <3>1. UNCHANGED <<job, found, edges, queue, at>>
        BY <2>2 DEF Group, Grouping, Ready, graph
      <3>2. stage # "check"
        BY <2>2 DEF Group, Grouping, Ready
      <3>3. Lawful' /\ verdicts = <<>>
        BY <3>1, <3>2, LawfulStill DEF VInv
      <3> QED
        BY <2>2, <3>1, <3>3, VInvSame
    <2>3. CASE Check
      BY <2>3, VInvCheck
    <2>4. CASE UNCHANGED vars
      <3>1. UNCHANGED <<job, found, edges, queue, at, stage, verdicts>>
        BY <2>4 DEF vars, analysis, graph
      <3>2. Lawful' /\ (verdicts # <<>> => stage' = "check")
        BY <3>1, LawfulStill DEF VInv
      <3> QED
        BY <3>1, <3>2, VInvSame
    <2>5. Ready => UNCHANGED verdicts
      BY DEF Ready
    <2> QED
      BY <2>1, <2>2, <2>3, <2>4, <2>5 DEF Next, Analysing
  <1> QED
    BY <1>1, <1>2, PTL DEF Spec

\* What the elimination calls a law, of the arcs alone, every marking the search
\* finds keeps, unless a firing saturates a count (invariants.rs, struct Invariant).
THEOREM LawsAreKept == Spec => []BasisKept
  <1>1. VInv => BasisKept
    <2> SUFFICES ASSUME Lawful, Unsaturated, NEW y \in Basis, NEW m \in Known
                 PROVE  Value(y, m) = Value(y, job.opening)
      BY DEF VInv, BasisKept
    <2>1. y \in Laws
      BY BasisIsLaws DEF Lawful, Shaped
    <2> QED
      BY <2>1 DEF Lawful, Kept
  <1> QED
    BY <1>1, VerifyInvariance, PTL

\* A verdict the verifier gives by algebra alone (Method::Structural) is so of
\* every marking the search finds, for every net, claims and limits, unless a firing
\* saturates a count; a bound also needs that no count is below nothing.
THEOREM AlgebraIsSound == Spec => []StructuralTrue
  <1>1. VInv /\ BasisKept => StructuralTrue
    <2> SUFFICES ASSUME VInv, BasisKept, Answered, Answer.method = "structural", Unsaturated
                 PROVE  /\ IsLinear(Claim) => Settles(Expression(Claim), Answer)
                        /\ Claim.kind = "bounded" /\ Counted => \A p \in Place : HeldDown(p)
      BY DEF StructuralTrue, Settles, Counted, HeldDown
    <2>1. Len(verdicts) \in DOMAIN verdicts
      BY DEF VInv, Answered
    <2>2. Borne(Claim, Answer)
      BY <2>1 DEF VInv, Claim, Answer
    <2> QED
      BY <2>2 DEF Borne
  <1> QED
    BY <1>1, VerifyInvariance, LawsAreKept, PTL

=============================================================================
