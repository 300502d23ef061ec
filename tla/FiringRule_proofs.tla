------------------------- MODULE FiringRule_proofs -------------------------
(***************************************************************************)
(* What the proofs rest on.  First what finite sums are, that is what      *)
(* SumFunctionOnSet of the community modules returns for every function    *)
(* and finite set: the provers have no induction principle they could      *)
(* apply to a formula, but they know that the naturals are well-founded,   *)
(* and an induction is done here on the set of those the formula holds of. *)
(* The same gives other facts about recursion: that a function can be      *)
(* iterated, a sequence folded, and a finite set lined up by an order.     *)
(* Then what the operators of the firing rule return, for every net.       *)
(***************************************************************************)
EXTENDS FiringRule, FiniteSetTheorems, SequenceTheorems, TLAPS

-----------------------------------------------------------------------------
\* A set of naturals has a least.
LEMMA LeastOf ==
  ASSUME NEW T \in SUBSET Nat, T # {}
  PROVE  \E n \in T : \A m \in T : n <= m
<1> DEFINE L == OpToRel(<, Nat)
<1>1. IsWellFoundedOn(L, Nat)
  BY NatLessThanWellFounded
<1>2. \A x, y \in Nat : y < x => <<y, x>> \in L
  BY DEF OpToRel
<1> HIDE DEF L
<1>3. PICK x \in T : \A y \in T : ~ (<<y, x>> \in L)
  BY <1>1, WFMin
<1>4. ASSUME NEW y \in T PROVE x <= y
  <2>1. ~ (<<y, x>> \in L)
    BY <1>3
  <2>2. ~ (y < x)
    BY <1>2, <2>1
  <2> QED BY <2>2
<1> QED BY <1>4

\* A set that holds zero and the successor of what it holds is all of Nat.
LEMMA Induct ==
  ASSUME NEW T \in SUBSET Nat, 0 \in T, \A n \in T : n + 1 \in T
  PROVE  T = Nat
<1>1. SUFFICES ASSUME Nat \ T # {} PROVE FALSE
  OBVIOUS
<1>2. PICK n \in Nat \ T : \A m \in Nat \ T : n <= m
  BY <1>1, LeastOf
<1>3. n # 0 /\ n - 1 \in Nat
  BY <1>2
<1>4. n - 1 \in T
  BY <1>2, <1>3
<1> QED BY <1>2, <1>3, <1>4

\* The sizes of the parts of a finite set.
LEMMA Parts ==
  ASSUME NEW S, IsFiniteSet(S)
  PROVE  \A t \in SUBSET S :
           /\ IsFiniteSet(t) /\ Cardinality(t) \in Nat /\ Cardinality(t) <= Cardinality(S)
           /\ Cardinality(t) = 0 <=> t = {}
           /\ \A x \in t : t \ {x} \in SUBSET S /\ Cardinality(t \ {x}) = Cardinality(t) - 1
<1> SUFFICES ASSUME NEW t \in SUBSET S
             PROVE  /\ IsFiniteSet(t) /\ Cardinality(t) \in Nat /\ Cardinality(t) <= Cardinality(S)
                    /\ Cardinality(t) = 0 <=> t = {}
                    /\ \A x \in t : t \ {x} \in SUBSET S /\ Cardinality(t \ {x}) = Cardinality(t) - 1
  OBVIOUS
<1>1. IsFiniteSet(t) /\ Cardinality(t) <= Cardinality(S)
  BY FS_Subset
<1>2. Cardinality(t) \in Nat /\ (Cardinality(t) = 0 <=> t = {})
  BY <1>1, FS_CardinalityType, FS_EmptySet
<1>3. ASSUME NEW x \in t
      PROVE  t \ {x} \in SUBSET S /\ Cardinality(t \ {x}) = Cardinality(t) - 1
  BY <1>1, FS_RemoveElement
<1> QED BY <1>1, <1>2, <1>3

\* Induction over the parts of a finite set: the empty one is in T, and a part
\* is if it is without any one of its elements.
LEMMA PartsInduct ==
  ASSUME NEW S, IsFiniteSet(S), NEW T, {} \in T,
         \A t \in SUBSET S : t # {} /\ (\A x \in t : t \ {x} \in T) => t \in T
  PROVE  S \in T /\ \A t \in SUBSET S : t \in T
<1> DEFINE N == {n \in Nat : \A t \in SUBSET S : Cardinality(t) = n => t \in T}
<1>1. 0 \in N
  BY Parts
<1>2. ASSUME NEW n \in N PROVE n + 1 \in N
  <2> SUFFICES ASSUME NEW t \in SUBSET S, Cardinality(t) = n + 1
               PROVE  t \in T
    OBVIOUS
  <2>1. t # {}
    BY Parts
  <2>2. ASSUME NEW x \in t PROVE t \ {x} \in T
    <3>1. t \ {x} \in SUBSET S /\ Cardinality(t \ {x}) = n
      BY Parts
    <3> QED BY <3>1
  <2> QED BY <2>1, <2>2
<1>3. N = Nat
  <2>1. N \in SUBSET Nat
    OBVIOUS
  <2> HIDE DEF N
  <2> QED BY <1>1, <1>2, <2>1, Induct
<1> QED BY <1>3, Parts

\* Sets of positions of a sequence are finite.
LEMMA Positions ==
  ASSUME NEW n \in Nat, NEW K \in SUBSET (1 .. n)
  PROVE  IsFiniteSet(K)
<1>1. IsFiniteSet(1 .. n)
  BY FS_Interval
<1> QED BY <1>1, FS_Subset

-----------------------------------------------------------------------------
\* The fold takes the elements in an order of its own: Some of those left.
Some(s) == CHOOSE x \in s : TRUE

\* g sums f over each of the sets D.
Solves(f, g, D) == g = [s \in D |-> IF s = {} THEN 0 ELSE f[Some(s)] + g[s \ {Some(s)}]]

OfSize(S, n) == {s \in SUBSET S : Cardinality(s) <= n}

\* Some picks a member.
LEMMA SomeOf == \A s : s # {} => Some(s) \in s
BY DEF Some

\* The recursion of the fold has a solution.
LEMMA SumsExist ==
  ASSUME NEW f, NEW S, IsFiniteSet(S)
  PROVE  \E g : Solves(f, g, SUBSET S)
<1> DEFINE T == {n \in Nat : \E g : Solves(f, g, OfSize(S, n))}
<1>1. 0 \in T
  <2>1. OfSize(S, 0) = {{}}
    BY Parts DEF OfSize
  <2>2. Solves(f, [s \in {{}} |-> 0], {{}})
    BY DEF Solves
  <2> QED BY <2>1, <2>2
<1>2. ASSUME NEW n \in T PROVE n + 1 \in T
  <2>1. PICK g : Solves(f, g, OfSize(S, n))
    OBVIOUS
  <2> DEFINE h == [s \in OfSize(S, n + 1) |-> IF s = {} THEN 0 ELSE f[Some(s)] + g[s \ {Some(s)}]]
  <2>2. \A s \in OfSize(S, n) : g[s] = IF s = {} THEN 0 ELSE f[Some(s)] + g[s \ {Some(s)}]
    BY <2>1 DEF Solves
  <2>3. OfSize(S, n) \subseteq OfSize(S, n + 1)
    BY Parts DEF OfSize
  <2>4. \A s \in OfSize(S, n) : g[s] = h[s]
    BY <2>2, <2>3
  <2>5. ASSUME NEW s \in OfSize(S, n + 1), s # {}
        PROVE  s \ {Some(s)} \in OfSize(S, n)
    BY <2>5, SomeOf, Parts DEF OfSize
  <2>6. h = [s \in OfSize(S, n + 1) |-> IF s = {} THEN 0 ELSE f[Some(s)] + h[s \ {Some(s)}]]
    BY <2>4, <2>5
  <2>7. Solves(f, h, OfSize(S, n + 1))
    BY <2>6 DEF Solves
  <2> QED BY <2>7
<1>3. Cardinality(S) \in T
  <2> HIDE DEF T
  <2>1. T \in SUBSET Nat
    BY DEF T
  <2> QED BY <1>1, <1>2, <2>1, Induct, FS_CardinalityType
<1>4. OfSize(S, Cardinality(S)) = SUBSET S
  BY Parts DEF OfSize
<1> QED BY <1>3, <1>4

\* The sum is what a solution says.
LEMMA SumIsOne ==
  ASSUME NEW f, NEW S, IsFiniteSet(S)
  PROVE  \E g : Solves(f, g, SUBSET S) /\ SumFunctionOnSet(f, S) = g[S]
<1> DEFINE it == CHOOSE g : g = [s \in SUBSET S |->
                   IF s = {} THEN 0 ELSE f[CHOOSE x \in s : TRUE] + g[s \ {CHOOSE x \in s : TRUE}]]
<1>1. SumFunctionOnSet(f, S) = it[S]
  BY DEF SumFunctionOnSet, FoldFunctionOnSet, MapThenFoldSet
<1>2. \E g : g = [s \in SUBSET S |->
                   IF s = {} THEN 0 ELSE f[CHOOSE x \in s : TRUE] + g[s \ {CHOOSE x \in s : TRUE}]]
  <2>1. PICK g : Solves(f, g, SUBSET S)
    BY SumsExist
  <2>2. g = [s \in SUBSET S |->
              IF s = {} THEN 0 ELSE f[CHOOSE x \in s : TRUE] + g[s \ {CHOOSE x \in s : TRUE}]]
    BY <2>1 DEF Solves, Some
  <2> QED BY <2>2
<1>3. it = [s \in SUBSET S |->
             IF s = {} THEN 0 ELSE f[CHOOSE x \in s : TRUE] + it[s \ {CHOOSE x \in s : TRUE}]]
  BY <1>2
<1>4. Solves(f, it, SUBSET S)
  BY <1>3 DEF Solves, Some
<1> QED BY <1>1, <1>4

\* Two solutions agree where both are defined.
LEMMA SumsAgree ==
  ASSUME NEW f, NEW S, IsFiniteSet(S), NEW s \in SUBSET S,
         NEW g, NEW h, Solves(f, g, SUBSET S) /\ Solves(f, h, SUBSET s)
  PROVE  g[s] = h[s]
<1> DEFINE T == {t \in SUBSET s : g[t] = h[t]}
<1>1. {} \in T
  BY DEF Solves
<1>2. ASSUME NEW t \in SUBSET s, t # {}, \A x \in t : t \ {x} \in T PROVE t \in T
  <2>1. g[t \ {Some(t)}] = h[t \ {Some(t)}]
    BY <1>2, SomeOf
  <2>2. g[t] = f[Some(t)] + g[t \ {Some(t)}]
    BY <1>2 DEF Solves
  <2>3. h[t] = f[Some(t)] + h[t \ {Some(t)}]
    BY <1>2 DEF Solves
  <2> QED BY <2>1, <2>2, <2>3
<1>3. IsFiniteSet(s)
  BY FS_Subset
<1> HIDE DEF T
<1>4. s \in T
  BY <1>1, <1>2, <1>3, PartsInduct
<1> QED BY <1>4 DEF T

\* The sum over nothing is zero.
LEMMA SumEmpty == \A f : SumFunctionOnSet(f, {}) = 0
<1> SUFFICES ASSUME NEW f PROVE SumFunctionOnSet(f, {}) = 0
  OBVIOUS
<1>1. PICK g : Solves(f, g, SUBSET {}) /\ SumFunctionOnSet(f, {}) = g[{}]
  BY SumIsOne, FS_EmptySet
<1> QED BY <1>1 DEF Solves

\* A sum is one summand and the sum of the others.
LEMMA SumSome ==
  ASSUME NEW f, NEW S, IsFiniteSet(S), S # {}
  PROVE  SumFunctionOnSet(f, S) = f[Some(S)] + SumFunctionOnSet(f, S \ {Some(S)})
<1>1. PICK g : Solves(f, g, SUBSET S) /\ SumFunctionOnSet(f, S) = g[S]
  BY SumIsOne
<1>2. PICK R \in SUBSET S : R = S \ {Some(S)}
  OBVIOUS
<1>3. PICK h : Solves(f, h, SUBSET R) /\ SumFunctionOnSet(f, R) = h[R]
  BY FS_Subset, SumIsOne
<1>4. g[R] = h[R]
  <2>1. Solves(f, g, SUBSET S) /\ Solves(f, h, SUBSET R)
    BY <1>1, <1>3
  <2>2. \A k, l : Solves(f, k, SUBSET S) /\ Solves(f, l, SUBSET R) => k[R] = l[R]
    BY SumsAgree
  <2> QED BY <2>1, <2>2
<1>5. g[S] = f[Some(S)] + g[R]
  BY <1>1, <1>2 DEF Solves
<1> QED BY <1>1, <1>2, <1>3, <1>4, <1>5

-----------------------------------------------------------------------------
\* A finite sum of integers is an integer.
LEMMA SumIsInt ==
  ASSUME NEW f, NEW S, IsFiniteSet(S), \A x \in S : f[x] \in Int
  PROVE  SumFunctionOnSet(f, S) \in Int
<1> DEFINE T == {t \in SUBSET S : SumFunctionOnSet(f, t) \in Int}
<1>1. {} \in T
  BY SumEmpty
<1>2. ASSUME NEW t \in SUBSET S, t # {}, \A x \in t : t \ {x} \in T PROVE t \in T
  <2>1. Some(t) \in t /\ IsFiniteSet(t)
    BY <1>2, SomeOf, Parts
  <2>2. SumFunctionOnSet(f, t) = f[Some(t)] + SumFunctionOnSet(f, t \ {Some(t)})
    BY <1>2, <2>1, SumSome
  <2>3. SumFunctionOnSet(f, t \ {Some(t)}) \in Int
    BY <1>2, <2>1
  <2> QED BY <2>1, <2>2, <2>3
<1> HIDE DEF T
<1>3. S \in T
  BY <1>1, <1>2, PartsInduct
<1> QED BY <1>3 DEF T

\* Any element may be taken out of a sum first.
LEMMA SumOut ==
  ASSUME NEW f, NEW S, IsFiniteSet(S), \A x \in S : f[x] \in Int
  PROVE  \A x \in S : SumFunctionOnSet(f, S) = f[x] + SumFunctionOnSet(f, S \ {x})
<1> DEFINE T == {t \in SUBSET S : \A x \in t : SumFunctionOnSet(f, t) = f[x] + SumFunctionOnSet(f, t \ {x})}
<1>i. \A t \in SUBSET S : SumFunctionOnSet(f, t) \in Int
  BY Parts, SumIsInt
<1>1. {} \in T
  OBVIOUS
<1>2. ASSUME NEW t \in SUBSET S, t # {}, \A x \in t : t \ {x} \in T PROVE t \in T
  <2> SUFFICES ASSUME NEW x \in t
               PROVE  SumFunctionOnSet(f, t) = f[x] + SumFunctionOnSet(f, t \ {x})
    OBVIOUS
  <2>1. PICK y \in t : y = Some(t)
    BY SomeOf
  <2>2. SumFunctionOnSet(f, t) = f[y] + SumFunctionOnSet(f, t \ {y})
    BY <2>1, Parts, SumSome
  <2>3. CASE x = y
    BY <2>2, <2>3
  <2>4. CASE x # y
    <3> DEFINE r == t \ {x}
               q == t \ {y}
               b == (t \ {x}) \ {y}
    <3>1. r \in T /\ q \in T /\ y \in r /\ x \in q
      BY <1>2, <2>4
    <3>2. r \ {y} = b /\ q \ {x} = b
      OBVIOUS
    <3>3. SumFunctionOnSet(f, r) = f[y] + SumFunctionOnSet(f, b)
      BY <3>1, <3>2
    <3>4. SumFunctionOnSet(f, q) = f[x] + SumFunctionOnSet(f, b)
      BY <3>1, <3>2
    <3>5. f[x] \in Int /\ f[y] \in Int /\ SumFunctionOnSet(f, b) \in Int
      BY <1>i
    <3> QED BY <2>2, <3>3, <3>4, <3>5
  <2> QED BY <2>3, <2>4
<1> HIDE DEF T
<1>3. S \in T
  BY <1>1, <1>2, PartsInduct
<1> QED BY <1>3 DEF T

\* A sum depends on nothing but the values summed.
LEMMA SumSame ==
  ASSUME NEW f, NEW g, NEW S, IsFiniteSet(S), \A x \in S : f[x] \in Int /\ f[x] = g[x]
  PROVE  SumFunctionOnSet(f, S) = SumFunctionOnSet(g, S)
<1> DEFINE T == {t \in SUBSET S : SumFunctionOnSet(f, t) = SumFunctionOnSet(g, t)}
<1>1. {} \in T
  BY SumEmpty
<1>2. ASSUME NEW t \in SUBSET S, t # {}, \A x \in t : t \ {x} \in T PROVE t \in T
  <2>1. Some(t) \in t /\ IsFiniteSet(t)
    BY <1>2, SomeOf, Parts
  <2>2. SumFunctionOnSet(f, t) = f[Some(t)] + SumFunctionOnSet(f, t \ {Some(t)})
    BY <1>2, <2>1, SumSome
  <2>3. SumFunctionOnSet(g, t) = g[Some(t)] + SumFunctionOnSet(g, t \ {Some(t)})
    BY <1>2, <2>1, SumSome
  <2> QED BY <1>2, <2>1, <2>2, <2>3
<1> HIDE DEF T
<1>3. S \in T
  <2>1. \A t \in SUBSET S : t # {} /\ (\A x \in t : t \ {x} \in T) => t \in T
    BY <1>2
  <2> QED BY <1>1, <2>1, PartsInduct
<1> QED BY <1>3 DEF T

\* One value changed.
LEMMA SumChange ==
  ASSUME NEW f, NEW g, NEW S, IsFiniteSet(S), NEW x \in S,
         \A y \in S : f[y] \in Int /\ g[y] \in Int,
         \A y \in S \ {x} : f[y] = g[y]
  PROVE  SumFunctionOnSet(g, S) = SumFunctionOnSet(f, S) + (g[x] - f[x])
<1>1. PICK R \in SUBSET S : R = S \ {x}
  OBVIOUS
<1>2. SumFunctionOnSet(f, S) = f[x] + SumFunctionOnSet(f, R)
  BY <1>1, SumOut
<1>3. SumFunctionOnSet(g, S) = g[x] + SumFunctionOnSet(g, R)
  BY <1>1, SumOut
<1>4. SumFunctionOnSet(f, R) = SumFunctionOnSet(g, R) /\ SumFunctionOnSet(f, R) \in Int
  <2>1. IsFiniteSet(R) /\ \A y \in R : f[y] \in Int /\ f[y] = g[y]
    BY <1>1, FS_Subset
  <2> QED BY <2>1, SumSame, SumIsInt
<1>5. f[x] \in Int /\ g[x] \in Int
  OBVIOUS
<1> QED BY <1>2, <1>3, <1>4, <1>5

\* One element more.
LEMMA SumIn ==
  ASSUME NEW f, NEW S, IsFiniteSet(S), NEW x, x \notin S, \A y \in S \cup {x} : f[y] \in Int
  PROVE  SumFunctionOnSet(f, S \cup {x}) = SumFunctionOnSet(f, S) + f[x]
<1>1. PICK W : W = S \cup {x}
  OBVIOUS
<1>2. IsFiniteSet(W) /\ x \in W /\ W \ {x} = S
  BY <1>1, FS_AddElement
<1>3. SumFunctionOnSet(f, W) = f[x] + SumFunctionOnSet(f, S)
  BY <1>1, <1>2, SumOut
<1>4. SumFunctionOnSet(f, S) \in Int /\ f[x] \in Int
  BY SumIsInt
<1> QED BY <1>1, <1>3, <1>4

\* A sum of values none of which is negative is not, and not below any of them.
LEMMA SumNotNegative ==
  ASSUME NEW f, NEW S, IsFiniteSet(S), \A x \in S : f[x] \in Nat
  PROVE  SumFunctionOnSet(f, S) \in Nat /\ \A x \in S : f[x] <= SumFunctionOnSet(f, S)
<1> DEFINE T == {t \in SUBSET S : SumFunctionOnSet(f, t) \in Nat}
<1>1. {} \in T
  BY SumEmpty
<1>2. ASSUME NEW t \in SUBSET S, t # {}, \A x \in t : t \ {x} \in T PROVE t \in T
  <2>1. Some(t) \in t /\ IsFiniteSet(t)
    BY <1>2, SomeOf, Parts
  <2>2. SumFunctionOnSet(f, t) = f[Some(t)] + SumFunctionOnSet(f, t \ {Some(t)})
    BY <1>2, <2>1, SumSome
  <2>3. SumFunctionOnSet(f, t \ {Some(t)}) \in Nat
    BY <1>2, <2>1
  <2> QED BY <2>1, <2>2, <2>3
<1> HIDE DEF T
<1>3. \A t \in SUBSET S : t \in T
  BY <1>1, <1>2, PartsInduct
<1>4. ASSUME NEW x \in S PROVE f[x] <= SumFunctionOnSet(f, S)
  <2>1. SumFunctionOnSet(f, S \ {x}) \in Nat
    BY <1>3 DEF T
  <2>2. SumFunctionOnSet(f, S) = f[x] + SumFunctionOnSet(f, S \ {x})
    BY SumOut
  <2> QED BY <2>1, <2>2
<1> QED BY <1>3, <1>4 DEF T

\* Nothing adds up to nothing.
LEMMA SumZero ==
  ASSUME NEW f, NEW S, IsFiniteSet(S), \A x \in S : f[x] = 0
  PROVE  SumFunctionOnSet(f, S) = 0
<1> DEFINE T == {t \in SUBSET S : SumFunctionOnSet(f, t) = 0}
<1>1. {} \in T
  BY SumEmpty
<1>2. ASSUME NEW t \in SUBSET S, t # {}, \A x \in t : t \ {x} \in T PROVE t \in T
  <2>1. Some(t) \in t /\ IsFiniteSet(t)
    BY <1>2, SomeOf, Parts
  <2>2. SumFunctionOnSet(f, t) = f[Some(t)] + SumFunctionOnSet(f, t \ {Some(t)})
    BY <1>2, <2>1, SumSome
  <2> QED BY <1>2, <2>1, <2>2
<1> HIDE DEF T
<1>3. S \in T
  BY <1>1, <1>2, PartsInduct
<1> QED BY <1>3 DEF T

\* A sum of values none of which exceeds 1 does not exceed their number.
LEMMA SumAtMost ==
  ASSUME NEW f, NEW S, IsFiniteSet(S), \A x \in S : f[x] \in Int /\ f[x] <= 1
  PROVE  SumFunctionOnSet(f, S) <= Cardinality(S)
<1> DEFINE T == {t \in SUBSET S : SumFunctionOnSet(f, t) <= Cardinality(t)}
<1>1. {} \in T
  BY SumEmpty, FS_EmptySet
<1>2. ASSUME NEW t \in SUBSET S, t # {}, \A x \in t : t \ {x} \in T PROVE t \in T
  <2>1. Some(t) \in t /\ IsFiniteSet(t) /\ IsFiniteSet(t \ {Some(t)})
    BY <1>2, SomeOf, Parts
  <2>2. SumFunctionOnSet(f, t) = f[Some(t)] + SumFunctionOnSet(f, t \ {Some(t)})
    BY <1>2, <2>1, SumSome
  <2>3. SumFunctionOnSet(f, t \ {Some(t)}) <= Cardinality(t \ {Some(t)})
    BY <1>2, <2>1
  <2>4. SumFunctionOnSet(f, t \ {Some(t)}) \in Int
    BY <2>1, SumIsInt
  <2>5. Cardinality(t) \in Nat /\ Cardinality(t \ {Some(t)}) = Cardinality(t) - 1
    BY <2>1, Parts
  <2>6. f[Some(t)] \in Int /\ f[Some(t)] <= 1
    BY <2>1
  <2> QED BY <2>2, <2>3, <2>4, <2>5, <2>6
<1> HIDE DEF T
<1>3. S \in T
  BY <1>1, <1>2, PartsInduct
<1> QED BY <1>3 DEF T

\* A sum of values none of which is above another's does not exceed its sum.
LEMMA SumOrdered ==
  ASSUME NEW f, NEW g, NEW S, IsFiniteSet(S), \A x \in S : f[x] \in Int /\ g[x] \in Int /\ f[x] <= g[x]
  PROVE  SumFunctionOnSet(f, S) <= SumFunctionOnSet(g, S)
<1> DEFINE T == {t \in SUBSET S : SumFunctionOnSet(f, t) <= SumFunctionOnSet(g, t)}
<1>1. {} \in T
  BY SumEmpty
<1>2. ASSUME NEW t \in SUBSET S, t # {}, \A x \in t : t \ {x} \in T PROVE t \in T
  <2>1. Some(t) \in t /\ IsFiniteSet(t) /\ IsFiniteSet(t \ {Some(t)})
    BY <1>2, SomeOf, Parts
  <2>2. /\ SumFunctionOnSet(f, t) = f[Some(t)] + SumFunctionOnSet(f, t \ {Some(t)})
        /\ SumFunctionOnSet(g, t) = g[Some(t)] + SumFunctionOnSet(g, t \ {Some(t)})
    BY <1>2, <2>1, SumSome
  <2>3. SumFunctionOnSet(f, t \ {Some(t)}) <= SumFunctionOnSet(g, t \ {Some(t)})
    BY <1>2, <2>1
  <2>4. SumFunctionOnSet(f, t \ {Some(t)}) \in Int /\ SumFunctionOnSet(g, t \ {Some(t)}) \in Int
    BY <2>1, SumIsInt
  <2>5. f[Some(t)] \in Int /\ g[Some(t)] \in Int /\ f[Some(t)] <= g[Some(t)]
    BY <2>1
  <2> QED BY <2>2, <2>3, <2>4, <2>5
<1> HIDE DEF T
<1>3. S \in T
  BY <1>1, <1>2, PartsInduct
<1> QED BY <1>3 DEF T

\* h is a times f and b times g.
Combines(h, a, f, b, g, S) == \A x \in S : f[x] \in Int /\ g[x] \in Int /\ h[x] = a * f[x] + b * g[x]

\* A sum of combinations is the combination of the sums.
LEMMA SumCombined ==
  ASSUME NEW f, NEW g, NEW h, NEW S, IsFiniteSet(S), NEW a \in Int, NEW b \in Int, Combines(h, a, f, b, g, S)
  PROVE  SumFunctionOnSet(h, S) = a * SumFunctionOnSet(f, S) + b * SumFunctionOnSet(g, S)
<1> DEFINE T == {t \in SUBSET S : SumFunctionOnSet(h, t) = a * SumFunctionOnSet(f, t) + b * SumFunctionOnSet(g, t)}
<1>1. {} \in T
  BY SumEmpty
<1>2. ASSUME NEW t \in SUBSET S, t # {}, \A x \in t : t \ {x} \in T PROVE t \in T
  <2> DEFINE r == t \ {Some(t)}
             F == SumFunctionOnSet(f, r)
             G == SumFunctionOnSet(g, r)
             u == f[Some(t)]
             v == g[Some(t)]
  <2>1. Some(t) \in t /\ IsFiniteSet(t) /\ IsFiniteSet(r) /\ r \in T
    BY <1>2, SomeOf, Parts
  <2>2. /\ SumFunctionOnSet(f, t) = u + F
        /\ SumFunctionOnSet(g, t) = v + G
        /\ SumFunctionOnSet(h, t) = h[Some(t)] + SumFunctionOnSet(h, r)
    BY <1>2, <2>1, SumSome
  <2>3. SumFunctionOnSet(h, r) = a * F + b * G
    BY <2>1
  <2>4. F \in Int /\ G \in Int
    BY <2>1, SumIsInt DEF Combines
  <2>5. u \in Int /\ v \in Int /\ h[Some(t)] = a * u + b * v
    BY <2>1 DEF Combines
  <2> HIDE DEF r, F, G, u, v, T
  <2>6. (a * u + b * v) + (a * F + b * G) = a * (u + F) + b * (v + G)
    BY <2>4, <2>5
  <2>7. SumFunctionOnSet(h, t) = a * SumFunctionOnSet(f, t) + b * SumFunctionOnSet(g, t)
    BY <2>2, <2>3, <2>5, <2>6
  <2> QED BY <2>7 DEF T
<1> HIDE DEF T
<1>3. S \in T
  BY <1>1, <1>2, PartsInduct
<1> QED BY <1>3 DEF T

\* What is nothing outside P adds up to what P does.
LEMMA SumPart ==
  ASSUME NEW f, NEW h, NEW S, IsFiniteSet(S), NEW P \in SUBSET S,
         \A x \in S : f[x] \in Int /\ h[x] = IF x \in P THEN f[x] ELSE 0
  PROVE  SumFunctionOnSet(h, S) = SumFunctionOnSet(f, P)
<1> DEFINE T == {t \in SUBSET S : SumFunctionOnSet(h, t) = SumFunctionOnSet(f, t \cap P)}
<1>1. {} \in T
  BY SumEmpty
<1>2. ASSUME NEW t \in SUBSET S, t # {}, \A x \in t : t \ {x} \in T PROVE t \in T
  <2>1. Some(t) \in t /\ IsFiniteSet(t) /\ IsFiniteSet(t \cap P)
    BY <1>2, SomeOf, Parts, FS_Intersection
  <2>2. SumFunctionOnSet(h, t) = h[Some(t)] + SumFunctionOnSet(h, t \ {Some(t)})
    BY <1>2, <2>1, SumSome
  <2>3. SumFunctionOnSet(h, t \ {Some(t)}) = SumFunctionOnSet(f, (t \ {Some(t)}) \cap P)
    BY <1>2, <2>1
  <2>4. CASE Some(t) \in P
    <3>1. (t \ {Some(t)}) \cap P = (t \cap P) \ {Some(t)} /\ Some(t) \in t \cap P
      BY <2>1, <2>4
    <3>2. \A x \in t \cap P : f[x] \in Int
      OBVIOUS
    <3>3. SumFunctionOnSet(f, t \cap P) = f[Some(t)] + SumFunctionOnSet(f, (t \cap P) \ {Some(t)})
      BY <2>1, <3>1, <3>2, SumOut
    <3> QED BY <2>1, <2>2, <2>3, <2>4, <3>1, <3>3
  <2>5. CASE Some(t) \notin P
    <3>1. (t \ {Some(t)}) \cap P = t \cap P
      BY <2>5
    <3>2. \A x \in t \cap P : f[x] \in Int
      OBVIOUS
    <3>3. SumFunctionOnSet(f, t \cap P) \in Int
      BY <2>1, <3>2, SumIsInt
    <3>4. h[Some(t)] = 0
      BY <2>1, <2>5
    <3>5. SumFunctionOnSet(h, t) = SumFunctionOnSet(f, t \cap P)
      <4>1. SumFunctionOnSet(f, (t \ {Some(t)}) \cap P) = SumFunctionOnSet(f, t \cap P)
        BY <3>1, Zenon
      <4> QED BY <2>2, <2>3, <3>3, <3>4, <4>1
    <3> QED BY <3>5
  <2> QED BY <2>4, <2>5
<1> HIDE DEF T
<1>3. S \in T
  <2>1. \A t \in SUBSET S : t # {} /\ (\A x \in t : t \ {x} \in T) => t \in T
    BY <1>2
  <2> QED BY <1>1, <2>1, PartsInduct
<1>4. S \cap P = P
  OBVIOUS
<1> QED BY <1>3, <1>4 DEF T

-----------------------------------------------------------------------------
\* A sum does not depend on how its terms are indexed.
LEMMA SumReindex ==
  ASSUME NEW f, NEW g, NEW S, IsFiniteSet(S), NEW D, IsFiniteSet(D), NEW h \in [S -> D],
         \A x, y \in S : h[x] = h[y] => x = y,
         \A x \in S : f[x] \in Int /\ f[x] = g[h[x]],
         \A z \in D : g[z] \in Int
  PROVE  SumFunctionOnSet(f, S) = SumFunctionOnSet(g, {h[x] : x \in S})
<1> DEFINE Im(t) == {h[x] : x \in t}
<1> DEFINE T == {t \in SUBSET S : SumFunctionOnSet(f, t) = SumFunctionOnSet(g, Im(t))}
<1>1. {} \in T
  <2>1. Im({}) = {}
    OBVIOUS
  <2> QED
    BY <2>1, SumEmpty
<1>2. ASSUME NEW t \in SUBSET S, t # {}, \A x \in t : t \ {x} \in T PROVE t \in T
  <2>1. PICK x \in t : TRUE
    BY <1>2
  <2>2. IsFiniteSet(t) /\ \A y \in t : f[y] \in Int
    BY Parts
  <2>3. Im(t) \in SUBSET D /\ h[x] \in Im(t)
    OBVIOUS
  <2>4. IsFiniteSet(Im(t)) /\ \A z \in Im(t) : g[z] \in Int
    BY <2>3, Parts
  <2>5. Im(t) \ {h[x]} = Im(t \ {x})
    <3>1. ASSUME NEW y \in t PROVE h[y] = h[x] <=> y = x
      OBVIOUS
    <3> QED
      BY <3>1
  <2>6. SumFunctionOnSet(f, t \ {x}) = SumFunctionOnSet(g, Im(t \ {x}))
    BY <1>2
  <2> HIDE DEF Im, T
  <2>7. SumFunctionOnSet(f, t) = f[x] + SumFunctionOnSet(f, t \ {x})
    BY <2>2, SumOut
  <2>8. SumFunctionOnSet(g, Im(t)) = g[h[x]] + SumFunctionOnSet(g, Im(t) \ {h[x]})
    BY <2>3, <2>4, SumOut
  <2>9. SumFunctionOnSet(f, t) = SumFunctionOnSet(g, Im(t))
    BY <2>5, <2>6, <2>7, <2>8
  <2> QED
    BY <2>9 DEF T
<1> HIDE DEF T
<1>3. S \in T
  BY <1>1, <1>2, PartsInduct
<1> QED
  BY <1>3 DEF T

\* One term put in, or taken out, at position n + 1 of a list.
LEMMA SumInsert ==
  ASSUME NEW L \in Nat, NEW n \in 0 .. L, NEW f, NEW g,
         \A k \in 1 .. L + 1 : g[k] \in Int,
         \A k \in 1 .. n : f[k] = g[k],
         \A k \in n + 1 .. L : f[k] = g[k + 1]
  PROVE  SumFunctionOnSet(g, 1 .. L + 1) = g[n + 1] + SumFunctionOnSet(f, 1 .. L)
<1> DEFINE h == [k \in 1 .. L |-> IF k <= n THEN k ELSE k + 1]
<1>1. IsFiniteSet(1 .. L) /\ IsFiniteSet(1 .. L + 1)
  BY FS_Interval
<1>2. h \in [1 .. L -> 1 .. L + 1] /\ \A x, y \in 1 .. L : h[x] = h[y] => x = y
  OBVIOUS
<1>3. \A k \in 1 .. L : f[k] \in Int /\ f[k] = g[h[k]]
  <2> SUFFICES ASSUME NEW k \in 1 .. L PROVE f[k] \in Int /\ f[k] = g[h[k]]
    OBVIOUS
  <2>1. CASE k <= n
    <3>1. k \in 1 .. n /\ h[k] = k /\ k \in 1 .. L + 1
      BY <2>1
    <3> QED
      BY <3>1
  <2>2. CASE ~ (k <= n)
    <3>1. k \in n + 1 .. L /\ h[k] = k + 1 /\ k + 1 \in 1 .. L + 1
      BY <2>2
    <3> QED
      BY <3>1
  <2> QED
    BY <2>1, <2>2
<1>4. {h[k] : k \in 1 .. L} = (1 .. L + 1) \ {n + 1}
  <2>1. ASSUME NEW z \in (1 .. L + 1) \ {n + 1} PROVE \E k \in 1 .. L : h[k] = z
    <3>1. CASE z <= n
      <4>1. z \in 1 .. L /\ h[z] = z
        BY <3>1
      <4> QED
        BY <4>1
    <3>2. CASE ~ (z <= n)
      <4>1. z - 1 \in 1 .. L /\ ~ (z - 1 <= n)
        BY <3>2
      <4>2. h[z - 1] = z
        BY <4>1
      <4> QED
        BY <4>1, <4>2
    <3> QED
      BY <3>1, <3>2
  <2>2. \A k \in 1 .. L : h[k] \in (1 .. L + 1) \ {n + 1}
    OBVIOUS
  <2> HIDE DEF h
  <2> QED
    BY <2>1, <2>2
<1> HIDE DEF h
<1> DEFINE A == 1 .. L  B == 1 .. L + 1
<1>5. /\ IsFiniteSet(A) /\ IsFiniteSet(B) /\ h \in [A -> B]
      /\ \A x, y \in A : h[x] = h[y] => x = y
      /\ \A k \in A : f[k] \in Int /\ f[k] = g[h[k]]
      /\ \A k \in B : g[k] \in Int
      /\ n + 1 \in B
  BY <1>1, <1>2, <1>3
<1> HIDE DEF A, B
<1>6. SumFunctionOnSet(f, A) = SumFunctionOnSet(g, {h[k] : k \in A})
  BY <1>5, SumReindex
<1>7. SumFunctionOnSet(g, B) = g[n + 1] + SumFunctionOnSet(g, B \ {n + 1})
  BY <1>5, SumOut
<1>8. SumFunctionOnSet(f, 1 .. L) = SumFunctionOnSet(g, {h[k] : k \in 1 .. L})
  BY <1>6 DEF A
<1>9. SumFunctionOnSet(g, 1 .. L + 1) = g[n + 1] + SumFunctionOnSet(g, (1 .. L + 1) \ {n + 1})
  BY <1>7 DEF B
<1> QED
  BY <1>4, <1>8, <1>9

\* What holds first, and after each step of what it held before, holds throughout.
LEMMA Stays ==
  ASSUME NEW L \in Nat, NEW c, NEW X, c[0] \in X, \A i \in 1 .. L : c[i - 1] \in X => c[i] \in X
  PROVE  \A i \in 0 .. L : c[i] \in X
<1> DEFINE T == {i \in Nat : i <= L => c[i] \in X}
<1>1. 0 \in T
  OBVIOUS
<1>2. ASSUME NEW n \in T PROVE n + 1 \in T
  <2>1. ASSUME n + 1 <= L PROVE c[n + 1] \in X
    <3>1. n + 1 \in 1 .. L /\ (n + 1) - 1 = n /\ n <= L
      BY <2>1
    <3> QED BY <3>1
  <2> QED BY <2>1
<1> HIDE DEF T
<1>3. T = Nat
  <2>1. T \in SUBSET Nat
    BY DEF T
  <2> QED BY <1>1, <1>2, <2>1, Induct
<1> QED BY <1>3 DEF T

-----------------------------------------------------------------------------
\* What is repeated L times is defined at each of them.
Repeats(g, f, x, L) == g[0] = x /\ \A i \in 1 .. L : g[i] = f[g[i - 1]]

\* A function iterated from x: the sequence of its values exists, as long as wanted.
LEMMA Iterates ==
  ASSUME NEW X, NEW f \in [X -> X], NEW x \in X, NEW L \in Nat
  PROVE  \E g \in [0 .. L -> X] : Repeats(g, f, x, L)
<1> DEFINE T == {n \in Nat : \E g \in [0 .. n -> X] : \A i \in 0 .. n : g[i] = IF i = 0 THEN x ELSE f[g[i - 1]]}
<1>1. 0 \in T
  <2>1. [i \in 0 .. 0 |-> x] \in [0 .. 0 -> X]
    OBVIOUS
  <2>2. \A i \in 0 .. 0 : [j \in 0 .. 0 |-> x][i] = IF i = 0 THEN x ELSE f[[j \in 0 .. 0 |-> x][i - 1]]
    OBVIOUS
  <2> QED
    BY <2>1, <2>2
<1>2. ASSUME NEW n \in T
      PROVE  n + 1 \in T
  <2>1. n \in Nat
    OBVIOUS
  <2>2. PICK g \in [0 .. n -> X] : \A i \in 0 .. n : g[i] = IF i = 0 THEN x ELSE f[g[i - 1]]
    OBVIOUS
  <2> DEFINE h == [i \in 0 .. n + 1 |-> IF i = n + 1 THEN f[g[n]] ELSE g[i]]
  <2>3. h \in [0 .. n + 1 -> X]
    BY <2>1
  <2>4. \A i \in 0 .. n + 1 : h[i] = IF i = 0 THEN x ELSE f[h[i - 1]]
    <3> SUFFICES ASSUME NEW i \in 0 .. n + 1
                 PROVE  h[i] = IF i = 0 THEN x ELSE f[h[i - 1]]
      OBVIOUS
    <3>1. CASE i = n + 1
      BY <2>1, <3>1
    <3>2. CASE i \in 0 .. n
      BY <2>1, <2>2, <3>2
    <3> QED
      BY <2>1, <3>1, <3>2
  <2> HIDE DEF h
  <2> QED
    BY <2>1, <2>3, <2>4
<1> HIDE DEF T
<1>3. T = Nat
  <2>1. T \in SUBSET Nat
    BY DEF T
  <2> QED
    BY <1>1, <1>2, <2>1, Induct
<1>4. PICK g \in [0 .. L -> X] : \A i \in 0 .. L : g[i] = IF i = 0 THEN x ELSE f[g[i - 1]]
  BY <1>3 DEF T
<1> QED
  BY <1>4 DEF Repeats

\* Those of S that come before x.
Preceding(S, R, x) == {y \in S : <<y, x>> \in R}

\* In a finite order each place is taken, and by one.
LEMMA Sorting ==
  ASSUME NEW S, IsFiniteSet(S), NEW R,
         \A x \in S : <<x, x>> \notin R,
         \A x, y, z \in S : <<x, y>> \in R /\ <<y, z>> \in R => <<x, z>> \in R,
         \A x, y \in S : x # y => <<x, y>> \in R \/ <<y, x>> \in R
  PROVE  /\ Cardinality(S) \in Nat
         /\ \A x \in S : Cardinality(Preceding(S, R, x)) \in 0 .. Cardinality(S) - 1
         /\ \A i \in 1 .. Cardinality(S) : \E x \in S : Cardinality(Preceding(S, R, x)) = i - 1
         /\ \A x, y \in S : <<x, y>> \in R <=> Cardinality(Preceding(S, R, x)) < Cardinality(Preceding(S, R, y))
<1> DEFINE n == Cardinality(S)
           rank == [x \in S |-> Cardinality(Preceding(S, R, x))]
<1>0. n \in Nat
  BY FS_CardinalityType
<1>1. \A x \in S : /\ Preceding(S, R, x) \in SUBSET S /\ x \notin Preceding(S, R, x)
                   /\ IsFiniteSet(Preceding(S, R, x)) /\ rank[x] \in Nat
  BY FS_Subset, FS_CardinalityType DEF Preceding
<1>2. ASSUME NEW A, NEW B, IsFiniteSet(B), A \subseteq B, NEW x \in B, x \notin A
      PROVE  Cardinality(A) < Cardinality(B)
  <2>1. Cardinality(A) <= Cardinality(B) /\ (Cardinality(B) = Cardinality(A) => B = A) /\ IsFiniteSet(A)
    BY <1>2, FS_Subset
  <2>2. Cardinality(A) \in Nat /\ Cardinality(B) \in Nat
    BY <1>2, <2>1, FS_CardinalityType
  <2> QED
    BY <1>2, <2>1, <2>2
<1>3. \A x \in S : rank[x] \in 0 .. n - 1
  BY <1>0, <1>1, <1>2
<1>4. \A x, y \in S : <<x, y>> \in R => rank[x] < rank[y]
  <2> SUFFICES ASSUME NEW x \in S, NEW y \in S, <<x, y>> \in R
               PROVE  rank[x] < rank[y]
    OBVIOUS
  <2>1. Preceding(S, R, x) \subseteq Preceding(S, R, y) /\ x \in Preceding(S, R, y)
    BY DEF Preceding
  <2> QED
    BY <1>1, <1>2, <2>1
<1>5. \A x, y \in S : <<x, y>> \in R <=> rank[x] < rank[y]
  <2> SUFFICES ASSUME NEW x \in S, NEW y \in S, rank[x] < rank[y], <<x, y>> \notin R
               PROVE  FALSE
    BY <1>4
  <2>1. rank[x] \in Nat /\ rank[y] \in Nat
    BY <1>1
  <2>2. x = y \/ rank[y] < rank[x]
    BY <1>4
  <2> QED
    BY <2>1, <2>2
<1>6. rank \in Injection(S, 0 .. n - 1)
  <2>1. rank \in [S -> 0 .. n - 1]
    BY <1>3
  <2>2. \A x, y \in S : rank[x] = rank[y] => x = y
    <3> SUFFICES ASSUME NEW x \in S, NEW y \in S, rank[x] = rank[y], x # y
                 PROVE  FALSE
      OBVIOUS
    <3>1. rank[x] < rank[y] \/ rank[y] < rank[x]
      BY <1>4
    <3>2. rank[x] \in Nat /\ rank[y] \in Nat
      BY <1>1
    <3> QED
      BY <3>1, <3>2
  <2> QED
    BY <2>1, <2>2 DEF Injection, IsInjective
<1>7. IsFiniteSet(0 .. n - 1) /\ Cardinality(0 .. n - 1) = n
  <2> HIDE DEF n
  <2>1. n - 1 \in Int /\ 0 \in Int
    BY <1>0
  <2>2. IsFiniteSet(0 .. n - 1) /\ Cardinality(0 .. n - 1) = IF 0 > n - 1 THEN 0 ELSE n - 1 - 0 + 1
    BY <2>1, FS_Interval
  <2> QED
    BY <1>0, <2>2
<1>8. rank \in Surjection(S, 0 .. n - 1)
  BY <1>6, <1>7, FS_Injection
<1>9. \A i \in 1 .. n : \E x \in S : rank[x] = i - 1
  <2>1. \A k \in 0 .. n - 1 : \E x \in S : rank[x] = k
    BY <1>8 DEF Surjection
  <2> HIDE DEF n, rank
  <2>2. \A i \in 1 .. n : i - 1 \in 0 .. n - 1
    BY <1>0
  <2> QED
    BY <2>1, <2>2
<1>10. \A x \in S : rank[x] = Cardinality(Preceding(S, R, x))
  OBVIOUS
<1> HIDE DEF rank
<1> QED
  BY <1>0, <1>3, <1>5, <1>9, <1>10

-----------------------------------------------------------------------------
\* The greatest of some numbers up to n + 1.
LEMMA Greatest ==
  ASSUME NEW n \in Nat, NEW s \in SUBSET (1 .. n), s # {}
  PROVE  Max(s) \in s /\ \A y \in s : y <= Max(s)
<1> DEFINE T == {n - y : y \in s}
<1>0. \A y \in s : y \in Int /\ y <= n /\ n - y \in Nat
  <2>1. \A y \in s : y \in 1 .. n
    OBVIOUS
  <2> QED BY <2>1
<1>1. T \in SUBSET Nat /\ T # {}
  BY <1>0
<1>2. PICK d \in T : \A e \in T : d <= e
  BY <1>1, LeastOf
<1>3. PICK x \in s : d = n - x
  OBVIOUS
<1>4. \A y \in s : n - x <= n - y
  BY <1>2, <1>3
<1>5. \A y \in s : y \in Int /\ x \in Int
  BY <1>0
<1> HIDE DEF T
<1>6. \A y \in s : x >= y
  BY <1>4, <1>5
<1>7. Max(s) \in s /\ \A y \in s : Max(s) >= y
  BY <1>6 DEF Max
<1> QED BY <1>5, <1>7

\* g takes what F makes of a set of numbers, the greatest last.
Gathers(g, F, x, n) ==
  /\ g[{}] = x
  /\ \A s \in SUBSET (1 .. n) : s # {} => g[s] = F[Max(s)][g[s \ {Max(s)}]]

\* The fold of a sequence has a solution.
LEMMA FoldExists ==
  ASSUME NEW X, NEW x \in X, NEW n \in Nat, NEW F \in [1 .. n -> [X -> X]]
  PROVE  \E g \in [SUBSET (1 .. n) -> X] : Gathers(g, F, x, n)
<1> DEFINE Good(g, k) == g \in [SUBSET (1 .. k) -> X] /\ Gathers(g, F, x, k)
           T == {k \in Nat : k <= n => \E g : Good(g, k)}
<1>1. 0 \in T
  <2> DEFINE g == [s \in SUBSET (1 .. 0) |-> x]
  <2>1. g[{}] = x /\ SUBSET (1 .. 0) = {{}} /\ g \in [SUBSET (1 .. 0) -> X]
    OBVIOUS
  <2> HIDE DEF g
  <2>2. Good(g, 0)
    BY <2>1 DEF Gathers
  <2> QED BY <2>2
<1>2. ASSUME NEW k \in T PROVE k + 1 \in T
  <2> HIDE DEF Good
  <2> SUFFICES ASSUME k + 1 <= n PROVE \E g : Good(g, k + 1)
    OBVIOUS
  <2>1. k \in Nat /\ k <= n /\ k + 1 \in 1 .. n
    OBVIOUS
  <2>2. PICK g : Good(g, k)
    BY <2>1
  <2> HIDE DEF T
  <2> USE DEF Good
  <2> DEFINE l == k + 1
             h == [s \in SUBSET (1 .. l) |-> IF l \in s THEN F[l][g[s \ {l}]] ELSE g[s]]
  <2>3. l \in 1 .. n /\ l \in Nat /\ l \notin 1 .. k /\ 1 .. l = (1 .. k) \cup {l} /\ \A y \in 1 .. k : y <= l /\ ~ (l <= y)
    BY <2>1
  <2> HIDE DEF l
  <2>4. ASSUME NEW s \in SUBSET (1 .. l), l \in s
        PROVE  s \ {l} \in SUBSET (1 .. k) /\ Max(s) = l /\ h[s] = F[l][g[s \ {l}]] /\ h[s] \in X /\ h[s \ {l}] = g[s \ {l}]
    <3>1. s \ {l} \in SUBSET (1 .. k)
      BY <2>3
    <3>2. Max(s) \in s /\ l <= Max(s)
      BY <2>3, <2>4, Greatest
    <3>3. Max(s) = l
      BY <2>3, <3>2
    <3>4. h[s] = F[l][g[s \ {l}]] /\ s \ {l} \in SUBSET (1 .. l)
      BY <2>4
    <3>5. h[s \ {l}] = g[s \ {l}]
      BY <3>4
    <3>6. g[s \ {l}] \in X
      BY <2>2, <3>1
    <3> QED BY <2>3, <3>1, <3>3, <3>4, <3>5, <3>6
  <2>5. ASSUME NEW s \in SUBSET (1 .. l), l \notin s
        PROVE  s \in SUBSET (1 .. k) /\ h[s] = g[s] /\ h[s] \in X
    <3>1. s \in SUBSET (1 .. k)
      BY <2>3, <2>5
    <3>2. h[s] = g[s]
      BY <2>5
    <3> QED BY <2>2, <3>1, <3>2
  <2>6. h \in [SUBSET (1 .. l) -> X]
    <3>1. \A s \in SUBSET (1 .. l) : h[s] \in X
      BY <2>4, <2>5
    <3>2. h = [s \in SUBSET (1 .. l) |-> h[s]]
      OBVIOUS
    <3> HIDE DEF h
    <3> QED BY <3>1, <3>2
  <2> HIDE DEF h
  <2>7. h[{}] = x
    <3>1. h[{}] = g[{}]
      BY <2>5
    <3> QED BY <2>2, <3>1 DEF Gathers
  <2>8. ASSUME NEW s \in SUBSET (1 .. l), s # {} PROVE h[s] = F[Max(s)][h[s \ {Max(s)}]]
    <3>1. CASE l \in s
      BY <2>4, <3>1
    <3>2. CASE l \notin s
      <4>1. s \in SUBSET (1 .. k) /\ h[s] = g[s]
        BY <2>5, <3>2
      <4>2. g[s] = F[Max(s)][g[s \ {Max(s)}]]
        BY <2>2, <2>8, <4>1 DEF Gathers
      <4>3. h[s \ {Max(s)}] = g[s \ {Max(s)}]
        BY <2>5, <3>2
      <4> QED BY <4>1, <4>2, <4>3
    <3> QED BY <3>1, <3>2
  <2>9. Good(h, l)
    BY <2>6, <2>7, <2>8 DEF Gathers
  <2> QED BY <2>9 DEF l
<1>3. n \in T
  <2> HIDE DEF T
  <2>1. T \in SUBSET Nat
    BY DEF T
  <2> QED BY <1>1, <1>2, <2>1, Induct
<1>4. \E g : Good(g, n)
  <2> HIDE DEF Good
  <2> QED BY <1>3
<1> QED BY <1>4

-----------------------------------------------------------------------------
\* A clamped number is a count.
LEMMA ClampCount == ASSUME NEW x \in Int PROVE Clamp(x) \in Count
  BY MaxIntAssumption DEF Clamp, Count, MinInt

\* A clamped number is a number.
LEMMA ClampInt == \A x \in Int : Clamp(x) \in Int
  BY MaxIntAssumption DEF Clamp, Count, MinInt

\* A count is left alone by the clamp.
LEMMA ClampId == ASSUME NEW x \in Count PROVE Clamp(x) = x
  BY DEF Clamp

\* Counts are integers.
LEMMA CountInt == Count \subseteq Int
  BY MaxIntAssumption DEF Count, MinInt

\* Arcs are numbered from 1 and have integer weights.
LEMMA ArcsType ==
  ASSUME NEW n \in Nets
  PROVE  /\ Len(n.arcs) \in Nat /\ DOMAIN n.arcs = 1 .. Len(n.arcs)
         /\ \A i \in DOMAIN n.arcs : n.arcs[i] \in Arc /\ Weight(n.arcs[i]) \in Int
  <1>1. n.arcs \in Seq(Arc)
    BY NetsAssumption DEF Net
  <1>2. DOMAIN n.arcs = 1 .. Len(n.arcs) /\ Len(n.arcs) \in Nat
    BY <1>1, LenProperties
  <1>3. \A i \in DOMAIN n.arcs : n.arcs[i] \in Arc
    BY <1>1, <1>2, ElementOfSeq
  <1>4. ASSUME NEW a \in Arc PROVE Weight(a) \in Int
    <2>1. a.weight \in Int
      BY CountInt DEF Arc
    <2> QED
      BY <2>1 DEF Weight
  <1> QED
    BY <1>2, <1>3, <1>4

\* A total of arc weights is a number, not negative where no weight is.
LEMMA TotalType ==
  ASSUME NEW n \in Nets, NEW S \in SUBSET DOMAIN n.arcs
  PROVE  /\ Total(n, S) \in Int
         /\ (\A i \in S : Weight(n.arcs[i]) >= 0) => Total(n, S) \in Nat
  <1> DEFINE w == [i \in S |-> Weight(n.arcs[i])]
  <1>1. IsFiniteSet(S)
    BY ArcsType, Positions
  <1>2. \A i \in S : w[i] = Weight(n.arcs[i]) /\ w[i] \in Int
    BY ArcsType
  <1>3. Total(n, S) = IF S = {} THEN 0 ELSE SumFunctionOnSet(w, S)
    BY DEF Total, SumFunction
  <1> HIDE DEF w
  <1>4. SumFunctionOnSet(w, S) \in Int
    BY <1>1, <1>2, SumIsInt
  <1>5. ASSUME \A i \in S : Weight(n.arcs[i]) >= 0
        PROVE  SumFunctionOnSet(w, S) \in Nat
    <2>1. \A i \in S : w[i] \in Nat
      BY <1>2, <1>5
    <2> QED
      BY <1>1, <2>1, SumNotNegative
  <1> QED
    BY <1>3, <1>4, <1>5

\* What a firing takes and gives is an integer, and not negative unless a
\* weight is.
LEMMA TotalsType ==
  ASSUME NEW n \in Nets, NEW t \in Transition, NEW p \in Place
  PROVE  /\ Taken(n, t, p) \in Int /\ Given(n, t, p) \in Int
         /\ ~ Invalid(n, t) => Taken(n, t, p) \in Nat /\ Given(n, t, p) \in Nat
  <1> DEFINE I == {i \in Inputs(n, t) : n.arcs[i].from = p}
             O == {i \in Outputs(n, t) : n.arcs[i].to = p}
  <1>1. I \in SUBSET DOMAIN n.arcs /\ O \in SUBSET DOMAIN n.arcs
    BY DEF Inputs, Outputs
  <1>2. ASSUME ~ Invalid(n, t)
        PROVE  \A i \in I \cup O : Weight(n.arcs[i]) >= 0
    BY <1>1, <1>2, ArcsType DEF Invalid
  <1>3. Taken(n, t, p) = Total(n, I) /\ Given(n, t, p) = Total(n, O)
    BY DEF Taken, Given
  <1> HIDE DEF I, O
  <1> QED
    BY <1>1, <1>2, <1>3, TotalType

\* A net effect is a count.
LEMMA NetEffectType ==
  ASSUME NEW n \in Nets, NEW t \in Transition, NEW p \in Place
  PROVE  NetEffect(n, t, p) \in Count
  <1>1. Taken(n, t, p) \in Int /\ Given(n, t, p) \in Int
    BY TotalsType
  <1>2. 0 - Taken(n, t, p) \in Int
    BY <1>1
  <1>3. Clamp(0 - Taken(n, t, p)) + Given(n, t, p) \in Int
    BY <1>1, <1>2, ClampInt
  <1> QED
    BY <1>3, ClampCount DEF NetEffect

\* A firing leads from marking to marking.
LEMMA FireType ==
  ASSUME NEW n \in Nets, NEW t \in Transition, NEW m \in Marking
  PROVE  Fire(n, t, m) \in Marking
  <1>1. ASSUME NEW p \in Place
        PROVE  Clamp(Clamp(m[p] - Taken(n, t, p)) + Given(n, t, p)) \in Count
    <2>1. m[p] \in Int
      BY CountInt DEF Marking
    <2>2. Taken(n, t, p) \in Int /\ Given(n, t, p) \in Int
      BY TotalsType
    <2>3. m[p] - Taken(n, t, p) \in Int
      BY <2>1, <2>2
    <2>4. Clamp(m[p] - Taken(n, t, p)) + Given(n, t, p) \in Int
      BY <2>2, <2>3, ClampInt
    <2> QED
      BY <2>4, ClampCount
  <1> QED
    BY <1>1 DEF Fire, Marking

=============================================================================
