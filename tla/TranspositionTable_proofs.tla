---------------------- MODULE TranspositionTable_proofs ----------------------
(***************************************************************************)
(* The table forgets but never confuses, for every number and size of its  *)
(* buckets, every hash and every order of stores, pins and doublings.      *)
(***************************************************************************)
EXTENDS TranspositionTable, TLAPS, FiniteSetTheorems

-----------------------------------------------------------------------------
(* The inductive invariant. *)

TableTypeOK ==
  /\ hash \in Hashes /\ compact \in BOOLEAN /\ generation \in 1 .. GEN
  /\ \E n \in Nat \ {0} : table \in [0 .. n - 1 -> SUBSET Entry]
  /\ IsFiniteSet(Held)
  /\ old \subseteq Entry /\ task \subseteq Entry
  /\ book \in SUBSET Keys /\ IsFiniteSet(book)
  /\ IsFiniteSet(dict) /\ (compact => Cardinality(dict) <= DICT)

\* No bucket is over-full, and each entry is the one locate finds of its key.
Placed ==
  \A b \in Bucket :
    /\ Cardinality(table[b]) <= ways
    /\ \A e \in table[b] : Stop(KeyOf(e)) = b /\ Found(KeyOf(e)) = {e}

\* Entries wait to be moved only while keep waits for room, for one entry whose
\* key nothing else has.
Waiting ==
  /\ task = {} => old = {}
  /\ \A e, f \in task : e = f
  /\ \A e \in task : \A x \in Held \cup old : KeyOf(x) # KeyOf(e)

IInv == TableTypeOK /\ Sound /\ Findable /\ Waiting

-----------------------------------------------------------------------------
(* Numbers. *)

\* The sizes of a table are positive numbers.
LEMMA Sizes ==
  /\ ways \in Nat \ {0} /\ most \in Nat \ {0}
  /\ START \div ways \in Nat
  <1>1. Entries \in Nat \ {0} /\ WAYS \in Nat \ {0} /\ START \in Nat \ {0}
    BY TableAssumption
  <1>2. ways \in Nat \ {0} /\ ways <= Entries
    BY <1>1 DEF ways, Least
  <1>3. ASSUME NEW x \in Nat, NEW w \in Nat \ {0}
        PROVE  x \div w \in Nat /\ (w <= x => x \div w # 0)
    OBVIOUS
  <1> QED
    BY <1>1, <1>2, <1>3 DEF most

\* A hash scaled to n buckets is the number of one of them.
LEMMA ScaleBelow ==
  ASSUME NEW x \in 0 .. Res - 1, NEW n \in Nat \ {0}
  PROVE  Scale(x, n) \in 0 .. n - 1
  <1> DEFINE q == (x * n) \div Res
  <1>1. Res \in Nat \ {0}
    BY TableAssumption
  <1>2. x * n \in Nat /\ x * n < Res * n
    BY <1>1
  <1>3. q \in Nat /\ q * Res <= x * n
    BY <1>1, <1>2
  <1>4. q * Res < n * Res
    BY <1>1, <1>2, <1>3
  <1>5. q < n
    <2> HIDE DEF q
    <2> QED BY <1>1, <1>3, <1>4
  <1> QED
    BY <1>3, <1>5 DEF Scale

-----------------------------------------------------------------------------
(* Keys and buckets. *)

\* An entry matches a key exactly where it is of that key.
LEMMA HoldsKey ==
  ASSUME NEW e \in Entry, NEW k \in Keys
  PROVE  Holds(e, k) <=> KeyOf(e) = k
  <1>1. k \in [mark : Mark, counts : BOOLEAN]
    BY TableAssumption
  <1> QED
    BY <1>1 DEF Holds, KeyOf, Entry

\* A key points to one of its two buckets.
LEMMA Pointing ==
  ASSUME TableTypeOK, NEW k \in Keys
  PROVE  First(k) \in Bucket /\ Second(k) \in Bucket /\ Stop(k) \in {First(k), Second(k)}
  <1>1. PICK n \in Nat \ {0} : table \in [0 .. n - 1 -> SUBSET Entry]
    BY DEF TableTypeOK
  <1>2. Bucket = 0 .. n - 1 /\ Buckets = n
    BY <1>1, FS_Interval DEF Bucket, Buckets
  <1>3. k.mark \in Mark /\ hash \in [Mark -> Hash]
    BY TableAssumption DEF TableTypeOK
  <1>4. hash[k.mark].a \in 0 .. Res - 1 /\ hash[k.mark].b \in 0 .. Res - 1
    BY <1>3 DEF Hash
  <1>5. First(k) \in Bucket /\ Second(k) \in Bucket
    BY <1>2, <1>4, ScaleBelow DEF First, Second
  <1> QED
    BY <1>5 DEF Stop

\* What a table holds is a finite set of entries.
LEMMA HeldType ==
  ASSUME TableTypeOK
  PROVE  /\ \A b \in Bucket : table[b] \subseteq Held /\ IsFiniteSet(table[b]) /\ Cardinality(table[b]) \in Nat
         /\ Held \subseteq Entry /\ Cardinality(Held) \in Nat
  <1>1. PICK n \in Nat \ {0} : table \in [0 .. n - 1 -> SUBSET Entry]
    BY DEF TableTypeOK
  <1>2. \A b \in Bucket : table[b] \subseteq Held /\ table[b] \subseteq Entry
    BY <1>1 DEF Bucket, Held
  <1>3. IsFiniteSet(Held) /\ Held \subseteq Entry
    BY <1>2 DEF TableTypeOK, Held
  <1> QED
    BY <1>2, <1>3, FS_Subset, FS_CardinalityType

\* All that is held of a key is where locate stops.
LEMMA HeldOnce ==
  ASSUME TableTypeOK, Sound, Placed
  PROVE  /\ \A b, c \in Bucket : \A x \in table[b], y \in table[c] : KeyOf(x) = KeyOf(y) => x = y /\ b = c
         /\ \A k \in Keys : Found(k) = {x \in Held : KeyOf(x) = k}
  <1>1. ASSUME NEW b \in Bucket, NEW x \in table[b]
        PROVE  Stop(KeyOf(x)) = b /\ Found(KeyOf(x)) = {x}
    BY <1>1 DEF Placed
  <1>2. ASSUME NEW b \in Bucket, NEW c \in Bucket, NEW x \in table[b], NEW y \in table[c], KeyOf(x) = KeyOf(y)
        PROVE  x = y /\ b = c
    <2>1. {x} = {y} /\ b = c
      BY <1>1, <1>2
    <2> QED
      BY <2>1
  <1>3. ASSUME NEW k \in Keys
        PROVE  Found(k) = {x \in Held : KeyOf(x) = k}
    <2>1. ASSUME NEW x \in Found(k) PROVE x \in Held /\ KeyOf(x) = k
      BY <2>1, Pointing, HeldType, HoldsKey DEF Found, At
    <2>2. ASSUME NEW x \in Held, KeyOf(x) = k PROVE x \in Found(k)
      BY <1>1, <2>2 DEF Held
    <2> QED
      BY <2>1, <2>2
  <1> QED
    BY <1>2, <1>3

-----------------------------------------------------------------------------
(* Put. *)

\* e takes the place of out in bucket t, which locate passed over no room to
\* come to.
Seats(e, t, out) ==
  /\ out \subseteq table[t]
  /\ table' = [table EXCEPT ![t] = (@ \ out) \cup {e}]
  /\ t = First(KeyOf(e)) \/ (t = Second(KeyOf(e)) /\ Full(First(KeyOf(e))))
  /\ \A x \in Held : KeyOf(x) = KeyOf(e) => x \in out
  /\ Cardinality((table[t] \ out) \cup {e}) <= ways
  /\ Full(t) => Cardinality((table[t] \ out) \cup {e}) = ways

\* An entry seated where locate stopped leaves every other key findable where it is.
LEMMA Seated ==
  ASSUME TableTypeOK, Sound, Placed, hash' = hash,
         NEW e \in Entry, KeyOf(e) \in Keys, NEW t, NEW out, Seats(e, t, out)
  PROVE  Placed' /\ Held' = (Held \ out) \cup {e} /\ \E n \in Nat \ {0} : table' \in [0 .. n - 1 -> SUBSET Entry]
  <1> DEFINE k == KeyOf(e)
  <1>1. PICK n \in Nat \ {0} : table \in [0 .. n - 1 -> SUBSET Entry]
    BY DEF TableTypeOK
  <1>2. t \in Bucket /\ t \in 0 .. n - 1 /\ Bucket = 0 .. n - 1
    BY <1>1, Pointing DEF Seats, Bucket
  <1>3. /\ table' \in [0 .. n - 1 -> SUBSET Entry]
        /\ Bucket' = Bucket
        /\ \A b \in Bucket : table'[b] = IF b = t THEN (table[t] \ out) \cup {e} ELSE table[b]
    BY <1>1, <1>2 DEF Seats, Bucket
  <1>4. ASSUME NEW q PROVE First(q)' = First(q) /\ Second(q)' = Second(q)
    BY <1>3 DEF First, Second, Buckets
  <1>5. Held' = (Held \ out) \cup {e}
    <2>1. \A x \in out, b \in Bucket : x \in table[b] => b = t
      BY <1>2, HeldOnce DEF Seats
    <2> QED
      BY <1>2, <1>3, <2>1 DEF Held, Seats
  <1>6. ASSUME NEW b \in Bucket PROVE Cardinality(table'[b]) <= ways /\ (Full(b) => Cardinality(table'[b]) = ways)
    BY <1>3, <1>6 DEF Placed, Full, Seats
  <1>7. ASSUME NEW f \in Entry, NEW b \in Bucket, f \in table'[b], KeyOf(f) = k
        PROVE  f = e /\ b = t
    <2>1. f \in table[b] => f \in out /\ b = t
      <3>1. SUFFICES ASSUME f \in table[b] PROVE f \in out /\ b = t
        OBVIOUS
      <3>2. f \in Held /\ f \in out /\ f \in table[t]
        BY <1>7, <3>1, HeldType DEF Seats
      <3> QED
        BY <1>2, <1>7, <3>1, <3>2, HeldOnce
    <2> QED
      BY <1>3, <1>7, <2>1
  <1>8. At(t, k)' = {e} /\ \A b \in Bucket \ {t} : At(b, k)' = {}
    BY <1>2, <1>3, <1>7, HoldsKey DEF At
  <1>9. Stop(k)' = t /\ Found(k)' = {e}
    <2>1. First(k) \in Bucket
      BY Pointing
    <2>2. CASE t = First(k)
      BY <1>4, <1>8, <2>2 DEF Stop, Found
    <2>3. CASE t # First(k)
      <3>1. t = Second(k) /\ Cardinality(table'[First(k)]) = ways
        BY <1>6, <2>1, <2>3 DEF Seats
      <3> QED
        BY <1>4, <1>8, <2>1, <2>3, <3>1 DEF Stop, Found, Full
    <2> QED
      BY <2>2, <2>3
  <1>10. ASSUME NEW b \in Bucket, NEW f \in table'[b], KeyOf(f) # k
         PROVE  Stop(KeyOf(f))' = b /\ Found(KeyOf(f))' = {f}
    <2> DEFINE q == KeyOf(f)
    <2>1. f \in table[b]
      BY <1>3, <1>10
    <2>2. q \in Keys /\ f \in Entry
      BY <2>1, HeldType DEF Sound
    <2>3. Stop(q) = b /\ Found(q) = {f}
      BY <2>1 DEF Placed
    <2>4. At(b, q)' = {f}
      <3>1. At(b, q) = {f}
        BY <2>3 DEF Found
      <3>2. ~ Holds(e, q) /\ Holds(f, q)
        BY <1>10, <2>2, HoldsKey
      <3>3. f \notin out \/ b # t
        BY <1>2, <1>3, <1>10
      <3> QED
        BY <1>3, <2>1, <3>1, <3>2, <3>3 DEF At
    <2>5. CASE b = First(q)
      BY <1>4, <2>4, <2>5 DEF Stop, Found
    <2>6. CASE b # First(q)
      <3>1. First(q) \in Bucket /\ b = Second(q) /\ At(First(q), q) = {} /\ Full(First(q))
        BY <2>2, <2>3, <2>6, Pointing DEF Stop
      <3>2. Cardinality(table'[First(q)]) = ways
        BY <1>6, <3>1
      <3>3. \A x \in table'[First(q)] : ~ Holds(x, q)
        BY <1>3, <1>10, <2>2, <3>1, HoldsKey DEF At
      <3> QED
        BY <1>4, <2>4, <3>1, <3>2, <3>3 DEF Stop, Found, Full, At
    <2> QED
      BY <2>5, <2>6
  <1>11. ASSUME NEW b \in Bucket, NEW f \in table'[b]
         PROVE  Stop(KeyOf(f))' = b /\ Found(KeyOf(f))' = {f}
    <2>1. CASE KeyOf(f) = k
      <3>1. f = e /\ b = t
        BY <1>3, <1>7, <1>11, <2>1, HeldType
      <3> QED
        BY <1>9, <3>1
    <2> QED
      BY <1>10, <1>11, <2>1
  <1>12. Placed'
    BY <1>3, <1>6, <1>11 DEF Placed
  <1> QED
    BY <1>3, <1>5, <1>12

\* One member of a finite set exchanged for another leaves its size.
LEMMA Exchange ==
  ASSUME NEW S, IsFiniteSet(S), NEW x \in S, NEW e, e \notin S \ {x}
  PROVE  IsFiniteSet((S \ {x}) \cup {e}) /\ Cardinality((S \ {x}) \cup {e}) = Cardinality(S)
  <1>1. IsFiniteSet(S \ {x}) /\ Cardinality(S \ {x}) = Cardinality(S) - 1 /\ Cardinality(S) \in Nat
    BY FS_RemoveElement, FS_CardinalityType
  <1>2. /\ IsFiniteSet((S \ {x}) \cup {e})
        /\ Cardinality((S \ {x}) \cup {e}) = Cardinality(S \ {x}) + 1
    BY <1>1, FS_AddElement
  <1> QED
    BY <1>1, <1>2

\* Put seats its entry in place of what is known of the key, or, where there is
\* no room, of a weakest entry.
Replaces(e, t, out) ==
  /\ Seats(e, t, out)
  /\ \/ /\ ~ Crowded(KeyOf(e)) /\ out = Found(KeyOf(e))
        /\ out = {} \/ \E x \in Held : out = {x}
        /\ len' = IF out = {} THEN len + 1 ELSE len
     \/ /\ Crowded(KeyOf(e)) /\ Found(KeyOf(e)) = {} /\ Full(First(KeyOf(e)))
        /\ \E x \in Held : out = {x} /\ <<t, x>> \in Weakest(KeyOf(e))
        /\ len' = len

\* Putting an entry seats it, over at most one other.
LEMMA PutReplaces ==
  ASSUME TableTypeOK, Sound, Placed, NEW e \in Entry, KeyOf(e) \in Keys, Put(e)
  PROVE  \E t, out : Replaces(e, t, out)
  <1> DEFINE k == KeyOf(e)
  <1>1. /\ First(k) \in Bucket /\ Second(k) \in Bucket /\ Stop(k) \in {First(k), Second(k)}
        /\ Found(k) = {x \in Held : KeyOf(x) = k}
    BY Pointing, HeldOnce
  <1>2. \A b \in Bucket : /\ IsFiniteSet(table[b]) /\ Cardinality(table[b]) \in Nat
                         /\ Cardinality(table[b]) <= ways /\ table[b] \subseteq Held
    BY HeldType DEF Placed
  <1>3. Stop(k) = First(k) \/ (Stop(k) = Second(k) /\ Full(First(k)))
    BY DEF Stop
  <1>4. CASE ~ Crowded(k)
    <2> DEFINE t == Stop(k)  out == Found(k)
    <2>1. out \subseteq table[t] /\ t \in Bucket
      BY <1>1 DEF Found, At
    <2>2. table' = [table EXCEPT ![t] = (@ \ out) \cup {e}] /\ len' = IF out = {} THEN len + 1 ELSE len
      BY <1>4 DEF Put
    <2>3. CASE out = {}
      <3>1. e \notin table[t] /\ ~ Full(t)
        BY <1>1, <1>2, <1>4, <2>1, <2>3 DEF Crowded
      <3>2. Cardinality(table[t] \cup {e}) = Cardinality(table[t]) + 1
        BY <1>2, <2>1, <3>1, FS_AddElement
      <3>3. (table[t] \ out) \cup {e} = table[t] \cup {e}
        BY <2>3
      <3>4. Cardinality((table[t] \ out) \cup {e}) <= ways
        <4>1. /\ Cardinality(table[t]) \in Nat /\ Cardinality(table[t]) <= ways
              /\ Cardinality(table[t]) # ways
          BY <1>2, <2>1, <3>1 DEF Full
        <4>2. Cardinality(table[t]) + 1 <= ways
          BY <4>1, Sizes
        <4> QED
          BY <3>2, <3>3, <4>2
      <3>5. Seats(e, t, out)
        BY <1>1, <1>3, <2>1, <2>2, <3>1, <3>4 DEF Seats
      <3> QED
        BY <1>4, <2>2, <2>3, <3>5 DEF Replaces
    <2>4. CASE out # {}
      <3>1. PICK x \in Held : out = {x} /\ x \in table[t]
        <4>1. PICK x \in table[t] : x \in out /\ KeyOf(x) = k
          BY <1>1, <2>1, <2>4
        <4>2. Found(KeyOf(x)) = {x}
          BY <2>1 DEF Placed
        <4> QED
          BY <1>2, <2>1, <4>1, <4>2
      <3>2. e \notin table[t] \ {x}
        BY <1>1, <1>2, <2>1, <3>1
      <3>3. Cardinality((table[t] \ {x}) \cup {e}) = Cardinality(table[t])
        BY <1>2, <2>1, <3>1, <3>2, Exchange
      <3>4. Seats(e, t, out)
        BY <1>1, <1>2, <1>3, <2>1, <2>2, <3>1, <3>3 DEF Seats, Full
      <3> QED
        BY <1>4, <2>2, <2>4, <3>1, <3>4 DEF Replaces
    <2> QED
      BY <2>3, <2>4
  <1>5. CASE Crowded(k)
    <2>1. Found(k) = {} /\ Full(First(k)) /\ Full(Stop(k))
      BY <1>3, <1>5 DEF Crowded
    <2>2. Full(Second(k))
      BY <2>1 DEF Stop, Found
    <2>3. PICK y \in Weakest(k) : table' = [table EXCEPT ![y[1]] = (@ \ {y[2]}) \cup {e}] /\ len' = len
      BY <1>5 DEF Put
    <2>4. PICK t \in {First(k), Second(k)}, x \in Held : x \in table[t] /\ y = <<t, x>>
      BY <1>1, <1>2, <2>3 DEF Weakest
    <2>5. t \in Bucket /\ Full(t) /\ x \in Held
      BY <1>1, <1>2, <2>1, <2>2, <2>4
    <2>6. e \notin table[t] \ {x}
      BY <1>1, <1>2, <2>1, <2>5
    <2>7. Cardinality((table[t] \ {x}) \cup {e}) = Cardinality(table[t])
      BY <1>2, <2>4, <2>5, <2>6, Exchange
    <2>8. Seats(e, t, {x})
      BY <1>1, <1>2, <2>1, <2>3, <2>4, <2>5, <2>7 DEF Seats, Full
    <2> QED
      BY <1>5, <2>1, <2>3, <2>4, <2>5, <2>8 DEF Replaces
  <1> QED
    BY <1>4, <1>5

\* The length kept is the number of entries held.
LEMMA PutCounts ==
  ASSUME TableTypeOK, Sound, Placed, len = Cardinality(Held),
         NEW e \in Entry, KeyOf(e) \in Keys, NEW t, NEW out, Replaces(e, t, out)
  PROVE  /\ IsFiniteSet((Held \ out) \cup {e})
         /\ len' = Cardinality((Held \ out) \cup {e})
  <1>1. IsFiniteSet(Held) /\ \A x \in Held : KeyOf(x) = KeyOf(e) => x \in out
    BY DEF TableTypeOK, Replaces, Seats
  <1>2. CASE out = {}
    <2>1. e \notin Held /\ len' = len + 1
      BY <1>1, <1>2 DEF Replaces
    <2>2. (Held \ out) \cup {e} = Held \cup {e}
      BY <1>2
    <2> QED
      BY <1>1, <2>1, <2>2, FS_AddElement
  <1>3. CASE out # {}
    <2>1. PICK x \in Held : out = {x}
      BY <1>3 DEF Replaces
    <2>2. e \notin Held \ {x} /\ len' = len
      BY <1>1, <1>3, <2>1 DEF Replaces
    <2> QED
      BY <1>1, <2>1, <2>2, Exchange
  <1> QED
    BY <1>2, <1>3

\* What locate finds of a key is what is held of it.
LEMMA FoundIsHeld ==
  TableTypeOK /\ Sound /\ Placed => \A k \in Keys : Found(k) = {x \in Held : KeyOf(x) = k}
BY HeldOnce

\* What locate finds of a key is what is held of it, after a step.
LEMMA FoundIsHeldThen ==
  TableTypeOK' /\ Sound' /\ Placed' => \A k \in Keys : Found(k)' = {x \in Held' : KeyOf(x) = k}
  <1>1. (TableTypeOK /\ Sound /\ Placed => \A k \in Keys : Found(k) = {x \in Held : KeyOf(x) = k})'
    BY FoundIsHeld, PTL
  <1> QED
    BY <1>1

\* Putting an entry keeps what locate relies on.
LEMMA PutStep ==
  ASSUME TableTypeOK, Sound, Placed, len = Cardinality(Held), hash' = hash,
         NEW e \in Entry, KeyOf(e) \in Keys, Put(e)
  PROVE  /\ Placed' /\ len' = Cardinality(Held') /\ IsFiniteSet(Held')
         /\ \E n \in Nat \ {0} : table' \in [0 .. n - 1 -> SUBSET Entry]
         /\ e \in Held' /\ Held' \subseteq Held \cup {e}
         /\ \A x \in Held' : KeyOf(x) = KeyOf(e) => x = e
  <1>1. PICK t, out : Replaces(e, t, out)
    BY PutReplaces
  <1>2. Seats(e, t, out)
    BY <1>1 DEF Replaces
  <1>3. /\ Placed' /\ Held' = (Held \ out) \cup {e}
        /\ \E n \in Nat \ {0} : table' \in [0 .. n - 1 -> SUBSET Entry]
    BY <1>2, Seated
  <1>4. IsFiniteSet(Held') /\ len' = Cardinality(Held')
    BY <1>1, <1>3, PutCounts
  <1> QED
    BY <1>2, <1>3, <1>4 DEF Seats

-----------------------------------------------------------------------------
(* The steps. *)

\* The invariant holds at first.
LEMMA InitInv == Init => IInv
  <1> SUFFICES ASSUME Init PROVE IInv
    OBVIOUS
  <1> DEFINE n == Most(Least(most, START \div ways), 1)
  <1>1. n \in Nat \ {0}
    BY Sizes DEF Most, Least
  <1> HIDE DEF n
  <1>2. table = [b \in 0 .. n - 1 |-> {}] /\ len = 0 /\ dict = {} /\ task = {} /\ old = {} /\ book = {}
    BY DEF Init, n
  <1>3. Held = {} /\ \A b \in Bucket : table[b] = {}
    BY <1>2 DEF Held, Bucket
  <1>4. IsFiniteSet({}) /\ Cardinality({}) = 0
    BY FS_EmptySet
  <1>5. table \in [0 .. n - 1 -> SUBSET Entry]
    BY <1>2
  <1>6. TableTypeOK
    BY <1>1, <1>2, <1>3, <1>4, <1>5, TableAssumption DEF TableTypeOK, Init
  <1>7. Findable
    <2>1. 0 <= ways
      BY Sizes
    <2>2. \A b \in Bucket : Cardinality(table[b]) <= ways
      BY <1>3, <1>4, <2>1
    <2> QED
      BY <1>2, <1>3, <1>4, <2>2 DEF Findable
  <1> QED
    BY <1>2, <1>3, <1>6, <1>7 DEF IInv, Sound, Waiting

\* What Findable says of the places and of the length.
LEMMA FindableParts ==
  ASSUME Findable
  PROVE  Placed /\ len = Cardinality(Held)
BY DEF Findable, Placed

\* An entry whose bounds hold of its key.
Truthful(e) == e \in Entry /\ KeyOf(e) \in Keys /\ e.lo <= Val[KeyOf(e)] /\ Val[KeyOf(e)] <= e.hi

Shelved ==
  /\ book' \in SUBSET Keys /\ IsFiniteSet(book')
  /\ IsFiniteSet(dict') /\ (compact => Cardinality(dict') <= DICT)

\* Putting an entry keeps the invariant.
LEMMA PutInv ==
  ASSUME IInv, NEW e, Truthful(e), Put(e), old' \subseteq old, e \notin old', task' \subseteq task,
         UNCHANGED <<hash, compact, generation>>, Shelved, task' = {} => old' = {},
         \A x \in old' \cup task' : KeyOf(x) # KeyOf(e)
  PROVE  IInv'
  <1>1. TableTypeOK /\ Sound /\ Placed /\ Waiting /\ len = Cardinality(Held) /\ e \in Entry /\ KeyOf(e) \in Keys /\ hash' = hash
    BY FindableParts DEF IInv, Truthful
  <1>2. /\ Placed' /\ len' = Cardinality(Held') /\ IsFiniteSet(Held')
        /\ \E n \in Nat \ {0} : table' \in [0 .. n - 1 -> SUBSET Entry]
        /\ e \in Held' /\ Held' \subseteq Held \cup {e}
    BY <1>1, PutStep
  <1>3. TableTypeOK'
    BY <1>1, <1>2 DEF TableTypeOK, Shelved
  <1>4. Sound'
    BY <1>1, <1>2 DEF Sound, Truthful
  <1>5. Waiting'
    BY <1>1, <1>2 DEF Waiting
  <1>6. ASSUME NEW x \in old' PROVE Found(KeyOf(x))' = {}
    <2>1. KeyOf(x) \in Keys /\ Found(KeyOf(x)) = {}
      BY <1>1 DEF IInv, Findable, Sound
    <2>2. \A y \in Held : KeyOf(y) # KeyOf(x)
      BY <1>1, <2>1, FoundIsHeld
    <2>3. \A y \in Held' : KeyOf(y) # KeyOf(x)
      BY <1>2, <2>2
    <2> QED
      BY <1>2, <1>3, <1>4, <2>1, <2>3, FoundIsHeldThen
  <1>7. \A b \in Bucket' : table'[b] \subseteq Entry
    BY <1>2 DEF Bucket
  <1>8. \A x, y \in old' : KeyOf(x) = KeyOf(y) => x = y
    BY DEF IInv, Findable
  <1>9. Findable'
    BY <1>2, <1>6, <1>7, <1>8 DEF Findable, Placed
  <1> QED
    BY <1>3, <1>4, <1>5, <1>9 DEF IInv

\* Doubling the table keeps the invariant.
LEMMA GrowInv ==
  ASSUME IInv, NEW e, Truthful(e), Wanting(KeyOf(e)), old = {},
         table' = [b \in 0 .. Least(Buckets * 2, most) - 1 |-> {}], len' = 0, task' = {e}, old' = Held,
         UNCHANGED <<hash, compact, generation>>, Shelved
  PROVE  IInv'
  <1>1. TableTypeOK /\ Sound /\ Placed
    BY FindableParts DEF IInv
  <1>2. Least(Buckets * 2, most) \in Nat \ {0}
    <2>1. PICK n \in Nat \ {0} : table \in [0 .. n - 1 -> SUBSET Entry]
      BY <1>1 DEF TableTypeOK
    <2>2. Buckets = n
      BY <2>1, FS_Interval DEF Bucket, Buckets
    <2> QED
      BY <2>2, Sizes DEF Least
  <1>3. /\ \E n \in Nat \ {0} : table' \in [0 .. n - 1 -> SUBSET Entry]
        /\ \A b \in Bucket' : table'[b] = {}
        /\ Held' = {}
    BY <1>2 DEF Bucket, Held
  <1>4. IsFiniteSet({}) /\ Cardinality({}) = 0
    BY FS_EmptySet
  <1>5. Held \subseteq Entry /\ e \in Entry /\ KeyOf(e) \in Keys
    BY <1>1, HeldType DEF Truthful
  <1>6. TableTypeOK'
    BY <1>1, <1>3, <1>4, <1>5 DEF TableTypeOK, Shelved
  <1>7. Sound'
    BY <1>1, <1>3 DEF Sound, Truthful
  <1>8. Waiting'
    <2>1. \A x \in Held : KeyOf(x) # KeyOf(e)
      BY <1>1, <1>5, FoundIsHeld DEF Wanting, Crowded
    <2> QED
      BY <1>3, <2>1 DEF Waiting
  <1>9. Findable'
    <2>1. 0 <= ways
      BY Sizes
    <2>2. Placed'
      BY <1>3, <1>4, <2>1 DEF Placed
    <2>3. \A x, y \in old' : KeyOf(x) = KeyOf(y) => x = y
      BY <1>1, HeldOnce DEF Held
    <2>4. \A x \in old' : Found(KeyOf(x))' = {}
      BY <1>1, <1>3, <1>6, <1>7, <2>2, FoundIsHeldThen DEF Sound
    <2>5. \A b \in Bucket' : table'[b] \subseteq Entry /\ Cardinality(table'[b]) <= ways
      BY <1>3, <1>4, <2>1
    <2> QED
      BY <1>3, <1>4, <2>2, <2>3, <2>4, <2>5 DEF Findable, Placed
  <1> QED
    BY <1>6, <1>7, <1>8, <1>9 DEF IInv

\* Putting an entry, or growing for it, keeps the invariant.
LEMMA SettleInv ==
  ASSUME IInv, NEW e, Truthful(e), old = {}, Settle(e), UNCHANGED <<hash, compact, generation>>, Shelved
  PROVE  IInv'
  <1>1. CASE ~ Wanting(KeyOf(e))
    BY <1>1, PutInv DEF Settle
  <1>2. CASE Wanting(KeyOf(e))
    BY <1>2, GrowInv DEF Settle
  <1> QED
    BY <1>1, <1>2

\* Once an entry is written, the dictionary still holds no more than it has room for.
LEMMA IndexedFits ==
  ASSUME IInv, NEW e
  PROVE  IsFiniteSet(Indexed(e)) /\ (compact => Cardinality(Indexed(e)) <= DICT)
  <1>1. compact \in BOOLEAN /\ IsFiniteSet(dict) /\ (compact => Cardinality(dict) <= DICT)
    BY DEF IInv, TableTypeOK
  <1>2. DICT \in Nat /\ Cardinality(dict) \in Nat
    BY <1>1, TableAssumption, FS_CardinalityType
  <1>3. IsFiniteSet(dict \cup {e.lo}) /\ Cardinality(dict \cup {e.lo}) <= Cardinality(dict) + 1
    BY <1>1, <1>2, FS_AddElement
  <1>4. IsFiniteSet(dict \cup {e.lo, e.hi})
    <2>1. dict \cup {e.lo, e.hi} = (dict \cup {e.lo}) \cup {e.hi}
      OBVIOUS
    <2> QED
      BY <1>3, <2>1, FS_AddElement
  <1>5. CASE ~ compact
    BY <1>1, <1>5 DEF Indexed
  <1>6. CASE compact /\ Fits(e)
    BY <1>4, <1>6 DEF Indexed, Fits
  <1>7. CASE compact /\ ~ Fits(e)
    <2>1. CASE Cardinality(dict) < DICT
      <3>1. Indexed(e) = dict \cup {e.lo}
        BY <1>7, <2>1 DEF Indexed
      <3>2. Cardinality(dict \cup {e.lo}) \in Nat
        BY <1>3, FS_CardinalityType
      <3> QED
        BY <1>2, <1>3, <2>1, <3>1, <3>2
    <2>2. CASE ~ (Cardinality(dict) < DICT)
      <3>1. Indexed(e) = dict
        BY <1>7, <2>2 DEF Indexed
      <3> QED
        BY <1>1, <3>1
    <2> QED
      BY <2>1, <2>2
  <1> QED
    BY <1>1, <1>5, <1>6, <1>7

\* What keep writes for k, told these bounds.
Written(k, lo, hi, work, gen) ==
  IF Found(k) # {} THEN Narrowed(k, lo, hi, work, gen) ELSE New(k, lo, hi, work, gen)

\* What keep may be told.
Told(k, lo, hi, work, gen) ==
  /\ k \in Keys /\ lo \in Value /\ hi \in Value /\ lo <= Val[k] /\ Val[k] <= hi
  /\ work \in 0 .. PinWork /\ gen \in 0 .. GEN

\* What keep writes of a key holds of its value.
LEMMA WrittenTruthful ==
  ASSUME IInv, NEW k, NEW lo, NEW hi, NEW work, NEW gen, Told(k, lo, hi, work, gen),
         NEW e \in Written(k, lo, hi, work, gen)
  PROVE  Truthful(e) /\ KeyOf(e) = k
  <1>1. k \in [mark : Mark, counts : BOOLEAN] /\ Value \subseteq Int /\ PinWork \in Nat /\ GEN \in Nat /\ Val[k] \in Value
    BY TableAssumption DEF Told, PinWork
  <1>2. k = [mark |-> k.mark, counts |-> k.counts] /\ k.mark \in Mark /\ k.counts \in BOOLEAN
    BY <1>1
  <1>3. CASE Found(k) = {}
    <2>1. e = [mark |-> k.mark, counts |-> k.counts, lo |-> lo, hi |-> hi, work |-> work, gen |-> gen]
      BY <1>3 DEF Written, New
    <2> QED
      BY <1>1, <1>2, <2>1 DEF Truthful, Told, KeyOf, Entry
  <1>4. CASE Found(k) # {}
    <2>1. PICK f \in Found(k) :
            e = [mark |-> k.mark, counts |-> k.counts, lo |-> Most(lo, f.lo), hi |-> Least(hi, f.hi),
                 work |-> Most(work, f.work), gen |-> IF f.gen = PINNED THEN PINNED ELSE gen]
      BY <1>4 DEF Written, Narrowed
    <2>2. f \in Held /\ KeyOf(f) = k
      BY FoundIsHeld, FindableParts DEF IInv, Told
    <2>3. f \in Entry /\ f.lo <= Val[k] /\ Val[k] <= f.hi
      BY <2>2, HeldType DEF IInv, Sound
    <2>4. /\ Most(lo, f.lo) \in Value /\ Most(lo, f.lo) <= Val[k]
          /\ Least(hi, f.hi) \in Value /\ Val[k] <= Least(hi, f.hi)
          /\ Most(work, f.work) \in 0 .. PinWork
      BY <2>3 DEF Told, Entry, Most, Least
    <2>5. e.gen \in 0 .. GEN
      BY <1>1, <2>1 DEF Told, PINNED
    <2> QED
      BY <1>2, <2>1, <2>4, <2>5 DEF Truthful, Told, KeyOf, Entry
  <1> QED
    BY <1>3, <1>4

\* Keeping a bound keeps the invariant.
LEMMA KeepInv ==
  ASSUME IInv, NEW k, NEW lo, NEW hi, NEW work, NEW gen, Told(k, lo, hi, work, gen),
         Keep(k, lo, hi, work, gen), book' \in SUBSET Keys, IsFiniteSet(book')
  PROVE  IInv'
  <1>1. PICK e \in Written(k, lo, hi, work, gen) :
          dict' = Indexed(e) /\ IF Fits(e) THEN Settle(e) ELSE UNCHANGED <<table, len, task, old>>
    BY DEF Keep, Written
  <1>2. Truthful(e) /\ task = {} /\ old = {} /\ UNCHANGED <<hash, compact, generation>>
    BY WrittenTruthful DEF Keep, IInv, Waiting
  <1>3. Shelved
    BY <1>1, IndexedFits DEF Shelved
  <1>4. CASE Fits(e)
    BY <1>1, <1>2, <1>3, <1>4, SettleInv
  <1>5. CASE ~ Fits(e)
    <2>1. UNCHANGED <<hash, compact, generation, table, len, task, old>>
      BY <1>1, <1>2, <1>5
    <2>2. TableTypeOK' /\ Sound' /\ Findable' /\ Waiting'
      BY <1>3, <2>1 DEF IInv, TableTypeOK, Sound, Findable, Waiting, Shelved, Held, Bucket, Found, Stop, At, Full,
                        First, Second, Buckets
    <2> QED
      BY <2>2 DEF IInv
  <1> QED
    BY <1>4, <1>5

\* Every step keeps the invariant.
LEMMA NextInv == IInv /\ [Next]_vars => IInv'
  <1> SUFFICES ASSUME IInv, [Next]_vars PROVE IInv'
    OBVIOUS
  <1>1. /\ generation \in 1 .. GEN /\ GEN \in Nat \ {0}
        /\ book \in SUBSET Keys /\ IsFiniteSet(book) /\ Shown \subseteq [k : Keys, lo : Value, hi : Value, work : 0 .. MaxWork]
        /\ MaxWork \in Nat /\ PinWork \in Nat /\ 0 .. MaxWork \subseteq 0 .. PinWork
    BY TableAssumption DEF IInv, TableTypeOK, PinWork
  <1>2. CASE Age
    <2>1. generation' \in 1 .. GEN
      BY <1>1, <1>2 DEF Age
    <2>2. TableTypeOK' /\ Sound' /\ Findable' /\ Waiting'
      BY <1>2, <2>1 DEF Age, IInv, TableTypeOK, Sound, Findable, Waiting, Held, Bucket, Found, Stop, At, Full,
                        First, Second, Buckets
    <2> QED
      BY <2>2 DEF IInv
  <1>3. ASSUME NEW s \in Shown, Store(s) PROVE IInv'
    <2>1. Told(s.k, s.lo, s.hi, s.work, generation)
      BY <1>1, TableAssumption DEF Told
    <2> QED
      BY <1>1, <1>3, <2>1, KeepInv DEF Store
  <1>4. ASSUME NEW k \in Booked, Pin(k) PROVE IInv'
    <2>1. k \in Keys /\ Val[k] \in Int /\ Val[k] \in Value
      BY TableAssumption
    <2>2. Told(k, Val[k], Val[k], PinWork, PINNED)
      BY <1>1, <2>1 DEF Told, PINNED
    <2>3. book' \in SUBSET Keys /\ IsFiniteSet(book')
      BY <1>1, <1>4, <2>1, FS_AddElement DEF Pin
    <2> QED
      BY <1>4, <2>2, <2>3, KeepInv DEF Pin
  <1>5. ASSUME NEW e \in old, Move(e) PROVE IInv'
    <2>1. Truthful(e)
      BY DEF IInv, TableTypeOK, Sound, Truthful
    <2>2. \A x \in old' \cup task' : KeyOf(x) # KeyOf(e)
      BY <1>5 DEF Move, IInv, Findable, Waiting
    <2>3. Shelved /\ (task' = {} => old' = {})
      BY <1>5 DEF Move, IInv, TableTypeOK, Waiting, Shelved
    <2> QED
      BY <1>5, <2>1, <2>2, <2>3, PutInv DEF Move
  <1>6. CASE Again
    <2>1. PICK e \in task : Settle(e)
      BY <1>6 DEF Again
    <2>2. Truthful(e)
      BY DEF IInv, TableTypeOK, Sound, Truthful
    <2>3. Shelved
      BY <1>6 DEF Again, IInv, TableTypeOK, Shelved
    <2> QED
      BY <1>6, <2>1, <2>2, <2>3, SettleInv DEF Again
  <1>7. CASE UNCHANGED vars
    <2>1. TableTypeOK' /\ Sound' /\ Findable' /\ Waiting'
      BY <1>7 DEF vars, IInv, TableTypeOK, Sound, Findable, Waiting, Held, Bucket, Found, Stop, At, Full,
                  First, Second, Buckets
    <2> QED
      BY <2>1 DEF IInv
  <1> QED
    BY <1>2, <1>3, <1>4, <1>5, <1>6, <1>7 DEF Next

\* The invariant holds throughout.
LEMMA Inductive == Spec => []IInv
  <1>1. Init => IInv
    BY InitInv
  <1>2. IInv /\ [Next]_vars => IInv'
    BY NextInv
  <1> QED
    BY <1>1, <1>2, PTL DEF Spec

-----------------------------------------------------------------------------
(* What a search may rely on. *)

\* "Forgetting never changes a value" (memo.rs 23-24): bounds held of a key are
\* bounds of its own value, whatever was replaced, doubled or met before.
THEOREM NeverConfused == Spec => []Sound
  <1>1. IInv => Sound
    BY DEF IInv
  <1> QED
    BY <1>1, Inductive, PTL

\* The argument of the comment on locate (memo.rs 192-195): what is held is found
\* where locate stops, nothing is held twice, and len counts what is held.
THEOREM NothingOutOfSight == Spec => []Findable
  <1>1. IInv => Findable
    BY DEF IInv
  <1> QED
    BY <1>1, Inductive, PTL

-----------------------------------------------------------------------------
(* Pins. *)

\* A full bucket of pinned entries takes as many booked keys as it has slots.
LEMMA BookedBound ==
  ASSUME IInv, NEW b \in Bucket, Full(b), \A x \in table[b] : KeyOf(x) \in book
  PROVE  ways <= Cardinality(book)
  <1>1. IsFiniteSet(table[b]) /\ Cardinality(table[b]) = ways /\ IsFiniteSet(book) /\ table[b] \subseteq Held
    BY HeldType DEF IInv, TableTypeOK, Full
  <1>2. Cardinality(book) \in Nat /\ ways \in Nat
    BY <1>1, FS_CardinalityType, Sizes
  <1>3. SUFFICES ASSUME Cardinality(book) < ways PROVE FALSE
    BY <1>2
  <1> DEFINE f == [x \in table[b] |-> KeyOf(x)]
  <1>4. f \in [table[b] -> book]
    OBVIOUS
  <1> HIDE DEF f
  <1>5. Cardinality(book) < Cardinality(table[b])
    BY <1>1, <1>3
  <1>6. PICK x, y \in table[b] : x # y /\ f[x] = f[y]
    BY <1>1, <1>4, <1>5, FS_PigeonHole
  <1>7. KeyOf(x) = KeyOf(y)
    BY <1>6 DEF f
  <1> QED
    BY <1>6, <1>7, HeldOnce, FindableParts DEF IInv

\* Only what the book knows is pinned.
PinsBooked == \A e \in Held \cup old \cup task : e.gen = PINNED => KeyOf(e) \in book

PinInv == IInv /\ PinsBooked /\ PinsKept

\* An entry pinned to the value of its key.
Exact(e) == e.gen = PINNED /\ e.lo = Val[KeyOf(e)] /\ e.hi = Val[KeyOf(e)]

\* While few positions are pinned, what pushes an entry out pushes out no pin.
LEMMA PinnedStays ==
  ASSUME PinInv, Cardinality(book) < ways, hash' = hash, NEW e, Truthful(e), Put(e),
         NEW x \in Held, x.gen = PINNED, KeyOf(x) # KeyOf(e)
  PROVE  x \in Held'
  <1> DEFINE k == KeyOf(e)
  <1>1. TableTypeOK /\ Sound /\ Placed /\ e \in Entry /\ k \in Keys
    BY FindableParts DEF PinInv, IInv, Truthful
  <1>2. PICK t, out : Replaces(e, t, out)
    BY <1>1, PutReplaces
  <1>3. Held' = (Held \ out) \cup {e}
    BY <1>1, <1>2, Seated DEF Replaces
  <1>4. SUFFICES ASSUME x \in out PROVE FALSE
    BY <1>3
  <1>5. CASE out = Found(k)
    BY <1>1, <1>4, <1>5, FoundIsHeld
  <1>6. CASE out # Found(k)
    <2>1. /\ out = {x} /\ <<t, x>> \in Weakest(k) /\ Full(First(k))
      BY <1>2, <1>4, <1>6 DEF Replaces
    <2>2. First(k) \in Bucket /\ table[First(k)] \subseteq Held /\ Held \subseteq Entry
      BY <1>1, Pointing, HeldType
    <2>3. ASSUME NEW y \in table[First(k)] PROVE KeyOf(y) \in book
      <3>1. Rank(x) <= Rank(y)
        <4>1. <<First(k), y>> \in UNION {{b} \X table[b] : b \in {First(k), Second(k)}}
          BY <2>3
        <4> QED
          BY <2>1, <4>1 DEF Weakest
      <3>2. MaxWork \in Nat /\ y.work \in 0 .. PinWork /\ y.gen \in 0 .. GEN
        BY <2>2, <2>3, TableAssumption DEF Entry
      <3>3. y.gen = PINNED
        BY <3>1, <3>2 DEF Rank, PinWork
      <3> QED
        BY <2>2, <2>3, <3>3 DEF PinInv, PinsBooked
    <2>4. ways <= Cardinality(book)
      BY <2>1, <2>2, <2>3, BookedBound DEF PinInv
    <2>5. Cardinality(book) \in Nat /\ ways \in Nat
      BY FS_CardinalityType, Sizes DEF PinInv, IInv, TableTypeOK
    <2> QED
      BY <2>4, <2>5
  <1> QED
    BY <1>5, <1>6

\* Settling an entry keeps what is pinned.
LEMMA SettlePins ==
  ASSUME PinInv, NEW e, Truthful(e), old = {}, task \subseteq {e}, Settle(e), hash' = hash,
         book' = book \/ book' = book \cup {KeyOf(e)},
         e.gen = PINNED => KeyOf(e) \in book',
         KeyOf(e) \in book' /\ Cardinality(book') < ways => Exact(e)
  PROVE  PinsBooked' /\ PinsKept'
  <1>1. TableTypeOK /\ Sound /\ Placed /\ len = Cardinality(Held) /\ e \in Entry /\ KeyOf(e) \in Keys
    BY FindableParts DEF PinInv, IInv, Truthful
  <1>2. Cardinality(book') < ways => Cardinality(book) < ways
    <2>1. IsFiniteSet(book) /\ Cardinality(book) \in Nat /\ ways \in Nat
      BY <1>1, FS_CardinalityType, Sizes DEF TableTypeOK
    <2> QED
      BY <2>1, FS_AddElement
  <1>3. Held' \cup old' \cup task' \subseteq Held \cup {e} /\ e \in Held' \cup task'
    <2>1. CASE ~ Wanting(KeyOf(e))
      BY <1>1, <2>1, PutStep DEF Settle
    <2>2. CASE Wanting(KeyOf(e))
      BY <2>2 DEF Settle, Held, Bucket
    <2> QED
      BY <2>1, <2>2
  <1>4. PinsBooked'
    BY <1>3 DEF PinInv, PinsBooked
  <1>5. ASSUME Cardinality(book') < ways, NEW k \in book'
        PROVE  \E x \in Held' \cup old' \cup task' : KeyOf(x) = k /\ Exact(x)
    <2>1. CASE k = KeyOf(e)
      BY <1>3, <1>5, <2>1
    <2>2. CASE k # KeyOf(e)
      <3>1. PICK x \in Held : KeyOf(x) = k /\ Exact(x)
        BY <1>2, <1>5, <2>2 DEF PinInv, PinsKept, Exact
      <3>2. x \in Held' \cup old'
        <4>1. CASE ~ Wanting(KeyOf(e))
          BY <1>2, <1>5, <2>2, <3>1, <4>1, PinnedStays DEF Settle, Exact
        <4>2. CASE Wanting(KeyOf(e))
          BY <4>2 DEF Settle
        <4> QED
          BY <4>1, <4>2
      <3> QED
        BY <3>1, <3>2
    <2> QED
      BY <2>1, <2>2
  <1>6. PinsKept'
    BY <1>5 DEF PinsKept, Exact
  <1> QED
    BY <1>4, <1>6

\* A pin stays one when its key is written again, and is exact when it is new.
LEMMA WrittenPins ==
  ASSUME PinInv, NEW k, NEW lo, NEW hi, NEW work, NEW gen, Told(k, lo, hi, work, gen),
         NEW e \in Written(k, lo, hi, work, gen), task = {}, old = {}
  PROVE  /\ e.gen = PINNED => gen = PINNED \/ k \in book
         /\ k \in book /\ Cardinality(book) < ways => Exact(e)
         /\ gen = PINNED /\ lo = Val[k] /\ hi = Val[k] => Exact(e)
  <1>1. /\ KeyOf(e) = k /\ Val[k] \in Int /\ lo \in Int /\ hi \in Int /\ lo <= Val[k] /\ Val[k] <= hi
        /\ Found(k) = {x \in Held : KeyOf(x) = k} /\ Sound /\ Placed
        /\ Held \subseteq Entry /\ Value \subseteq Int
    BY TableAssumption, WrittenTruthful, FoundIsHeld, HeldType, FindableParts DEF PinInv, IInv, Told
  <1>2. CASE Found(k) = {}
    <2>1. e.gen = gen /\ e.lo = lo /\ e.hi = hi
      BY <1>2 DEF Written, New
    <2>2. ~ (k \in book /\ Cardinality(book) < ways)
      BY <1>1, <1>2 DEF PinInv, PinsKept
    <2> QED
      BY <1>1, <2>1, <2>2 DEF Exact
  <1>3. CASE Found(k) # {}
    <2>1. PICK f \in Found(k) :
            e = [mark |-> k.mark, counts |-> k.counts, lo |-> Most(lo, f.lo), hi |-> Least(hi, f.hi),
                 work |-> Most(work, f.work), gen |-> IF f.gen = PINNED THEN PINNED ELSE gen]
      BY <1>3 DEF Written, Narrowed
    <2>2. f \in Held /\ KeyOf(f) = k /\ f.lo \in Int /\ f.hi \in Int /\ f.lo <= Val[k] /\ Val[k] <= f.hi
      BY <1>1 DEF Sound, Entry
    <2>3. e.lo = Most(lo, f.lo) /\ e.hi = Least(hi, f.hi) /\ e.gen = IF f.gen = PINNED THEN PINNED ELSE gen
      BY <2>1
    <2>4. e.gen = PINNED => gen = PINNED \/ k \in book
      BY <2>2, <2>3 DEF PinInv, PinsBooked
    <2>5. lo = Val[k] /\ hi = Val[k] => e.lo = Val[k] /\ e.hi = Val[k]
      BY <1>1, <2>2, <2>3 DEF Most, Least
    <2>6. ASSUME k \in book, Cardinality(book) < ways PROVE Exact(e)
      <3>1. PICK x \in Held : KeyOf(x) = k /\ Exact(x)
        BY <2>6 DEF PinInv, PinsKept, Exact
      <3>2. x = f
        BY <1>1, <2>2, <3>1, HeldOnce DEF PinInv, IInv, Held
      <3> QED
        BY <1>1, <2>2, <2>3, <3>1, <3>2 DEF Exact, Most, Least
    <2> QED
      BY <1>1, <2>3, <2>4, <2>5, <2>6 DEF Exact
  <1> QED
    BY <1>2, <1>3

\* Moving an entry to the doubled table keeps what is pinned.
LEMMA MovePins ==
  ASSUME PinInv, NEW e \in old, Move(e)
  PROVE  PinsBooked' /\ PinsKept'
  <1>1. Truthful(e) /\ TableTypeOK /\ Sound /\ Placed /\ len = Cardinality(Held)
    BY FindableParts DEF PinInv, IInv, TableTypeOK, Sound, Truthful
  <1>2. e \in Held' /\ Held' \subseteq Held \cup {e}
    BY <1>1, PutStep DEF Move, Truthful
  <1>3. \A x \in Held : KeyOf(x) # KeyOf(e)
    BY <1>1, FoundIsHeld DEF PinInv, IInv, Findable, Truthful
  <1>4. PinsBooked'
    BY <1>2 DEF Move, PinInv, PinsBooked
  <1>5. ASSUME Cardinality(book) < ways, NEW k \in book
        PROVE  \E x \in Held' \cup old' \cup task' : KeyOf(x) = k /\ Exact(x)
    <2>1. PICK x \in Held \cup old \cup task : KeyOf(x) = k /\ Exact(x)
      BY <1>5 DEF PinInv, PinsKept, Exact
    <2>2. x \in Held => x \in Held'
      BY <1>1, <1>3, <1>5, <2>1, PinnedStays DEF Move, Exact
    <2> QED
      BY <1>2, <2>1, <2>2 DEF Move
  <1>6. PinsKept'
    BY <1>5 DEF Move, PinsKept, Exact
  <1> QED
    BY <1>4, <1>6

\* A pin keeps what is pinned.
LEMMA PinStep ==
  ASSUME PinInv, NEW k \in Booked, Pin(k)
  PROVE  PinsBooked' /\ PinsKept'
  <1>1. k \in Keys /\ Val[k] \in Value /\ Val[k] \in Int /\ PinWork \in 0 .. PinWork /\ PINNED \in 0 .. GEN
    <2>1. k \in Keys /\ Val[k] \in Value /\ Val[k] \in Int
      BY TableAssumption
    <2>2. MaxWork \in Nat /\ GEN \in Nat
      BY TableAssumption
    <2> QED
      BY <2>1, <2>2 DEF PinWork, PINNED
  <1>2. Told(k, Val[k], Val[k], PinWork, PINNED)
    BY <1>1 DEF Told
  <1>3. PICK e \in Written(k, Val[k], Val[k], PinWork, PINNED) :
          dict' = Indexed(e) /\ IF Fits(e) THEN Settle(e) ELSE UNCHANGED <<table, len, task, old>>
    BY DEF Pin, Keep, Written
  <1>4. Truthful(e) /\ KeyOf(e) = k /\ task = {} /\ old = {} /\ hash' = hash
    BY <1>2, WrittenTruthful DEF Pin, Keep, PinInv, IInv, Waiting
  <1>5. Exact(e)
    BY <1>2, <1>4, WrittenPins
  <1>6. CASE Fits(e)
    <2>1. book' = book \cup {k}
      BY <1>3, <1>4, <1>5, <1>6 DEF Pin, Indexed, Exact
    <2> QED
      BY <1>3, <1>4, <1>5, <1>6, <2>1, SettlePins
  <1>7. CASE ~ Fits(e)
    <2>1. compact /\ ~ (Cardinality(dict \cup {Val[k]}) <= DICT)
      <3>1. {e.lo, e.hi} = {Val[k]}
        BY <1>4, <1>5 DEF Exact
      <3> QED
        BY <1>7, <3>1 DEF Fits
    <2>2. IsFiniteSet(dict) /\ Cardinality(dict) <= DICT /\ Cardinality(dict) \in Nat /\ DICT \in Nat
      BY <2>1, TableAssumption, FS_CardinalityType DEF PinInv, IInv, TableTypeOK
    <2>3. /\ Val[k] \notin dict
          /\ Cardinality(dict \cup {Val[k]}) = Cardinality(dict) + 1
      BY <2>1, <2>2, FS_AddElement
    <2>4. ~ (Cardinality(dict) < DICT)
      BY <2>1, <2>2, <2>3
    <2>5. dict' = dict
      BY <1>3, <1>7, <2>1, <2>4 DEF Indexed
    <2>6. book' = book
      BY <2>1, <2>3, <2>5 DEF Pin
    <2> QED
      BY <1>3, <1>7, <2>6 DEF PinInv, PinsBooked, PinsKept, Held, Bucket
  <1> QED
    BY <1>6, <1>7

\* A store keeps what is pinned.
LEMMA StorePins ==
  ASSUME PinInv, NEW s \in Shown, Store(s)
  PROVE  PinsBooked' /\ PinsKept'
  <1>1. Told(s.k, s.lo, s.hi, s.work, generation) /\ generation # PINNED
    BY TableAssumption DEF Told, PinWork, PINNED, PinInv, IInv, TableTypeOK
  <1>2. PICK e \in Written(s.k, s.lo, s.hi, s.work, generation) :
          dict' = Indexed(e) /\ IF Fits(e) THEN Settle(e) ELSE UNCHANGED <<table, len, task, old>>
    BY DEF Store, Keep, Written
  <1>3. Truthful(e) /\ KeyOf(e) = s.k /\ task = {} /\ old = {} /\ hash' = hash /\ book' = book
    BY <1>1, WrittenTruthful DEF Store, Keep, PinInv, IInv, Waiting
  <1>4. /\ e.gen = PINNED => s.k \in book
        /\ s.k \in book /\ Cardinality(book) < ways => Exact(e)
    BY <1>1, <1>3, WrittenPins
  <1>5. CASE Fits(e)
    BY <1>2, <1>3, <1>4, <1>5, SettlePins
  <1>6. CASE ~ Fits(e)
    BY <1>2, <1>3, <1>6 DEF PinInv, PinsBooked, PinsKept, Held, Bucket
  <1> QED
    BY <1>5, <1>6

\* The invariant of pins holds throughout.
LEMMA PinsInductive == Spec => []PinInv
  <1>1. Init => PinInv
    <2>1. Init => IInv
      BY InitInv
    <2>2. Init => PinsBooked /\ PinsKept
      BY DEF Init, PinsBooked, PinsKept, Held, Bucket
    <2> QED
      BY <2>1, <2>2 DEF PinInv
  <1>2. PinInv /\ [Next]_vars => PinInv'
    <2> SUFFICES ASSUME PinInv, [Next]_vars PROVE PinInv'
      OBVIOUS
    <2>1. IInv'
      BY NextInv DEF PinInv
    <2>2. CASE Age
      BY <2>1, <2>2 DEF Age, PinInv, PinsBooked, PinsKept, Held, Bucket
    <2>3. CASE Again
      <3>1. PICK e \in task : Settle(e)
        BY <2>3 DEF Again
      <3>2. Truthful(e) /\ task \subseteq {e} /\ \A x \in Held \cup old : KeyOf(x) # KeyOf(e)
        BY <3>1 DEF PinInv, IInv, TableTypeOK, Sound, Waiting, Truthful
      <3>3. KeyOf(e) \in book /\ Cardinality(book) < ways => Exact(e)
        BY <3>2 DEF PinInv, PinsKept, Exact
      <3>4. e.gen = PINNED => KeyOf(e) \in book
        BY <3>1 DEF PinInv, PinsBooked
      <3>5. PinsBooked' /\ PinsKept'
        BY <2>3, <3>1, <3>2, <3>3, <3>4, SettlePins DEF Again
      <3> QED
        BY <2>1, <3>5 DEF PinInv
    <2>4. CASE UNCHANGED vars
      BY <2>1, <2>4 DEF vars, PinInv, PinsBooked, PinsKept, Held, Bucket
    <2>5. PinsBooked' /\ PinsKept'
      BY <2>2, <2>3, <2>4, MovePins, PinStep, StorePins DEF Next, PinInv
    <2> QED
      BY <2>1, <2>5 DEF PinInv
  <1> QED
    BY <1>1, <1>2, PTL DEF Spec

\* A pinned entry outlasts every search (memo.rs 26-29): while fewer positions are
\* pinned than a bucket has slots, each is held, pinned and exact.
THEOREM PinsOutlast == Spec => []PinsKept
  <1>1. PinInv => PinsKept
    BY DEF PinInv
  <1> QED
    BY <1>1, PinsInductive, PTL

-----------------------------------------------------------------------------
(* The table is a memory. *)

Bounds(e) == [lo |-> e.lo, hi |-> e.hi]

\* What is known of a key are the bounds held of it.
LEMMA KnownOf ==
  /\ Known = [k \in Keys |-> {Bounds(e) : e \in {x \in Held \cup old : KeyOf(x) = k}}]
  /\ Known' = [k \in Keys |-> {Bounds(e) : e \in {x \in Held' \cup old' : KeyOf(x) = k}}]
BY DEF Known, Bounds

\* Of each key the bounds of what has it: the same ones where the same have it.
LEMMA KnownSame ==
  ASSUME NEW k \in Keys,
         \A x : KeyOf(x) = k => (x \in Held \cup old <=> x \in Held' \cup old')
  PROVE  Known'[k] = Known[k]
  <1>1. {x \in Held \cup old : KeyOf(x) = k} = {x \in Held' \cup old' : KeyOf(x) = k}
    OBVIOUS
  <1> QED
    BY <1>1, KnownOf

\* What a put does to what is known: of another key than the entry's it changes
\* nothing, or it forgets one.
LEMMA PutForgets ==
  ASSUME IInv, hash' = hash, NEW e, Truthful(e), Put(e), old' = old \ {e},
         \A x \in old : KeyOf(x) = KeyOf(e) => x = e
  PROVE  \E j \in Keys :
           /\ \A q \in Keys \ {KeyOf(e), j} : Known'[q] = Known[q]
           /\ Known'[KeyOf(e)] = {Bounds(e)}
           /\ j # KeyOf(e) => Known'[j] = {}
  <1> DEFINE k == KeyOf(e)
  <1>1. TableTypeOK /\ Sound /\ Placed /\ len = Cardinality(Held) /\ e \in Entry /\ k \in Keys
    BY FindableParts DEF IInv, Truthful
  <1>2. PICK t, out : Replaces(e, t, out)
    BY <1>1, PutReplaces
  <1>3. Held' = (Held \ out) \cup {e} /\ e \in Held' /\ \A x \in Held' : KeyOf(x) = k => x = e
    BY <1>1, <1>2, Seated, PutStep DEF Replaces
  <1>4. Known'[k] = {Bounds(e)}
    <2>1. {x \in Held' \cup old' : KeyOf(x) = k} = {e}
      BY <1>3
    <2> QED
      BY <1>1, <2>1, KnownOf
  <1>5. ASSUME NEW q \in Keys, q # k, \A x \in out : KeyOf(x) # q
        PROVE  Known'[q] = Known[q]
    <2>1. \A x : KeyOf(x) = q => (x \in Held \cup old <=> x \in Held' \cup old')
      BY <1>3, <1>5
    <2> QED
      BY <2>1, KnownSame
  <1>6. CASE \A x \in out : KeyOf(x) = k
    <2>1. \A q \in Keys \ {k, k} : Known'[q] = Known[q]
      BY <1>5, <1>6
    <2> QED
      BY <1>1, <1>4, <2>1
  <1>7. CASE \E x \in out : KeyOf(x) # k
    <2>1. PICK x \in Held : out = {x} /\ KeyOf(x) # k
      <3>1. out # Found(k)
        BY <1>1, <1>7, FoundIsHeld
      <3> QED
        BY <1>2, <1>7, <3>1 DEF Replaces
    <2> DEFINE j == KeyOf(x)
    <2>2. j \in Keys
      BY DEF IInv, Sound
    <2>3. \A q \in Keys \ {k, j} : Known'[q] = Known[q]
      BY <1>5, <2>1
    <2>4. {y \in Held' \cup old' : KeyOf(y) = j} = {}
      <3>1. ASSUME NEW y \in Held', KeyOf(y) = j PROVE FALSE
        <4>1. y \in Held /\ y # x
          BY <1>3, <2>1, <3>1
        <4> QED
          BY <1>1, <3>1, <4>1, HeldOnce DEF Held
      <3>2. ASSUME NEW y \in old, KeyOf(y) = j PROVE FALSE
        <4>1. Found(j) = {}
          BY <3>2 DEF IInv, Findable
        <4> QED
          BY <1>1, <2>2, <4>1, FoundIsHeld
      <3> QED
        BY <3>1, <3>2
    <2>5. Known'[j] = {}
      BY <2>2, <2>4, KnownOf
    <2> QED
      BY <1>4, <2>2, <2>3, <2>5
  <1> QED
    BY <1>6, <1>7

\* A key is learnt.
LEMMA PutLearns ==
  ASSUME IInv, hash' = hash, NEW e, Truthful(e), Put(e), old = {}, old' = {},
         NEW i \in M!Interval, i.lo <= Val[KeyOf(e)], Val[KeyOf(e)] <= i.hi,
         M!Meet(Known[KeyOf(e)], i) = {Bounds(e)}
  PROVE  M!Next
  <1> DEFINE k == KeyOf(e)
  <1>1. PICK j \in Keys :
          /\ \A q \in Keys \ {k, j} : Known'[q] = Known[q]
          /\ Known'[k] = {Bounds(e)}
          /\ j # k => Known'[j] = {}
    BY PutForgets
  <1>2. k \in Keys
    BY DEF Truthful
  <1>3. Known' = [Known EXCEPT ![j] = {}, ![k] = Known'[k]]
    BY <1>1, <1>2, KnownOf
  <1>4. M!Learn(k, i)
    BY <1>1, <1>3 DEF M!Learn
  <1> QED
    BY <1>2, <1>4 DEF M!Next

\* Doubling the table forgets nothing.
LEMMA GrowKnows ==
  ASSUME old = {}, table' = [b \in 0 .. Least(Buckets * 2, most) - 1 |-> {}], old' = Held
  PROVE  Known' = Known
  <1>1. Held' = {}
    BY DEF Held, Bucket
  <1>2. \A x : x \in Held \cup old <=> x \in Held' \cup old'
    BY <1>1
  <1> QED
    BY <1>2, KnownSame, KnownOf

\* A store is a lesson of the abstract memory, or nothing.
LEMMA KeepMemory ==
  ASSUME IInv, NEW k, NEW lo, NEW hi, NEW work, NEW gen, Told(k, lo, hi, work, gen), Keep(k, lo, hi, work, gen)
  PROVE  M!Next \/ Known' = Known
  <1>1. PICK e \in Written(k, lo, hi, work, gen) :
          IF Fits(e) THEN Settle(e) ELSE UNCHANGED <<table, len, task, old>>
    BY DEF Keep, Written
  <1>2. Truthful(e) /\ KeyOf(e) = k /\ task = {} /\ old = {} /\ hash' = hash
    BY WrittenTruthful DEF Keep, IInv, Waiting
  <1> DEFINE i == [lo |-> lo, hi |-> hi]
  <1>3. i \in M!Interval /\ i.lo <= Val[k] /\ Val[k] <= i.hi /\ k \in Keys
    BY DEF M!Interval, Told
  <1>4. Found(k) = {x \in Held \cup old : KeyOf(x) = k}
    BY <1>2, <1>3, FoundIsHeld, FindableParts DEF IInv
  <1>5. M!Meet(Known[k], i) = {Bounds(e)}
    <2>1. Known[k] = {Bounds(x) : x \in Found(k)}
      BY <1>3, <1>4, KnownOf
    <2>2. CASE Found(k) = {}
      <3>1. Known[k] = {} /\ Bounds(e) = i
        BY <2>1, <2>2 DEF Written, New, Bounds
      <3> QED
        BY <3>1 DEF M!Meet
    <2>3. CASE Found(k) # {}
      <3>1. PICK f \in Found(k) : e.lo = Most(lo, f.lo) /\ e.hi = Least(hi, f.hi)
        BY <2>3 DEF Written, Narrowed
      <3>2. Found(k) = {f}
        <4>1. \A x \in Found(k) : x = f
          BY <1>2, <1>4, <3>1, HeldOnce, FindableParts DEF IInv, Held
        <4> QED
          BY <4>1
      <3>3. Known[k] = {Bounds(f)}
        BY <2>1, <3>2
      <3>4. M!Larger(lo, f.lo) = Most(lo, f.lo) /\ M!Smaller(hi, f.hi) = Least(hi, f.hi)
        BY DEF M!Larger, M!Smaller, Most, Least
      <3> QED
        BY <3>1, <3>3, <3>4 DEF M!Meet, Bounds
    <2> QED
      BY <2>2, <2>3
  <1>6. CASE Fits(e) /\ ~ Wanting(KeyOf(e))
    <2>1. Put(e) /\ old' = {}
      BY <1>1, <1>6 DEF Settle
    <2> HIDE DEF i
    <2> QED
      BY <1>2, <1>3, <1>5, <2>1, PutLearns
  <1>7. CASE Fits(e) /\ Wanting(KeyOf(e))
    BY <1>1, <1>2, <1>7, GrowKnows DEF Settle
  <1>8. CASE ~ Fits(e)
    BY <1>1, <1>8, KnownOf DEF Held, Bucket
  <1> QED
    BY <1>6, <1>7, <1>8

\* An entry put back is still known; another may be forgotten for it.
LEMMA MoveMemory ==
  ASSUME IInv, NEW e \in old, Move(e)
  PROVE  M!Next \/ Known' = Known
  <1>1. Truthful(e) /\ \A x \in old : KeyOf(x) = KeyOf(e) => x = e
    BY DEF IInv, TableTypeOK, Sound, Findable, Truthful
  <1> DEFINE k == KeyOf(e)
  <1>2. PICK j \in Keys :
          /\ \A q \in Keys \ {k, j} : Known'[q] = Known[q]
          /\ Known'[k] = {Bounds(e)}
          /\ j # k => Known'[j] = {}
    BY <1>1, PutForgets DEF Move
  <1>3. k \in Keys /\ Known[k] = {Bounds(e)}
    <2>1. Found(k) = {} /\ k \in Keys
      BY <1>1 DEF IInv, Findable, Truthful
    <2>2. {x \in Held \cup old : KeyOf(x) = k} = {e}
      BY <1>1, <2>1, FoundIsHeld, FindableParts DEF IInv
    <2> QED
      BY <2>1, <2>2, KnownOf
  <1>4. CASE j = k
    <2>1. \A q \in Keys : Known'[q] = Known[q]
      BY <1>2, <1>3, <1>4
    <2> QED
      BY <2>1, KnownOf
  <1>5. CASE j # k
    <2>1. \A q \in Keys \ {j} : Known'[q] = Known[q]
      BY <1>2, <1>3
    <2>2. Known' = [Known EXCEPT ![j] = {}]
      BY <1>2, <1>5, <2>1, KnownOf
    <2> QED
      BY <2>2 DEF M!Next, M!Forget
  <1> QED
    BY <1>4, <1>5

\* Another round of keep is a lesson of the abstract memory, or nothing.
LEMMA AgainMemory ==
  ASSUME IInv, Again
  PROVE  M!Next \/ Known' = Known
  <1>1. PICK e \in task : Settle(e)
    BY DEF Again
  <1>2. /\ Truthful(e) /\ old = {} /\ hash' = hash /\ \A x \in Held \cup old : KeyOf(x) # KeyOf(e)
        /\ e \in Entry
    BY DEF Again, IInv, TableTypeOK, Sound, Waiting, Truthful
  <1>3. CASE Wanting(KeyOf(e))
    BY <1>1, <1>2, <1>3, GrowKnows DEF Settle
  <1>4. CASE ~ Wanting(KeyOf(e))
    <2>1. Put(e) /\ old' = {}
      BY <1>1, <1>4 DEF Settle
    <2>2. Bounds(e) \in M!Interval /\ Bounds(e).lo = e.lo /\ Bounds(e).hi = e.hi
      BY <1>2 DEF Bounds, M!Interval, Entry
    <2>3. Known[KeyOf(e)] = {}
      <3>1. {x \in Held \cup old : KeyOf(x) = KeyOf(e)} = {}
        BY <1>2
      <3> QED
        BY <1>2, <3>1, KnownOf DEF Truthful
    <2>4. M!Meet(Known[KeyOf(e)], Bounds(e)) = {Bounds(e)}
      BY <2>3 DEF M!Meet
    <2>5. Bounds(e).lo <= Val[KeyOf(e)] /\ Val[KeyOf(e)] <= Bounds(e).hi
      BY <1>2, <2>2 DEF Truthful
    <2> QED
      BY <1>2, <2>1, <2>2, <2>4, <2>5, PutLearns
  <1> QED
    BY <1>3, <1>4

\* The table implements a bounded memory of intervals (memo.rs 15-24): nothing it
\* holds is widened, invented or another key's, and a store or a move pushes out
\* one other key at most.
THEOREM ImplementsMemory == Spec => MemorySpec
  <1>1. Init => M!Init
    <2>1. Init => Held = {} /\ old = {}
      BY DEF Init, Held, Bucket
    <2>2. Held = {} /\ old = {} => Known = [k \in Keys |-> {}]
      BY DEF Known
    <2> QED
      BY <2>1, <2>2 DEF M!Init
  <1>2. IInv /\ [Next]_vars => [M!Next]_Known
    <2> SUFFICES ASSUME IInv, [Next]_vars PROVE M!Next \/ Known' = Known
      OBVIOUS
    <2>1. CASE Age
      BY <2>1, KnownOf DEF Age, Held, Bucket
    <2>2. ASSUME NEW s \in Shown, Store(s) PROVE M!Next \/ Known' = Known
      <3>1. generation \in 1 .. GEN /\ GEN \in Nat
        BY TableAssumption DEF IInv, TableTypeOK
      <3>2. Told(s.k, s.lo, s.hi, s.work, generation)
        BY <3>1, TableAssumption DEF Told, PinWork
      <3> QED
        BY <2>2, <3>2, KeepMemory DEF Store
    <2>3. ASSUME NEW k \in Booked, Pin(k) PROVE M!Next \/ Known' = Known
      <3>1. k \in Keys /\ Val[k] \in Value /\ Val[k] \in Int
        BY TableAssumption
      <3>2. MaxWork \in Nat /\ GEN \in Nat
        BY TableAssumption
      <3>3. Told(k, Val[k], Val[k], PinWork, PINNED)
        BY <3>1, <3>2 DEF Told, PinWork, PINNED
      <3> QED
        BY <2>3, <3>3, KeepMemory DEF Pin
    <2>4. CASE UNCHANGED vars
      BY <2>4, KnownOf DEF vars, Held, Bucket
    <2> QED
      BY <2>1, <2>2, <2>3, <2>4, MoveMemory, AgainMemory DEF Next
  <1>3. M!Init /\ [][M!Next]_Known => MemorySpec
    BY DEF MemorySpec, M!Spec
  <1> QED
    BY <1>1, <1>2, <1>3, Inductive, PTL DEF Spec

=============================================================================
