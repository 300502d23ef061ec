------------------------- MODULE TranspositionTable -------------------------
(***************************************************************************)
(* The game search's transposition table (pflow-metamodel memo.rs): a hash *)
(* table of bounded size.  A key may be in either of two buckets of a few  *)
(* slots each.  A new key takes an empty slot, or grows the table, or      *)
(* takes the weakest entry's slot: an old one first, a pinned one last.    *)
(* A bucket is the set of its entries here: the order of its slots only    *)
(* decides between equally weak ones.  The tags, a filter before the keys  *)
(* are compared, and the best moves, which ride along, are left out.       *)
(***************************************************************************)
EXTENDS Integers, FiniteSets

CONSTANTS
  Mark,         \* the markings searched, as key words
  Keys,         \* the keys asked of: a marking, by bits or by counts
  Booked,       \* the keys of the opening book's positions
  Value, Val,   \* the values a position may have; the one each key's has
  Entries,      \* the entries the table is given
  WAYS,         \* slots per bucket, at most
  START,        \* slots it starts with, at most
  GEN,          \* generations before they wrap (GEN_MASK)
  DICT,         \* distinct bounds a compact table holds
  MaxWork,      \* bound: the work (log2 nodes) behind a store
  Shown,        \* what the search may show and store: bounds of a key's value, by some work
  Res,          \* the range of a hash
  Hashes        \* the hash functions considered

Least(x, y) == IF x <= y THEN x ELSE y
Most(x, y) == IF x >= y THEN x ELSE y

Hash == [a : 0 .. Res - 1, b : 0 .. Res - 1]

ASSUME TableAssumption ==
  /\ {Entries, WAYS, START, GEN, Res} \subseteq Nat \ {0}
  /\ {DICT, MaxWork} \subseteq Nat
  /\ Booked \subseteq Keys /\ Keys \subseteq [mark : Mark, counts : BOOLEAN]
  /\ Value \subseteq Int
  /\ Val \in [Keys -> Value]
  /\ Shown \subseteq [k : Keys, lo : Value, hi : Value, work : 0 .. MaxWork]
  /\ \A s \in Shown : s.lo <= Val[s.k] /\ Val[s.k] <= s.hi
  /\ Hashes \subseteq [Mark -> Hash]

\* A pinned entry's generation and work.
PINNED == 0
PinWork == MaxWork + 1

ways == Least(WAYS, Entries)
most == Entries \div ways

Entry ==
  [mark : Mark, counts : BOOLEAN, lo : Value, hi : Value, work : 0 .. PinWork, gen : 0 .. GEN]

VARIABLES
  hash,         \* the hash function, fixed at the start
  compact,      \* bounds as indices into dict
  table,        \* the buckets, each the set of its entries
  len,          \* the entries held, as the table counts them
  generation,
  dict,         \* the bounds a compact table has indexed
  task,         \* the entry keep is growing the table for, if it is
  old,          \* the entries grow has still to move over
  book          \* history: the keys pinned

vars == <<hash, compact, table, len, generation, dict, task, old, book>>

-----------------------------------------------------------------------------
Bucket == DOMAIN table
Buckets == Cardinality(Bucket)

KeyOf(e) == [mark |-> e.mark, counts |-> e.counts]

\* Where a hash points among n buckets.
Scale(x, n) == (x * n) \div Res

First(k) == Scale(hash[k.mark].a, Buckets)
Second(k) == Scale(hash[k.mark].b, Buckets)

Held == UNION {table[b] : b \in Bucket}

Full(b) == Cardinality(table[b]) = ways

\* Mutant: an entry of the other engine is taken for the key's own.
HoldsMark(e, k) == e.mark = k.mark

Holds(e, k) == e.mark = k.mark /\ e.counts = k.counts

At(b, k) == {e \in table[b] : Holds(e, k)}

\* Mutant: locate prefers the second bucket while there is room in it.
StopSecond(k) == IF At(First(k), k) = {} /\ ~ Full(Second(k)) THEN Second(k) ELSE First(k)

\* The bucket locate stops at for k: its first, unless that is full without k.
Stop(k) == IF At(First(k), k) = {} /\ Full(First(k)) THEN Second(k) ELSE First(k)

\* What locate finds of k, none or one entry.
Found(k) == At(Stop(k), k)

\* locate found neither k nor room for it.
Crowded(k) == Found(k) = {} /\ Full(Stop(k))

\* Mutant: a pinned entry is as old as any of another generation.
RankUnpinned(e) == (IF e.gen = generation THEN PinWork + 1 ELSE 0) + (e.work % (MaxWork + 1))

\* The weaker, the sooner replaced.
Rank(e) ==
  IF e.gen = PINNED THEN 2 * (PinWork + 1)
  ELSE (IF e.gen = generation THEN PinWork + 1 ELSE 0) + e.work

\* The weakest entries of k's buckets, with the bucket each is in.
Weakest(k) ==
  LET here == UNION {{b} \X table[b] : b \in {First(k), Second(k)}}
  IN  {x \in here : \A y \in here : Rank(x[2]) <= Rank(y[2])}

\* put: e where locate said, in place of what it found, in a free slot, or over
\* a weakest entry.
Put(e) ==
  LET k == KeyOf(e)
  IN  \/ /\ ~ Crowded(k)
         /\ table' = [table EXCEPT ![Stop(k)] = (@ \ Found(k)) \cup {e}]
         /\ len' = IF Found(k) = {} THEN len + 1 ELSE len
      \/ /\ Crowded(k)
         /\ \E x \in Weakest(k) :
              table' = [table EXCEPT ![x[1]] = (@ \ {x[2]}) \cup {e}]
         /\ len' = len

\* Mutant: a full-grown table is grown again, to no more buckets.
WantingAlways(k) == Crowded(k) /\ len * 4 >= Buckets * ways

\* Room is wanted for k and the table may still grow: not below a quarter full.
Wanting(k) ==
  /\ Crowded(k)
  /\ Buckets # most
  /\ len * 4 >= Buckets * ways

-----------------------------------------------------------------------------
Init ==
  /\ hash \in Hashes
  /\ compact \in BOOLEAN
  /\ table = [b \in 0 .. Most(Least(most, START \div ways), 1) - 1 |-> {}]
  /\ len = 0
  /\ generation = 1
  /\ dict = {}
  /\ task = {}
  /\ old = {}
  /\ book = {}

Age ==
  /\ task = {}
  /\ generation' = (generation % GEN) + 1
  /\ UNCHANGED <<hash, compact, table, len, dict, task, old, book>>

\* Mutant: the bounds given replace those held.
NarrowedAfresh(k, lo, hi, work, gen) ==
  {[mark |-> k.mark, counts |-> k.counts, lo |-> lo, hi |-> hi,
    work |-> Most(work, e.work),
    gen |-> IF e.gen = PINNED THEN PINNED ELSE gen] : e \in Found(k)}

\* What keep writes for k: the bounds met with those held, the work of the
\* better search, and a pin that stays one.
Narrowed(k, lo, hi, work, gen) ==
  {[mark |-> k.mark, counts |-> k.counts,
    lo |-> Most(lo, e.lo), hi |-> Least(hi, e.hi),
    work |-> Most(work, e.work),
    gen |-> IF e.gen = PINNED THEN PINNED ELSE gen] : e \in Found(k)}

New(k, lo, hi, work, gen) ==
  {[mark |-> k.mark, counts |-> k.counts, lo |-> lo, hi |-> hi, work |-> work, gen |-> gen]}

\* A compact table indexes both bounds, or keeps neither them nor the entry; the
\* lower may have been indexed by then.
Fits(e) == ~ compact \/ Cardinality(dict \cup {e.lo, e.hi}) <= DICT

Indexed(e) ==
  CASE ~ compact             -> dict
    [] compact /\ Fits(e)    -> dict \cup {e.lo, e.hi}
    [] compact /\ ~ Fits(e)  -> IF Cardinality(dict) < DICT THEN dict \cup {e.lo} ELSE dict

\* One round of keep's loop: e is put in its place, or the table is doubled for
\* it, and what it held waits to be put back.
Settle(e) ==
  \/ /\ ~ Wanting(KeyOf(e))
     /\ Put(e)
     /\ task' = {} /\ old' = {}
  \/ /\ Wanting(KeyOf(e))
     /\ table' = [b \in 0 .. Least(Buckets * 2, most) - 1 |-> {}]
     /\ len' = 0
     /\ task' = {e} /\ old' = Held

Keep(k, lo, hi, work, gen) ==
  /\ task = {}
  /\ \E e \in (IF Found(k) # {} THEN Narrowed(k, lo, hi, work, gen)
                                 ELSE New(k, lo, hi, work, gen)) :
       /\ dict' = Indexed(e)
       /\ IF Fits(e) THEN Settle(e) ELSE UNCHANGED <<table, len, task, old>>
  /\ UNCHANGED <<hash, compact, generation>>

\* The search stores bounds it has shown (game.rs, search and store).
Store(s) ==
  /\ Keep(s.k, s.lo, s.hi, s.work, generation)
  /\ UNCHANGED book

\* An opening book pins what it knows exactly.
Pin(k) ==
  /\ Keep(k, Val[k], Val[k], PinWork, PINNED)
  /\ book' = IF compact /\ Val[k] \notin dict' THEN book ELSE book \cup {k}

\* grow puts the entries back one by one (in the order of their slots; any
\* order here).
Move(e) ==
  /\ Put(e)
  /\ old' = old \ {e}
  /\ UNCHANGED <<hash, compact, generation, dict, task, book>>

\* All are back: keep looks again.
Again ==
  /\ old = {}
  /\ \E e \in task : Settle(e)
  /\ UNCHANGED <<hash, compact, generation, dict, book>>

Next ==
  \/ Age
  \/ \E s \in Shown : Store(s)
  \/ \E k \in Booked : Pin(k)
  \/ (\E e \in old : Move(e))
  \/ Again

Spec == Init /\ [][Next]_vars

\* A call, once made, runs to its end.
FairSpec == Spec /\ WF_vars((\E e \in old : Move(e)) \/ Again)

-----------------------------------------------------------------------------
\* Forgetting never changes a value, only what it costs (memo.rs 23-24): bounds
\* held of a key are bounds of its own value, through replacements, doublings,
\* and two engines or two keys of one hash.
Sound ==
  \A e \in Held \cup old \cup task :
    KeyOf(e) \in Keys /\ e.lo <= Val[KeyOf(e)] /\ Val[KeyOf(e)] <= e.hi

\* What the comment on locate argues (memo.rs 192-195): an entry held is the one
\* locate finds of its key, so none is ever lost from sight or held twice,
\* although keys whose buckets differ fill and empty them between lookups; no
\* bucket holds more than its slots, and len counts the entries held, through
\* replacements and doublings.
Findable ==
  /\ \A b \in Bucket : table[b] \subseteq Entry /\ Cardinality(table[b]) <= ways
  /\ \A b \in Bucket : \A e \in table[b] : Stop(KeyOf(e)) = b /\ Found(KeyOf(e)) = {e}
  /\ \A e, f \in old : KeyOf(e) = KeyOf(f) => e = f
  /\ \A e \in old : Found(KeyOf(e)) = {}
  /\ len = Cardinality(Held)

\* A pinned entry outlasts every search (memo.rs 26-29): while fewer positions
\* are pinned than a bucket has slots, each is held, pinned and exact, whatever
\* ages and doublings come between.
PinsKept ==
  Cardinality(book) < ways =>
    \A k \in book : \E e \in Held \cup old \cup task :
      KeyOf(e) = k /\ e.gen = PINNED /\ e.lo = Val[k] /\ e.hi = Val[k]

\* The table implements a bounded memory of intervals: what it holds of a key,
\* an entry being moved included, is the meet of what it was told since it last
\* forgot the key, and a store or a move forgets one other key at most.
Known ==
  [k \in Keys |-> {[lo |-> e.lo, hi |-> e.hi] : e \in {x \in Held \cup old : KeyOf(x) = k}}]

M == INSTANCE Memory WITH known <- Known

MemorySpec == M!Spec

\* keep's loop ends: each doubling brings the table nearer its limit, where no
\* room is wanted any more (memo.rs 313-323).
KeepEnds == task # {} ~> task = {}

=============================================================================
