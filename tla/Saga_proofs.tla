----------------------------- MODULE Saga_proofs -----------------------------
(***************************************************************************)
(* The constraints saga.rs emits with a saga hold of every set of sagas,   *)
(* whatever their steps, their accounts and who else spends from them; and *)
(* compensation is in the reverse order of the steps that ran.  Of the     *)
(* firing rule's proofs only those about sums play a part.                 *)
(***************************************************************************)
EXTENDS Saga, FiringRule_proofs

-----------------------------------------------------------------------------
(* The inductive invariant: the three properties together. *)

\* The one control token of s stands on p.
Stands(s, p) == \A q \in ControlPlace(s) : control[s][q] = IF q = p THEN 1 ELSE 0

\* The one token of step i of s is on x.
Marked(s, i, x) == \A y \in Status : status[s][i][y] = IF y = x THEN 1 ELSE 0

\* What the place of the control token says of step j.
Told(s, p, j) ==
  /\ \A i \in Steps(s) : p = NextUp(i) => Is(s, j, IF j < i THEN "done" ELSE "pending")
  /\ \A i \in Steps(s) : p = Unwind(i) => (Is(s, j, "done") <=> j <= i)
  /\ p \in {Committing, Completed} => Is(s, j, "done")
  /\ p = RolledBack => ~ Is(s, j, "done")

\* Saga s is in order.
Ordered(s) ==
  /\ \A i \in Steps(s) : \E x \in Status : Marked(s, i, x)
  /\ \E p \in ControlPlace(s) : Stands(s, p) /\ \A j \in Steps(s) : Told(s, p, j)

\* control and status are functions on the sagas.
Shape ==
  /\ control = [s \in Sagas |-> control[s]]
  /\ status = [s \in Sagas |-> status[s]]

IInv == TypeOK /\ Shape /\ \A s \in Sagas : Ordered(s)

-----------------------------------------------------------------------------
(* Lemmas about places and tokens. *)

\* The plan gives every saga a first and a last step.
LEMMA PlanType ==
  ASSUME plan \in Plans, NEW s \in Sagas
  PROVE  /\ Len(plan.moves[s]) \in Nat \ {0}
         /\ 1 \in Steps(s)
         /\ Len(plan.moves[s]) \in Steps(s)
         /\ Steps(s) \subseteq Nat \ {0}
         /\ DOMAIN plan.moves[s] = Steps(s)
  <1>1. plan.moves[s] \in Seq(Seq(Move)) /\ plan.moves[s] # <<>>
    BY PlansAssumption DEF Plan
  <1>2. Len(plan.moves[s]) \in Nat \ {0} /\ DOMAIN plan.moves[s] = 1 .. Len(plan.moves[s])
    BY <1>1, EmptySeq, LenProperties
  <1> QED
    BY <1>2 DEF Steps

\* No two control places are the same.
LEMMA Distinct ==
  /\ \A i, j : NextUp(i) # Unwind(j) /\ (NextUp(i) = NextUp(j) <=> i = j)
                                     /\ (Unwind(i) = Unwind(j) <=> i = j)
  /\ \A i : NextUp(i) \notin {Committing, Completed, RolledBack}
            /\ Unwind(i) \notin {Committing, Completed, RolledBack}
  /\ Committing # Completed /\ Committing # RolledBack /\ Completed # RolledBack
  BY DEF NextUp, Unwind, Committing, Completed, RolledBack

\* A place where a token stands is the one place that has it.
LEMMA TokenAt ==
  ASSUME NEW s \in Sagas, NEW p \in ControlPlace(s), NEW q \in ControlPlace(s), Stands(s, p)
  PROVE  /\ At(s, q) <=> q = p
         /\ control[s][q] >= 1 => q = p
  BY DEF Stands, At

\* A step has one status only.
LEMMA MarkAt ==
  ASSUME NEW s \in Sagas, NEW i \in Steps(s), NEW x \in Status, NEW y \in Status, Marked(s, i, x)
  PROVE  /\ Is(s, i, y) <=> y = x
         /\ status[s][i][y] >= 1 => y = x
  BY DEF Marked, Is

\* Moving a token from where it stands.
LEMMA ShiftToken ==
  ASSUME NEW S, NEW m \in [S -> Nat], NEW p \in S, NEW q \in S, p # q,
         \A x \in S : m[x] = IF x = p THEN 1 ELSE 0
  PROVE  /\ Shift(m, p, q) \in [S -> Nat]
         /\ \A x \in S : Shift(m, p, q)[x] = IF x = q THEN 1 ELSE 0
  <1>1. \A x \in S : Shift(m, p, q)[x] = IF x = q THEN 1 ELSE 0
    BY DEF Shift
  <1>2. Shift(m, p, q) = [x \in S |-> Shift(m, p, q)[x]]
    BY DEF Shift
  <1> QED
    BY <1>1, <1>2

\* Handing the control token on moves it, and moves no other saga's.
LEMMA HandMoves ==
  ASSUME TypeOK, Shape, NEW s \in Sagas, NEW p \in ControlPlace(s), NEW from \in ControlPlace(s),
         NEW q \in ControlPlace(s), from # q, Stands(s, p), Hand(s, from, q), plan' = plan
  PROVE  /\ p = from
         /\ Stands(s, q)'
         /\ control'[s] \in [ControlPlace(s) -> Nat]
         /\ \A r \in Sagas : r # s => control'[r] = control[r]
         /\ control' = [r \in Sagas |-> control'[r]]
  <1>1. control[s] \in [ControlPlace(s) -> Nat] /\ control[s][from] >= 1
    BY DEF TypeOK, Hand
  <1>2. p = from
    BY <1>1, TokenAt
  <1>3. control' = [r \in Sagas |-> IF r = s THEN Shift(control[s], from, q) ELSE control[r]]
    BY DEF Hand, Shape
  <1>4. /\ Shift(control[s], from, q) \in [ControlPlace(s) -> Nat]
        /\ \A x \in ControlPlace(s) : Shift(control[s], from, q)[x] = IF x = q THEN 1 ELSE 0
    BY <1>1, <1>2, ShiftToken DEF Stands
  <1>5. ControlPlace(s)' = ControlPlace(s)
    BY DEF ControlPlace, Steps
  <1> QED
    BY <1>2, <1>3, <1>4, <1>5 DEF Stands

\* The same of a step's status.
LEMMA TurnMoves ==
  ASSUME TypeOK, Shape, NEW s \in Sagas, NEW i \in Steps(s), NEW x \in Status,
         NEW from \in Status, NEW to \in Status, from # to,
         Marked(s, i, x), Turn(s, i, from, to), plan' = plan
  PROVE  /\ x = from
         /\ Marked(s, i, to)'
         /\ status'[s] \in [Steps(s) -> [Status -> Nat]]
         /\ \A j \in Steps(s) : j # i => status'[s][j] = status[s][j]
         /\ \A r \in Sagas : r # s => status'[r] = status[r]
         /\ status' = [r \in Sagas |-> status'[r]]
  <1>1. status[s] \in [Steps(s) -> [Status -> Nat]] /\ status[s][i][from] >= 1
    BY DEF TypeOK, Turn
  <1>2. x = from
    BY <1>1, MarkAt
  <1> DEFINE m == [status[s] EXCEPT ![i] = Shift(status[s][i], from, to)]
  <1>3. status' = [r \in Sagas |-> IF r = s THEN m ELSE status[r]]
    BY DEF Turn, Shape
  <1>4. /\ Shift(status[s][i], from, to) \in [Status -> Nat]
        /\ \A y \in Status : Shift(status[s][i], from, to)[y] = IF y = to THEN 1 ELSE 0
    BY <1>1, <1>2, ShiftToken DEF Marked
  <1>5. /\ m \in [Steps(s) -> [Status -> Nat]]
        /\ m[i] = Shift(status[s][i], from, to)
        /\ \A j \in Steps(s) : j # i => m[j] = status[s][j]
    BY <1>1, <1>4
  <1> HIDE DEF m
  <1>6. status'[s] = m /\ \A r \in Sagas : r # s => status'[r] = status[r]
    BY <1>3
  <1> QED
    BY <1>2, <1>3, <1>4, <1>5, <1>6 DEF Marked

\* A saga whose tokens do not move stays in order.
LEMMA OthersOrdered ==
  ASSUME NEW r \in Sagas, Ordered(r), plan' = plan,
         control'[r] = control[r], status'[r] = status[r]
  PROVE  Ordered(r)'
  BY DEF Ordered, Stands, Marked, Told, Is, Steps, ControlPlace

\* What a step does to the accounts: no balance falls below zero.
LEMMA PayType ==
  ASSUME TypeOK, NEW d, \A a \in Account : d[a] \in Int, Pay(d)
  PROVE  balance' \in [Account -> Nat]
  <1>1. \A a \in Account : balance[a] \in Nat /\ balance[a] + d[a] >= 0
    BY DEF TypeOK, Pay, Affords
  <1>2. \A a \in Account : balance[a] + d[a] \in Nat
    BY <1>1
  <1> QED
    BY <1>2 DEF Pay

\* What a step moves, and what takes it back, are numbers per account.
LEMMA EffectType ==
  ASSUME plan \in Plans, NEW s \in Sagas, NEW i \in Steps(s)
  PROVE  \A a \in Account : Effect(s, i)[a] \in Int /\ Reversal(s, i)[a] \in Int
  <1>1. i \in DOMAIN plan.moves[s] /\ plan.moves[s] \in Seq(Seq(Move))
    BY PlanType, PlansAssumption DEF Plan
  <1>2. PICK moves \in Seq(Move) : moves = plan.moves[s][i]
    BY <1>1, ElementOfSeq, LenProperties
  <1>3. ASSUME NEW K \in SUBSET DOMAIN moves
        PROVE  SumFunction([k \in K |-> moves[k].amount]) \in Int
    <2>1. IsFiniteSet(K)
      <3>1. DOMAIN moves = 1 .. Len(moves) /\ Len(moves) \in Nat
        BY LenProperties
      <3> QED
        BY <3>1, Positions
    <2> DEFINE f == [k \in K |-> moves[k].amount]
    <2>2. \A k \in K : f[k] \in Int
      BY ElementOfSeq, LenProperties DEF Move
    <2>3. DOMAIN f = K
      OBVIOUS
    <2> HIDE DEF f
    <2>4. SumFunctionOnSet(f, DOMAIN f) \in Int
      BY <2>1, <2>2, <2>3, SumIsInt
    <2> QED
      BY <2>4 DEF SumFunction, f
  <1>4. ASSUME NEW a \in Account
        PROVE  NetDelta(moves, a) \in Int
    <2>1. /\ SumFunction([k \in {j \in DOMAIN moves : moves[j].to = a} |-> moves[k].amount]) \in Int
          /\ SumFunction([k \in {j \in DOMAIN moves : moves[j].from = a} |-> moves[k].amount]) \in Int
      BY <1>3
    <2> QED
      BY <2>1 DEF NetDelta
  <1> QED
    BY <1>2, <1>4 DEF Effect, Reversal

-----------------------------------------------------------------------------
(* Each action keeps the invariant. *)

\* The invariant holds at first.
LEMMA InitIInv == Init => IInv
  <1> SUFFICES ASSUME Init PROVE IInv
    OBVIOUS
  <1> USE DEF Init
  <1>1. plan.opening \in [Account -> Nat]
    BY PlansAssumption DEF Plan
  <1>2. TypeOK
    BY <1>1 DEF TypeOK
  <1>3. Shape
    BY DEF Shape
  <1>4. ASSUME NEW s \in Sagas
        PROVE  Ordered(s)
    <2>1. 1 \in Steps(s) /\ Steps(s) \subseteq Nat \ {0} /\ NextUp(1) \in ControlPlace(s)
      BY PlanType DEF ControlPlace
    <2>2. Stands(s, NextUp(1))
      BY DEF Stands
    <2>3. \A i \in Steps(s) : Marked(s, i, "pending")
      BY DEF Marked
    <2>4. \A j \in Steps(s) : Is(s, j, "pending")
      BY DEF Is, Status
    <2>5. \A j \in Steps(s) : Told(s, NextUp(1), j)
      <3> SUFFICES ASSUME NEW j \in Steps(s) PROVE Told(s, NextUp(1), j)
        OBVIOUS
      <3>1. ASSUME NEW i \in Steps(s), NextUp(1) = NextUp(i)
            PROVE  Is(s, j, IF j < i THEN "done" ELSE "pending")
        <4>1. i = 1 /\ ~ (j < 1)
          BY <2>1, <3>1, Distinct
        <4> QED
          BY <2>4, <4>1
      <3> QED
        BY <3>1, Distinct DEF Told
    <2> QED
      BY <2>1, <2>2, <2>3, <2>5 DEF Ordered, Status
  <1> QED
    BY <1>2, <1>3, <1>4 DEF IInv

\* A step that hands the token of s from p to q, and turns the token of its step
\* i from x to y, keeps every saga in order when q tells the truth afterwards.
LEMMA StepOrdered ==
  ASSUME IInv, plan' = plan, NEW s \in Sagas, NEW i \in Steps(s),
         NEW p \in ControlPlace(s), NEW q \in ControlPlace(s), p # q, Hand(s, p, q),
         NEW x \in Status, NEW y \in Status, x # y, Turn(s, i, x, y),
         ASSUME \A j \in Steps(s) : Told(s, p, j), Is(s, i, y)',
                \A z \in Status \ {y} : ~ Is(s, i, z)',
                \A j \in Steps(s) \ {i} : \A z \in Status : Is(s, j, z)' <=> Is(s, j, z)
         PROVE  \A j \in Steps(s) : Told(s, q, j)'
  PROVE  \A r \in Sagas : Ordered(r)'
  <1>1. PICK w \in ControlPlace(s) : Stands(s, w) /\ \A j \in Steps(s) : Told(s, w, j)
    BY DEF IInv, Ordered
  <1>2. PICK v \in Status : Marked(s, i, v)
    BY DEF IInv, Ordered
  <1>3. /\ w = p
        /\ Stands(s, q)'
        /\ \A r \in Sagas : r # s => control'[r] = control[r]
    BY <1>1, HandMoves DEF IInv
  <1>4. /\ Marked(s, i, y)'
        /\ \A j \in Steps(s) : j # i => status'[s][j] = status[s][j]
        /\ \A r \in Sagas : r # s => status'[r] = status[r]
    BY <1>2, TurnMoves DEF IInv
  <1>5. Steps(s)' = Steps(s) /\ ControlPlace(s)' = ControlPlace(s)
    BY DEF ControlPlace, Steps
  <1>6. /\ Is(s, i, y)'
        /\ \A z \in Status \ {y} : ~ Is(s, i, z)'
        /\ \A j \in Steps(s) \ {i} : \A z \in Status : Is(s, j, z)' <=> Is(s, j, z)
    BY <1>4 DEF Marked, Is
  <1>7. \A j \in Steps(s) : Told(s, q, j)'
    BY <1>1, <1>3, <1>6
  <1>8. ASSUME NEW j \in Steps(s)
        PROVE  \E z \in Status : Marked(s, j, z)'
    <2>1. CASE j = i
      BY <1>4, <2>1
    <2>2. CASE j # i
      <3>1. PICK z \in Status : Marked(s, j, z)
        BY DEF IInv, Ordered
      <3>2. Marked(s, j, z)'
        BY <1>4, <2>2, <3>1 DEF Marked
      <3> QED
        BY <3>2
    <2> QED
      BY <2>1, <2>2
  <1>9. Ordered(s)'
    BY <1>3, <1>5, <1>7, <1>8 DEF Ordered
  <1> QED
    BY <1>3, <1>4, <1>9, OthersOrdered DEF IInv

\* The same step keeps the shape and the type of the tokens.
LEMMA StepType ==
  ASSUME IInv, plan' = plan, NEW s \in Sagas, NEW i \in Steps(s),
         NEW p \in ControlPlace(s), NEW q \in ControlPlace(s), p # q, Hand(s, p, q),
         NEW x \in Status, NEW y \in Status, x # y, Turn(s, i, x, y)
  PROVE  /\ \A r \in Sagas : control'[r] \in [ControlPlace(r)' -> Nat]
         /\ \A r \in Sagas : status'[r] \in [Steps(r)' -> [Status -> Nat]]
         /\ Shape'
  <1>1. PICK w \in ControlPlace(s) : Stands(s, w)
    BY DEF IInv, Ordered
  <1>2. PICK v \in Status : Marked(s, i, v)
    BY DEF IInv, Ordered
  <1>3. /\ control'[s] \in [ControlPlace(s) -> Nat]
        /\ \A r \in Sagas : r # s => control'[r] = control[r]
        /\ control' = [r \in Sagas |-> control'[r]]
    BY <1>1, HandMoves DEF IInv
  <1>4. /\ status'[s] \in [Steps(s) -> [Status -> Nat]]
        /\ \A r \in Sagas : r # s => status'[r] = status[r]
        /\ status' = [r \in Sagas |-> status'[r]]
    BY <1>2, TurnMoves DEF IInv
  <1>5. \A r \in Sagas : Steps(r)' = Steps(r) /\ ControlPlace(r)' = ControlPlace(r)
    BY DEF ControlPlace, Steps
  <1> QED
    BY <1>3, <1>4, <1>5 DEF IInv, TypeOK, Shape

\* Where the token of saga s goes is one of its control places.
LEMMA Targets ==
  ASSUME plan \in Plans, NEW s \in Sagas, NEW i \in Steps(s)
  PROVE  /\ {NextUp(i), Unwind(i), UnwindTarget(i), AfterStep(s, i)} \subseteq ControlPlace(s)
         /\ NextUp(i) \notin {UnwindTarget(i), AfterStep(s, i)}
         /\ Unwind(i) # UnwindTarget(i)
         /\ i # 1 => i - 1 \in Steps(s)
         /\ i < Len(plan.moves[s]) => i + 1 \in Steps(s)
  <1>1. Len(plan.moves[s]) \in Nat \ {0} /\ Steps(s) = 1 .. Len(plan.moves[s])
    BY PlanType DEF Steps
  <1>2. /\ i # 1 => i - 1 \in Steps(s) /\ i - 1 # i
        /\ i < Len(plan.moves[s]) => i + 1 \in Steps(s) /\ i + 1 # i
    BY <1>1
  <1>3. /\ UnwindTarget(i) \in ControlPlace(s)
        /\ AfterStep(s, i) \in ControlPlace(s)
    BY <1>2 DEF UnwindTarget, AfterStep, ControlPlace
  <1>4. NextUp(i) # UnwindTarget(i) /\ Unwind(i) # UnwindTarget(i)
    BY <1>2, Distinct DEF UnwindTarget
  <1>5. NextUp(i) # AfterStep(s, i)
    BY <1>2, Distinct DEF AfterStep
  <1> QED
    BY <1>2, <1>3, <1>4, <1>5 DEF ControlPlace

\* Below step i the unwind chain tells the truth when exactly the steps before i
\* are done.
LEMMA UnwindTold ==
  ASSUME plan \in Plans, plan' = plan, NEW s \in Sagas, NEW i \in Steps(s),
         \A j \in Steps(s) : Is(s, j, "done")' <=> j < i
  PROVE  \A j \in Steps(s) : Told(s, UnwindTarget(i), j)'
  <1>1. Steps(s)' = Steps(s) /\ Steps(s) = 1 .. Len(plan.moves[s])
        /\ Len(plan.moves[s]) \in Nat \ {0}
    BY PlanType DEF Steps
  <1>2. CASE i = 1
    <2>1. UnwindTarget(i) = RolledBack
      BY <1>2 DEF UnwindTarget
    <2>2. \A j \in Steps(s) : ~ Is(s, j, "done")'
      BY <1>1, <1>2
    <2> QED
      BY <2>1, <2>2, Distinct DEF Told
  <1>3. CASE i # 1
    <2>1. UnwindTarget(i) = Unwind(i - 1)
      BY <1>3 DEF UnwindTarget
    <2>2. \A j, k \in Steps(s) : Unwind(i - 1) = Unwind(k) => (Is(s, j, "done")' <=> j <= k)
      <3>1. \A j \in Steps(s) : j < i <=> j <= i - 1
        BY <1>1
      <3> QED
        BY <3>1, Distinct
    <2> QED
      BY <1>1, <2>1, <2>2, Distinct DEF Told
  <1> QED
    BY <1>2, <1>3

\* A step that runs keeps the invariant.
LEMMA DoIInv ==
  ASSUME IInv, NEW s \in Sagas, NEW i \in Steps(s), Do(s, i)
  PROVE  IInv'
  <1> USE DEF Do
  <1>1. plan \in Plans /\ plan' = plan /\ "pending" \in Status /\ "done" \in Status
    BY DEF IInv, TypeOK, Status
  <1>2. /\ NextUp(i) \in ControlPlace(s) /\ AfterStep(s, i) \in ControlPlace(s)
        /\ NextUp(i) # AfterStep(s, i)
        /\ i < Len(plan.moves[s]) => i + 1 \in Steps(s)
    BY <1>1, Targets
  <1>0. PICK q \in ControlPlace(s) : q = AfterStep(s, i)
    BY <1>2
  <1>3. Steps(s)' = Steps(s) /\ Steps(s) = 1 .. Len(plan.moves[s])
        /\ Len(plan.moves[s]) \in Nat \ {0}
    BY <1>1, PlanType DEF Steps
  <1>4. ASSUME \A j \in Steps(s) : Told(s, NextUp(i), j), Is(s, i, "done")',
               \A z \in Status \ {"done"} : ~ Is(s, i, z)',
               \A j \in Steps(s) \ {i} : \A z \in Status : Is(s, j, z)' <=> Is(s, j, z)
        PROVE  \A j \in Steps(s) : Told(s, q, j)'
    <2>1. ASSUME NEW j \in Steps(s)
          PROVE  /\ j <= i => Is(s, j, "done")'
                 /\ j > i => Is(s, j, "pending")'
      <3>1. Is(s, j, IF j < i THEN "done" ELSE "pending")
        BY <1>4 DEF Told
      <3> QED
        BY <1>1, <1>3, <1>4, <3>1
    <2>2. CASE i < Len(plan.moves[s])
      <3>1. q = NextUp(i + 1)
        BY <1>0, <2>2 DEF AfterStep
      <3>2. ASSUME NEW j \in Steps(s), NEW k \in Steps(s), NextUp(i + 1) = NextUp(k)
            PROVE  Is(s, j, IF j < k THEN "done" ELSE "pending")'
        <4>1. k = i + 1
          BY <3>2, Distinct
        <4>2. j < k <=> j <= i
          BY <1>3, <4>1
        <4>3. j <= i \/ j > i
          BY <1>3
        <4> QED
          BY <2>1, <4>2, <4>3
      <3> QED
        BY <1>3, <3>1, <3>2, Distinct DEF Told
    <2>3. CASE ~ (i < Len(plan.moves[s]))
      <3>1. q = Committing
        BY <1>0, <2>3 DEF AfterStep
      <3>2. \A j \in Steps(s) : Is(s, j, "done")'
        BY <1>3, <2>1, <2>3
      <3> QED
        BY <3>1, <3>2, Distinct DEF Told
    <2> QED
      BY <2>2, <2>3
  <1>9. /\ Hand(s, NextUp(i), q) /\ Turn(s, i, "pending", "done")
        /\ NextUp(i) \in ControlPlace(s) /\ NextUp(i) # q /\ "pending" # "done"
    BY <1>0, <1>2
  <1> HIDE DEF Do
  <1>5. \A r \in Sagas : Ordered(r)'
    BY <1>1, <1>4, <1>9, StepOrdered
  <1> USE DEF Do
  <1>6. /\ \A r \in Sagas : control'[r] \in [ControlPlace(r)' -> Nat]
        /\ \A r \in Sagas : status'[r] \in [Steps(r)' -> [Status -> Nat]]
        /\ Shape'
    BY <1>0, <1>1, <1>2, StepType
  <1>7. balance' \in [Account -> Nat]
    BY <1>1, EffectType, PayType DEF IInv
  <1>8. TypeOK'
    BY <1>6, <1>7 DEF IInv, TypeOK
  <1> QED
    BY <1>5, <1>6, <1>8 DEF IInv

\* A step that fails keeps the invariant.
LEMMA FailIInv ==
  ASSUME IInv, NEW s \in Sagas, NEW i \in Steps(s), Fail(s, i)
  PROVE  IInv'
  <1> USE DEF Fail
  <1>1. plan \in Plans /\ plan' = plan /\ "pending" \in Status /\ "failed" \in Status
    BY DEF IInv, TypeOK, Status
  <1>2. /\ NextUp(i) \in ControlPlace(s) /\ UnwindTarget(i) \in ControlPlace(s)
        /\ NextUp(i) # UnwindTarget(i)
    BY <1>1, Targets
  <1>3. Steps(s)' = Steps(s) /\ Steps(s) = 1 .. Len(plan.moves[s])
        /\ Len(plan.moves[s]) \in Nat \ {0}
    BY <1>1, PlanType DEF Steps
  <1>4. ASSUME \A j \in Steps(s) : Told(s, NextUp(i), j), Is(s, i, "failed")',
               \A z \in Status \ {"failed"} : ~ Is(s, i, z)',
               \A j \in Steps(s) \ {i} : \A z \in Status : Is(s, j, z)' <=> Is(s, j, z)
        PROVE  \A j \in Steps(s) : Told(s, UnwindTarget(i), j)'
    <2>1. \A j \in Steps(s) : Is(s, j, IF j < i THEN "done" ELSE "pending")
      BY <1>4 DEF Told
    <2>2. "done" \in Status /\ "done" # "failed"
      BY DEF Status
    <2>3. ASSUME NEW j \in Steps(s)
          PROVE  Is(s, j, "done")' <=> j < i
      <3>1. CASE j = i
        BY <1>3, <1>4, <2>2, <3>1
      <3>2. CASE j # i
        <4>1. \A y, z \in Status : Is(s, j, y) /\ Is(s, j, z) => y = z
          <5>1. PICK v \in Status : Marked(s, j, v)
            BY DEF IInv, Ordered
          <5> QED
            BY <5>1, MarkAt
        <4>2. Is(s, j, "done") <=> j < i
          BY <1>1, <2>1, <2>2, <4>1
        <4> QED
          BY <1>4, <2>2, <3>2, <4>2
      <3> QED
        BY <3>1, <3>2
    <2> QED
      BY <1>1, <1>3, <2>3, UnwindTold
  <1>5. \A r \in Sagas : Ordered(r)'
    BY <1>1, <1>2, <1>4, StepOrdered
  <1>6. /\ \A r \in Sagas : control'[r] \in [ControlPlace(r)' -> Nat]
        /\ \A r \in Sagas : status'[r] \in [Steps(r)' -> [Status -> Nat]]
        /\ Shape'
    BY <1>1, <1>2, StepType
  <1>7. TypeOK'
    BY <1>6 DEF IInv, TypeOK
  <1> QED
    BY <1>5, <1>6, <1>7 DEF IInv

\* A compensation keeps the invariant.
LEMMA UndoIInv ==
  ASSUME IInv, NEW s \in Sagas, NEW i \in Steps(s), Undo(s, i)
  PROVE  IInv'
  <1> USE DEF Undo
  <1>1. plan \in Plans /\ plan' = plan /\ "done" \in Status /\ "compensated" \in Status
        /\ "done" # "compensated"
    BY DEF IInv, TypeOK, Status
  <1>2. /\ Unwind(i) \in ControlPlace(s) /\ UnwindTarget(i) \in ControlPlace(s)
        /\ Unwind(i) # UnwindTarget(i)
    BY <1>1, Targets
  <1>3. Steps(s)' = Steps(s) /\ Steps(s) = 1 .. Len(plan.moves[s])
        /\ Len(plan.moves[s]) \in Nat \ {0}
    BY <1>1, PlanType DEF Steps
  <1>4. ASSUME \A j \in Steps(s) : Told(s, Unwind(i), j), Is(s, i, "compensated")',
               \A z \in Status \ {"compensated"} : ~ Is(s, i, z)',
               \A j \in Steps(s) \ {i} : \A z \in Status : Is(s, j, z)' <=> Is(s, j, z)
        PROVE  \A j \in Steps(s) : Told(s, UnwindTarget(i), j)'
    <2>1. \A j \in Steps(s) : Is(s, j, "done") <=> j <= i
      BY <1>4 DEF Told
    <2>2. ASSUME NEW j \in Steps(s)
          PROVE  Is(s, j, "done")' <=> j < i
      <3>1. CASE j = i
        BY <1>1, <1>3, <1>4, <3>1
      <3>2. CASE j # i
        <4>1. j <= i <=> j < i
          BY <1>3, <3>2
        <4> QED
          BY <1>1, <1>4, <2>1, <3>2, <4>1
      <3> QED
        BY <3>1, <3>2
    <2> QED
      BY <1>1, <1>3, <2>2, UnwindTold
  <1>5. \A r \in Sagas : Ordered(r)'
    BY <1>1, <1>2, <1>4, StepOrdered
  <1>6. /\ \A r \in Sagas : control'[r] \in [ControlPlace(r)' -> Nat]
        /\ \A r \in Sagas : status'[r] \in [Steps(r)' -> [Status -> Nat]]
        /\ Shape'
    BY <1>1, <1>2, StepType
  <1>7. balance' \in [Account -> Nat]
    BY <1>1, EffectType, PayType DEF IInv
  <1>8. TypeOK'
    BY <1>6, <1>7 DEF IInv, TypeOK
  <1> QED
    BY <1>5, <1>6, <1>8 DEF IInv

\* Committing and failing to commit move the control token only.
LEMMA CommitIInv ==
  ASSUME IInv, NEW s \in Sagas, Commit(s) \/ FailCommit(s)
  PROVE  IInv'
  <1>1. plan \in Plans /\ UNCHANGED <<plan, status, balance, gone>>
    BY DEF IInv, TypeOK, Commit, FailCommit
  <1>2. Steps(s)' = Steps(s) /\ Steps(s) = 1 .. Len(plan.moves[s])
        /\ Len(plan.moves[s]) \in Steps(s) /\ Len(plan.moves[s]) \in Nat
    BY <1>1, PlanType DEF Steps
  <1>3. PICK q \in {Completed, Unwind(Len(plan.moves[s]))} : Hand(s, Committing, q)
    BY DEF Commit, FailCommit
  <1>4. Committing \in ControlPlace(s) /\ q \in ControlPlace(s) /\ Committing # q
    BY <1>2, <1>3, Distinct DEF ControlPlace
  <1>5. PICK w \in ControlPlace(s) : Stands(s, w) /\ \A j \in Steps(s) : Told(s, w, j)
    BY DEF IInv, Ordered
  <1>6. /\ w = Committing
        /\ Stands(s, q)'
        /\ control'[s] \in [ControlPlace(s) -> Nat]
        /\ \A r \in Sagas : r # s => control'[r] = control[r]
        /\ control' = [r \in Sagas |-> control'[r]]
    BY <1>1, <1>3, <1>4, <1>5, HandMoves DEF IInv
  <1>7. \A j \in Steps(s) : Is(s, j, "done")'
    BY <1>1, <1>5, <1>6 DEF Told, Is
  <1>8. \A j \in Steps(s) : Told(s, q, j)'
    <2>1. CASE q = Completed
      BY <1>7, <2>1, Distinct DEF Told
    <2>2. CASE q = Unwind(Len(plan.moves[s]))
      <3>1. ASSUME NEW i \in Steps(s), NEW j \in Steps(s), q = Unwind(i)
            PROVE  j <= i
        <4>1. i = Len(plan.moves[s])
          BY <2>2, <3>1 DEF Unwind
        <4> QED
          BY <1>2, <4>1
      <3>2. q \notin {Committing, Completed, RolledBack} /\ \A i : q # NextUp(i)
        BY <2>2, Distinct
      <3> QED
        BY <1>2, <1>7, <3>1, <3>2 DEF Told
    <2> QED
      BY <1>3, <2>1, <2>2
  <1>9. \A r \in Sagas : Steps(r)' = Steps(r) /\ ControlPlace(r)' = ControlPlace(r)
    BY <1>1 DEF ControlPlace, Steps
  <1>10. Ordered(s)'
    <2>1. \A j \in Steps(s) : \E x \in Status : Marked(s, j, x)'
      BY <1>1 DEF IInv, Ordered, Marked
    <2> QED
      BY <1>4, <1>6, <1>8, <1>9, <2>1 DEF Ordered
  <1>11. \A r \in Sagas : r # s => Ordered(r)'
    BY <1>1, <1>6, OthersOrdered DEF IInv
  <1>12. TypeOK' /\ Shape'
    BY <1>1, <1>6, <1>9 DEF IInv, TypeOK, Shape
  <1> QED
    BY <1>10, <1>11, <1>12 DEF IInv

\* Spending by others keeps the invariant.
LEMMA SpendIInv ==
  ASSUME IInv, NEW a \in Account, Spend(a)
  PROVE  IInv'
  <1> USE DEF Spend
  <1>1. balance' \in [Account -> Nat] /\ gone' \in [Account -> Nat]
    BY DEF IInv, TypeOK
  <1>2. \A r \in Sagas : Steps(r)' = Steps(r) /\ ControlPlace(r)' = ControlPlace(r)
    BY DEF ControlPlace, Steps
  <1>3. TypeOK' /\ Shape'
    BY <1>1, <1>2 DEF IInv, TypeOK, Shape
  <1>4. \A r \in Sagas : Ordered(r)'
    BY OthersOrdered DEF IInv
  <1> QED
    BY <1>3, <1>4 DEF IInv

\* Every step keeps the invariant.
LEMMA NextIInv == IInv /\ [Next]_vars => IInv'
  <1> SUFFICES ASSUME IInv, [Next]_vars PROVE IInv'
    OBVIOUS
  <1>1. ASSUME NEW s \in Sagas, NEW i \in Steps(s), Do(s, i) PROVE IInv'
    BY <1>1, DoIInv
  <1>2. ASSUME NEW s \in Sagas, NEW i \in Steps(s), Fail(s, i) PROVE IInv'
    BY <1>2, FailIInv
  <1>3. ASSUME NEW s \in Sagas, NEW i \in Steps(s), Undo(s, i) PROVE IInv'
    BY <1>3, UndoIInv
  <1>4. ASSUME NEW s \in Sagas, Commit(s) \/ FailCommit(s) PROVE IInv'
    BY <1>4, CommitIInv
  <1>5. ASSUME NEW a \in Account, Spend(a) PROVE IInv'
    BY <1>5, SpendIInv
  <1>6. CASE UNCHANGED vars
    <2>1. \A r \in Sagas : Ordered(r)'
      BY <1>6, OthersOrdered DEF vars, IInv
    <2> QED
      BY <1>6, <2>1 DEF vars, IInv, TypeOK, Shape, Steps, ControlPlace
  <1> QED
    BY <1>1, <1>2, <1>3, <1>4, <1>5, <1>6 DEF Next, Step

-----------------------------------------------------------------------------
(* The theorems. *)

\* Every reachable state satisfies the inductive invariant.
THEOREM Invariance == Spec => []IInv
  BY InitIInv, NextIInv, PTL DEF Spec

\* The state keeps its type: no account is ever overdrawn, for any number of
\* sagas and spenders on it (saga.rs add_transitions, net_delta).
THEOREM TypeCorrect == Spec => []TypeOK
  <1>1. IInv => TypeOK
    BY DEF IInv
  <1> QED
    BY <1>1, Invariance, PTL

\* The saga_control and saga_step constraints are invariants of every saga
\* (saga.rs add_constraints).
THEOREM SingleToken == Spec => []OneToken
  <1>1. IInv => OneToken
    BY DEF IInv, Ordered, Stands, Marked, OneToken
  <1> QED
    BY <1>1, Invariance, PTL

\* Compensation runs in the reverse order and leaves no step that ran out
\* (saga.rs unwind_target, add_transitions).
THEOREM CompensatesInOrder == Spec => []InOrder
  <1>1. IInv => InOrder
    <2> SUFFICES ASSUME IInv, NEW s \in Sagas, NEW i \in Steps(s), NEW j \in Steps(s)
                 PROVE  /\ At(s, NextUp(i)) => Is(s, j, IF j < i THEN "done" ELSE "pending")
                        /\ At(s, Unwind(i)) => (Is(s, j, "done") <=> j <= i)
                        /\ At(s, Committing) \/ At(s, Completed) => Is(s, j, "done")
                        /\ At(s, RolledBack) => ~ Is(s, j, "done")
      BY DEF InOrder
    <2>1. PICK w \in ControlPlace(s) : Stands(s, w) /\ Told(s, w, j)
      BY DEF IInv, Ordered
    <2>2. \A q \in ControlPlace(s) : At(s, q) => q = w
      BY <2>1, TokenAt
    <2>3. {NextUp(i), Unwind(i), Committing, Completed, RolledBack} \subseteq ControlPlace(s)
      BY DEF ControlPlace
    <2> QED
      BY <2>1, <2>2, <2>3 DEF Told
  <1> QED
    BY <1>1, Invariance, PTL

\* A saga is never stuck but on a compensation that is owed tokens: whatever
\* others do to the accounts, going forward it can always run or fail.  That the
\* account is one somebody else takes from (StrandedByOthers) follows further on.
StrandedUnwinding ==
  \A s \in Sagas :
    Stuck(s) => \E i \in Steps(s) : \E a \in Account :
                  At(s, Unwind(i)) /\ Effect(s, i)[a] > balance[a]

\* A saga that is stuck is unwinding.
LEMMA StuckUnwinding == IInv => StrandedUnwinding
  <1> SUFFICES ASSUME IInv, NEW s \in Sagas, Stuck(s)
               PROVE  \E i \in Steps(s) : \E a \in Account :
                        At(s, Unwind(i)) /\ Effect(s, i)[a] > balance[a]
    BY DEF StrandedUnwinding
  <1>1. PICK w \in ControlPlace(s) : Stands(s, w) /\ \A j \in Steps(s) : Told(s, w, j)
    BY DEF IInv, Ordered
  <1>2. At(s, w)
    BY <1>1, TokenAt
  <1>3. plan \in Plans /\ Steps(s) \subseteq Nat \ {0} /\ balance \in [Account -> Nat]
    BY PlanType DEF IInv, TypeOK
  <1>4. w \notin {Committing, Completed, RolledBack}
    BY <1>2 DEF Stuck, Over
  <1>5. \A i \in Steps(s) : w # NextUp(i)
    <2>1. ASSUME NEW i \in Steps(s), w = NextUp(i)
          PROVE  Is(s, i, "pending")
      <3>1. Is(s, i, IF i < i THEN "done" ELSE "pending")
        BY <1>1, <2>1 DEF Told
      <3>2. ~ (i < i)
        BY <1>3
      <3> QED
        BY <3>1, <3>2
    <2> QED
      BY <1>2, <2>1 DEF Stuck
  <1>6. PICK i \in Steps(s) : w = Unwind(i)
    BY <1>4, <1>5 DEF ControlPlace
  <1>7. Is(s, i, "done")
    <2>1. Is(s, i, "done") <=> i <= i
      BY <1>1, <1>6 DEF Told
    <2> QED
      BY <1>3, <2>1
  <1>8. ~ Affords(Reversal(s, i))
    BY <1>2, <1>6, <1>7 DEF Stuck
  <1>9. PICK a \in Account : ~ (balance[a] + Reversal(s, i)[a] >= 0)
    BY <1>8 DEF Affords
  <1>10. Effect(s, i)[a] \in Int /\ Reversal(s, i)[a] = 0 - Effect(s, i)[a] /\ balance[a] \in Int
    BY <1>3, EffectType DEF Reversal
  <1>11. Effect(s, i)[a] > balance[a]
    BY <1>9, <1>10
  <1> QED
    BY <1>2, <1>6, <1>11

\* No saga wedges on its way forward (saga.rs add_transitions: fail_i consumes
\* no funds).
THEOREM NeverStuckForward == Spec => []StrandedUnwinding
  BY StuckUnwinding, Invariance, PTL

-----------------------------------------------------------------------------
(* The books: sums over the steps that are done. *)

\* What the steps of s do to account a.
Entries(s, a) == [i \in Steps(s) |-> Effect(s, i)[a]]

\* Nobody but s has to do with account a.
Alone(s, a) ==
  /\ a \notin plan.spendable
  /\ \A r \in Sagas \ {s} : \A i \in Steps(r) : Effect(r, i)[a] = 0

\* What the steps of s before step i do to account a.
Before(s, i, a) == SumFunctionOnSet(Entries(s, a), 1 .. i - 1)

\* Only what may be spent was.
SpentRight == \A a \in Account : gone[a] > 0 => a \in plan.spendable

\* A step ran on what the steps before it had left; where nobody else is, that
\* is as true later.
Afforded ==
  \A s \in Sagas : \A a \in Account : Alone(s, a) =>
    \A i \in Steps(s) : Is(s, i, "done") => plan.opening[a] + Before(s, i, a) >= 0

Books == Accounted /\ SpentRight /\ Afforded

\* What a saga's steps enter into an account are numbers.
LEMMA EntriesType ==
  ASSUME plan \in Plans, NEW s \in Sagas, NEW a \in Account
  PROVE  /\ IsFiniteSet(Steps(s))
         /\ \A i \in Steps(s) : Entries(s, a)[i] = Effect(s, i)[a] /\ Entries(s, a)[i] \in Int
         /\ \A K \in SUBSET Steps(s) : /\ IsFiniteSet(K)
                                       /\ SumFunctionOnSet(Entries(s, a), K) \in Int
  <1>1. Len(plan.moves[s]) \in Nat /\ Steps(s) = 1 .. Len(plan.moves[s])
    BY PlanType DEF Steps
  <1>2. \A i \in Steps(s) : Entries(s, a)[i] = Effect(s, i)[a] /\ Entries(s, a)[i] \in Int
    BY EffectType DEF Entries
  <1>3. ASSUME NEW K \in SUBSET Steps(s)
        PROVE  IsFiniteSet(K) /\ SumFunctionOnSet(Entries(s, a), K) \in Int
    <2>1. IsFiniteSet(K)
      BY <1>1, Positions
    <2> QED
      BY <1>2, <2>1, SumIsInt
  <1> QED
    BY <1>2, <1>3

\* The sum of some steps' effects is that of their entries.
LEMMA Summed ==
  ASSUME plan \in Plans, NEW s \in Sagas, NEW a \in Account, NEW D \in SUBSET Steps(s)
  PROVE  SumFunction([i \in D |-> Effect(s, i)[a]]) = SumFunctionOnSet(Entries(s, a), D)
  <1> DEFINE f == [i \in D |-> Effect(s, i)[a]]
  <1>1. \A i \in D : f[i] \in Int /\ f[i] = Entries(s, a)[i]
    BY EntriesType
  <1>2. IsFiniteSet(D)
    BY EntriesType
  <1>3. DOMAIN f = D
    OBVIOUS
  <1>4. SumFunction(f) = SumFunctionOnSet(f, D)
    BY <1>3 DEF SumFunction
  <1> HIDE DEF f
  <1>5. SumFunctionOnSet(f, D) = SumFunctionOnSet(Entries(s, a), D)
    BY <1>1, <1>2, SumSame
  <1> QED
    BY <1>4, <1>5 DEF f

\* What s has left in account a is the sum of its entries that are done, now and
\* after a step.
LEMMA LeftIs ==
  ASSUME plan \in Plans, NEW s \in Sagas, NEW a \in Account
  PROVE  /\ Done(s) \in SUBSET Steps(s)
         /\ Left(s, a) = SumFunctionOnSet(Entries(s, a), Done(s))
         /\ Left(s, a) \in Int
         /\ plan' = plan => Left(s, a)' = SumFunctionOnSet(Entries(s, a), Done(s)')
  <1>1. Done(s) \in SUBSET Steps(s)
    BY DEF Done
  <1>2. Left(s, a) = SumFunctionOnSet(Entries(s, a), Done(s))
    BY <1>1, Summed DEF Left
  <1>3. Left(s, a) \in Int
    BY <1>1, <1>2, EntriesType
  <1>4. ASSUME plan' = plan
        PROVE  Left(s, a)' = SumFunctionOnSet(Entries(s, a), Done(s)')
    <2>1. PICK D \in SUBSET Steps(s) : D = Done(s)'
      BY <1>4 DEF Done, Steps
    <2>2. Left(s, a)' = SumFunction([i \in D |-> Effect(s, i)[a]])
      BY <1>4, <2>1 DEF Left, Effect
    <2> QED
      BY <2>1, <2>2, Summed
  <1> QED
    BY <1>1, <1>2, <1>3, <1>4

\* What every saga has left in account a, together.
LEMMA AllLeft ==
  ASSUME plan \in Plans, NEW a \in Account, NEW f, f = [s \in Sagas |-> Left(s, a)]
  PROVE  /\ \A s \in Sagas : f[s] = Left(s, a) /\ f[s] \in Int
         /\ SumFunction(f) = SumFunctionOnSet(f, Sagas)
         /\ SumFunction(f) \in Int
  <1>1. \A s \in Sagas : f[s] = Left(s, a) /\ f[s] \in Int
    BY LeftIs
  <1>2. SumFunction(f) = SumFunctionOnSet(f, Sagas)
    BY DEF SumFunction
  <1>3. SumFunctionOnSet(f, Sagas) \in Int
    BY <1>1, SagasAssumption, SumIsInt
  <1> QED
    BY <1>1, <1>2, <1>3

\* A step of s that adds d to the accounts, and to what s has left there.
LEMMA AccountedStep ==
  ASSUME IInv, Accounted, plan' = plan, gone' = gone, NEW s \in Sagas,
         NEW d, \A a \in Account : d[a] \in Int,
         balance' = [a \in Account |-> balance[a] + d[a]],
         \A r \in Sagas \ {s} : \A a \in Account : Left(r, a)' = Left(r, a),
         \A a \in Account : Left(s, a)' = Left(s, a) + d[a]
  PROVE  Accounted'
  <1> SUFFICES ASSUME NEW a \in Account
               PROVE  balance'[a] + gone'[a] =
                        plan'.opening[a] + SumFunction([r \in Sagas |-> Left(r, a)'])
    BY DEF Accounted
  <1>1. plan \in Plans /\ plan' \in Plans /\ balance[a] \in Int /\ gone[a] \in Int
    BY DEF IInv, TypeOK
  <1>2. plan.opening[a] \in Int
    BY <1>1, PlansAssumption DEF Plan
  <1> DEFINE f == [r \in Sagas |-> Left(r, a)]
             g == [r \in Sagas |-> Left(r, a)']
  <1>3. /\ \A r \in Sagas : f[r] = Left(r, a) /\ f[r] \in Int
        /\ SumFunction(f) = SumFunctionOnSet(f, Sagas)
        /\ SumFunction(f) \in Int
    BY <1>1, AllLeft
  <1>4. /\ \A r \in Sagas \ {s} : g[r] = f[r]
        /\ g[s] = f[s] + d[a]
    OBVIOUS
  <1>5. SumFunction(g) = SumFunctionOnSet(g, Sagas)
    BY DEF SumFunction
  <1>6. balance[a] + gone[a] = plan.opening[a] + SumFunction(f)
    BY DEF Accounted
  <1> HIDE DEF f, g
  <1>7. \A r \in Sagas : f[r] \in Int /\ g[r] \in Int
    BY <1>3, <1>4
  <1>8. SumFunctionOnSet(g, Sagas) = SumFunctionOnSet(f, Sagas) + (g[s] - f[s])
    BY <1>4, <1>7, SagasAssumption, SumChange
  <1>9. SumFunction(g) = SumFunction(f) + d[a]
    BY <1>3, <1>4, <1>5, <1>7, <1>8
  <1> QED
    BY <1>1, <1>2, <1>3, <1>6, <1>9 DEF g

\* Turning one step's token on turns nothing else.
LEMMA TurnDone ==
  ASSUME IInv, plan' = plan, NEW s \in Sagas, NEW i \in Steps(s),
         NEW x \in Status, NEW y \in Status, x # y, Turn(s, i, x, y)
  PROVE  /\ \A r \in Sagas \ {s} : Done(r)' = Done(r)
         /\ Is(s, i, "done") <=> x = "done"
         /\ \A j \in Steps(s) : Is(s, j, "done")' <=> IF j = i THEN y = "done" ELSE Is(s, j, "done")
         /\ Done(s)' = IF y = "done" THEN Done(s) \cup {i} ELSE Done(s) \ {i}
         /\ Steps(s)' = Steps(s)
  <1>1. PICK v \in Status : Marked(s, i, v)
    BY DEF IInv, Ordered
  <1>2. /\ v = x
        /\ Marked(s, i, y)'
        /\ \A j \in Steps(s) : j # i => status'[s][j] = status[s][j]
        /\ \A r \in Sagas : r # s => status'[r] = status[r]
    BY <1>1, TurnMoves DEF IInv
  <1>3. "done" \in Status
    BY DEF Status
  <1>4. Is(s, i, "done") <=> x = "done"
    BY <1>1, <1>2, <1>3, MarkAt
  <1>5. Is(s, i, "done")' <=> y = "done"
    BY <1>2, <1>3 DEF Marked, Is
  <1>6. \A j \in Steps(s) : j # i => (Is(s, j, "done")' <=> Is(s, j, "done"))
    BY <1>2 DEF Is
  <1>7. \A r \in Sagas : Steps(r)' = Steps(r)
    BY DEF Steps
  <1>8. \A r \in Sagas \ {s} : Done(r)' = Done(r)
    BY <1>2, <1>7 DEF Done, Is
  <1>9. Done(s)' = IF y = "done" THEN Done(s) \cup {i} ELSE Done(s) \ {i}
    BY <1>5, <1>6, <1>7 DEF Done
  <1> QED
    BY <1>4, <1>5, <1>6, <1>7, <1>8, <1>9

\* What depends on the plan alone stays.
LEMMA PlanKept ==
  ASSUME plan' = plan
  PROVE  /\ \A s, a : Entries(s, a)' = Entries(s, a)
         /\ \A s, a : Alone(s, a)' <=> Alone(s, a)
         /\ \A s, i, a : Before(s, i, a)' = Before(s, i, a)
         /\ \A s : Steps(s)' = Steps(s)
  BY DEF Entries, Alone, Before, Effect, Steps

\* A saga none of whose steps is done or undone has left what it had.
LEMMA LeftKept ==
  ASSUME plan' = plan, NEW s \in Sagas, Done(s)' = Done(s)
  PROVE  \A a \in Account : Left(s, a)' = Left(s, a)
  BY DEF Left, Effect

\* The books balance at first.
LEMMA InitBooks ==
  ASSUME Init
  PROVE  Books
  <1>1. IInv
    BY InitIInv
  <1>2. plan \in Plans
    BY DEF Init
  <1>3. ASSUME NEW s \in Sagas
        PROVE  Done(s) = {}
    BY DEF Init, Done, Is, Status
  <1>4. ASSUME NEW a \in Account
        PROVE  balance[a] + gone[a] = plan.opening[a] + SumFunction([s \in Sagas |-> Left(s, a)])
    <2> DEFINE f == [s \in Sagas |-> Left(s, a)]
               z == [s \in Sagas |-> 0]
    <2>1. \A s \in Sagas : Left(s, a) = 0
      BY <1>2, <1>3, LeftIs, SumEmpty
    <2>2. SumFunction(f) = SumFunctionOnSet(f, Sagas)
      BY DEF SumFunction
    <2>3. SumFunctionOnSet(f, Sagas) = 0
      <3>1. \A s \in Sagas : f[s] = 0
        BY <2>1
      <3> HIDE DEF f
      <3> QED
        BY <3>1, SagasAssumption, SumZero
    <2>4. plan.opening[a] \in Int /\ balance[a] = plan.opening[a] /\ gone[a] = 0
      BY <1>2, PlansAssumption DEF Init, Plan
    <2> QED
      BY <2>2, <2>3, <2>4
  <1>5. SpentRight
    BY DEF SpentRight, Init
  <1>6. Afforded
    BY <1>3 DEF Afforded, Done
  <1> QED
    BY <1>4, <1>5, <1>6 DEF Books, Accounted

\* A step that runs keeps the books.
LEMMA DoBooks ==
  ASSUME IInv, Books, NEW s \in Sagas, NEW i \in Steps(s), Do(s, i)
  PROVE  Books'
  <1>1. plan \in Plans /\ plan' = plan /\ gone' = gone /\ "pending" \in Status /\ "done" \in Status
    BY DEF IInv, TypeOK, Status, Do
  <1>2. /\ \A r \in Sagas \ {s} : Done(r)' = Done(r)
        /\ ~ Is(s, i, "done")
        /\ \A j \in Steps(s) : Is(s, j, "done")' <=> j = i \/ Is(s, j, "done")
        /\ Done(s)' = Done(s) \cup {i}
    <2>1. Turn(s, i, "pending", "done") /\ "pending" # "done"
      BY DEF Do
    <2> QED
      BY <1>1, <2>1, TurnDone
  <1>3. \A r \in Sagas \ {s} : \A a \in Account : Left(r, a)' = Left(r, a)
    BY <1>1, <1>2, LeftKept
  <1>4. ASSUME NEW a \in Account
        PROVE  Left(s, a)' = Left(s, a) + Effect(s, i)[a]
    <2> DEFINE e == Entries(s, a)
    <2>1. Left(s, a) = SumFunctionOnSet(e, Done(s)) /\ Done(s) \in SUBSET Steps(s)
      BY <1>1, LeftIs
    <2>2. Left(s, a)' = SumFunctionOnSet(e, Done(s) \cup {i})
      BY <1>1, <1>2, LeftIs
    <2>3. IsFiniteSet(Done(s)) /\ i \notin Done(s) /\ e[i] = Effect(s, i)[a]
      BY <1>1, <1>2, <2>1, EntriesType DEF Done
    <2>4. \A j \in Done(s) \cup {i} : e[j] \in Int
      BY <1>1, <2>1, EntriesType
    <2> HIDE DEF e
    <2>5. SumFunctionOnSet(e, Done(s) \cup {i}) = SumFunctionOnSet(e, Done(s)) + e[i]
      BY <2>3, <2>4, SumIn
    <2> QED
      BY <2>1, <2>2, <2>3, <2>5
  <1>5. /\ \A a \in Account : Effect(s, i)[a] \in Int
        /\ balance' = [a \in Account |-> balance[a] + Effect(s, i)[a]]
    BY <1>1, EffectType DEF Do, Pay
  <1>6. Accounted'
    BY <1>1, <1>3, <1>4, <1>5, AccountedStep DEF Books
  <1>7. SpentRight'
    BY <1>1 DEF Books, SpentRight
  <1>8. Afforded'
    <2> SUFFICES ASSUME NEW r \in Sagas, NEW a \in Account, Alone(r, a),
                        NEW j \in Steps(r), Is(r, j, "done")'
                 PROVE  plan.opening[a] + Before(r, j, a) >= 0
      BY <1>1, PlanKept DEF Afforded
    <2>1. CASE Is(r, j, "done")
      BY <2>1 DEF Books, Afforded
    <2>2. CASE ~ Is(r, j, "done")
      <3>1. r = s /\ j = i
        BY <1>1, <1>2, <2>2, PlanKept DEF Done
      <3>2. Done(s) = 1 .. i - 1
        <4>1. PICK w \in ControlPlace(s) : Stands(s, w) /\ \A k \in Steps(s) : Told(s, w, k)
          BY DEF IInv, Ordered
        <4>2. w = NextUp(i)
          <5>1. NextUp(i) \in ControlPlace(s) /\ control[s][NextUp(i)] >= 1
            BY DEF Do, Hand, ControlPlace
          <5> QED
            BY <4>1, <5>1, TokenAt
        <4>3. \A k \in Steps(s) : Is(s, k, IF k < i THEN "done" ELSE "pending")
          BY <4>1, <4>2 DEF Told
        <4>4. \A k \in Steps(s) : Is(s, k, "done") <=> k < i
          <5> SUFFICES ASSUME NEW k \in Steps(s) PROVE Is(s, k, "done") <=> k < i
            OBVIOUS
          <5>1. PICK v \in Status : Marked(s, k, v)
            BY DEF IInv, Ordered
          <5> QED
            BY <1>1, <4>3, <5>1, MarkAt
        <4>5. Steps(s) = 1 .. Len(plan.moves[s]) /\ Len(plan.moves[s]) \in Nat
          BY <1>1, PlanType DEF Steps
        <4> QED
          BY <4>4, <4>5 DEF Done
      <3>3. Left(s, a) = Before(s, i, a)
        BY <1>1, <3>2, LeftIs DEF Before
      <3>4. \A q \in Sagas \ {s} : Left(q, a) = 0
        <4> SUFFICES ASSUME NEW q \in Sagas \ {s} PROVE Left(q, a) = 0
          OBVIOUS
        <4>1. \A k \in Done(q) : Entries(q, a)[k] = 0
          BY <1>1, <3>1, EntriesType, LeftIs DEF Alone
        <4>2. IsFiniteSet(Done(q))
          BY <1>1, LeftIs, EntriesType
        <4> QED
          BY <1>1, <4>1, <4>2, LeftIs, SumZero
      <3>5. SumFunction([q \in Sagas |-> Left(q, a)]) = Left(s, a)
        <4>1. PICK f : f = [q \in Sagas |-> Left(q, a)]
          OBVIOUS
        <4>2. \A q \in Sagas : f[q] \in Int
          BY <1>1, <4>1, LeftIs
        <4>3. SumFunctionOnSet(f, Sagas) = f[s] + SumFunctionOnSet(f, Sagas \ {s})
          BY <4>2, SagasAssumption, SumOut
        <4>4. SumFunctionOnSet(f, Sagas \ {s}) = 0
          <5>1. IsFiniteSet(Sagas \ {s}) /\ \A q \in Sagas \ {s} : f[q] = 0
            BY <3>4, <4>1, SagasAssumption, FS_Difference
          <5> QED
            BY <5>1, SumZero
        <4> QED
          BY <1>1, <4>1, <4>2, <4>3, <4>4, AllLeft
      <3>6. gone[a] = 0 /\ balance[a] >= 0 /\ balance[a] \in Int
        BY <3>1 DEF Alone, Books, SpentRight, IInv, TypeOK
      <3>7. balance[a] + gone[a] = plan.opening[a] + Left(s, a)
        BY <3>5 DEF Books, Accounted
      <3> QED
        BY <3>1, <3>3, <3>6, <3>7
    <2> QED
      BY <2>1, <2>2
  <1> QED
    BY <1>6, <1>7, <1>8 DEF Books

\* A step that makes nothing done and moves nothing.
LEMMA IdleBooks ==
  ASSUME IInv, Books, plan' = plan, gone' = gone, balance' = balance,
         \A r \in Sagas : Done(r)' = Done(r)
  PROVE  Books'
  <1>1. \A r \in Sagas : \A a \in Account : Left(r, a)' = Left(r, a)
    BY LeftKept
  <1>2. ASSUME NEW a \in Account
        PROVE  [r \in Sagas |-> Left(r, a)'] = [r \in Sagas |-> Left(r, a)]
    BY <1>1
  <1>3. Accounted'
    BY <1>2 DEF Books, Accounted
  <1>4. SpentRight'
    BY DEF Books, SpentRight
  <1>5. \A r \in Sagas : \A j \in Steps(r) : Is(r, j, "done")' => Is(r, j, "done")
    BY PlanKept DEF Done
  <1>6. Afforded'
    BY <1>5, PlanKept DEF Books, Afforded
  <1> QED
    BY <1>3, <1>4, <1>6 DEF Books

\* A compensation keeps the books.
LEMMA UndoBooks ==
  ASSUME IInv, Books, NEW s \in Sagas, NEW i \in Steps(s), Undo(s, i)
  PROVE  Books'
  <1>1. plan \in Plans /\ plan' = plan /\ gone' = gone /\ "compensated" \in Status /\ "done" \in Status
    BY DEF IInv, TypeOK, Status, Undo
  <1>2. /\ \A r \in Sagas \ {s} : Done(r)' = Done(r)
        /\ Is(s, i, "done")
        /\ Done(s)' = Done(s) \ {i}
    <2>1. Turn(s, i, "done", "compensated") /\ "compensated" # "done"
      BY DEF Undo
    <2> QED
      BY <1>1, <2>1, TurnDone
  <1>3. \A r \in Sagas \ {s} : \A a \in Account : Left(r, a)' = Left(r, a)
    BY <1>1, <1>2, LeftKept
  <1>4. ASSUME NEW a \in Account
        PROVE  Left(s, a)' = Left(s, a) + Reversal(s, i)[a]
    <2> DEFINE e == Entries(s, a)
    <2>1. Left(s, a) = SumFunctionOnSet(e, Done(s)) /\ Done(s) \in SUBSET Steps(s)
      BY <1>1, LeftIs
    <2>2. Left(s, a)' = SumFunctionOnSet(e, Done(s) \ {i})
      BY <1>1, <1>2, LeftIs
    <2>3. IsFiniteSet(Done(s)) /\ i \in Done(s) /\ e[i] = Effect(s, i)[a]
      BY <1>1, <1>2, <2>1, EntriesType DEF Done
    <2>4. \A j \in Done(s) : e[j] \in Int
      BY <1>1, <2>1, EntriesType
    <2>6. SumFunctionOnSet(e, Done(s) \ {i}) \in Int
      BY <1>1, <2>1, EntriesType
    <2>7. Reversal(s, i)[a] = 0 - Effect(s, i)[a] /\ Effect(s, i)[a] \in Int
      BY <1>1, EffectType DEF Reversal
    <2> HIDE DEF e
    <2>5. SumFunctionOnSet(e, Done(s)) = e[i] + SumFunctionOnSet(e, Done(s) \ {i})
      BY <2>3, <2>4, SumOut
    <2> QED
      BY <2>1, <2>2, <2>3, <2>5, <2>6, <2>7
  <1>5. /\ \A a \in Account : Reversal(s, i)[a] \in Int
        /\ balance' = [a \in Account |-> balance[a] + Reversal(s, i)[a]]
    BY <1>1, EffectType DEF Undo, Pay
  <1>6. Accounted'
    BY <1>1, <1>3, <1>4, <1>5, AccountedStep DEF Books
  <1>7. SpentRight'
    BY <1>1 DEF Books, SpentRight
  <1>8. \A r \in Sagas : \A j \in Steps(r) : Is(r, j, "done")' => Is(r, j, "done")
    BY <1>1, <1>2, PlanKept DEF Done
  <1>9. Afforded'
    BY <1>1, <1>8, PlanKept DEF Books, Afforded
  <1> QED
    BY <1>6, <1>7, <1>9 DEF Books

\* Spending by others keeps the books.
LEMMA SpendBooks ==
  ASSUME IInv, Books, NEW b \in Account, Spend(b)
  PROVE  Books'
  <1> USE DEF Spend
  <1>1. \A r \in Sagas : Done(r)' = Done(r)
    BY DEF Done, Is, Steps
  <1>2. \A r \in Sagas : \A a \in Account : Left(r, a)' = Left(r, a)
    BY <1>1, LeftKept
  <1>3. \A a \in Account : [r \in Sagas |-> Left(r, a)'] = [r \in Sagas |-> Left(r, a)]
    BY <1>2
  <1>4. \A a \in Account : balance'[a] + gone'[a] = balance[a] + gone[a]
    BY DEF IInv, TypeOK
  <1>5. Accounted'
    BY <1>3, <1>4 DEF Books, Accounted
  <1>6. SpentRight'
    BY DEF Books, SpentRight, IInv, TypeOK
  <1>7. \A r \in Sagas : \A j \in Steps(r) : Is(r, j, "done")' => Is(r, j, "done")
    BY DEF Is
  <1>8. Afforded'
    BY <1>7, PlanKept DEF Books, Afforded
  <1> QED
    BY <1>5, <1>6, <1>8 DEF Books

\* Every step keeps the books.
LEMMA NextBooks == IInv /\ Books /\ [Next]_vars => Books'
  <1> SUFFICES ASSUME IInv, Books, [Next]_vars PROVE Books'
    OBVIOUS
  <1>1. ASSUME NEW s \in Sagas, NEW i \in Steps(s), Do(s, i) PROVE Books'
    BY <1>1, DoBooks
  <1>2. ASSUME NEW s \in Sagas, NEW i \in Steps(s), Fail(s, i) PROVE Books'
    <2>1. plan' = plan /\ gone' = gone /\ balance' = balance
          /\ Turn(s, i, "pending", "failed") /\ "pending" \in Status /\ "failed" \in Status
      BY <1>2 DEF Fail, Status
    <2>2. \A r \in Sagas : Done(r)' = Done(r)
      <3>1. /\ \A r \in Sagas \ {s} : Done(r)' = Done(r)
            /\ ~ Is(s, i, "done")
            /\ Done(s)' = Done(s) \ {i}
        BY <2>1, TurnDone
      <3> QED
        BY <3>1 DEF Done
    <2> QED
      BY <2>1, <2>2, IdleBooks
  <1>3. ASSUME NEW s \in Sagas, NEW i \in Steps(s), Undo(s, i) PROVE Books'
    BY <1>3, UndoBooks
  <1>4. ASSUME NEW s \in Sagas, Commit(s) \/ FailCommit(s) PROVE Books'
    <2>1. plan' = plan /\ gone' = gone /\ balance' = balance /\ status' = status
      BY <1>4 DEF Commit, FailCommit
    <2>2. \A r \in Sagas : Done(r)' = Done(r)
      BY <2>1 DEF Done, Is, Steps
    <2> QED
      BY <2>1, <2>2, IdleBooks
  <1>5. ASSUME NEW a \in Account, Spend(a) PROVE Books'
    BY <1>5, SpendBooks
  <1>6. CASE UNCHANGED vars
    <2>1. \A r \in Sagas : Done(r)' = Done(r)
      BY <1>6 DEF Done, Is, Steps, vars
    <2> QED
      BY <1>6, <2>1, IdleBooks DEF vars
  <1> QED
    BY <1>1, <1>2, <1>3, <1>4, <1>5, <1>6 DEF Next, Step

\* The books balance in every reachable state.
THEOREM BooksBalance == Spec => []Books
  <1>1. Init => Books
    BY InitBooks
  <1> QED
    BY <1>1, Invariance, NextBooks, PTL DEF Spec

\* Every account holds what it opened with, what was done to it and not
\* compensated, less what was spent, for any number of sagas, accounts and plans
\* (saga.rs add_transitions, net_delta).
THEOREM NothingLost == Spec => []Accounted
  <1>1. Books => Accounted
    BY DEF Books
  <1> QED
    BY <1>1, BooksBalance, PTL

-----------------------------------------------------------------------------
(* Who strands a saga. *)

\* A saga that stands on the compensation of step i has done the steps up to i.
LEMMA DoneUpTo ==
  ASSUME IInv, NEW s \in Sagas, NEW i \in Steps(s), At(s, Unwind(i))
  PROVE  Done(s) = 1 .. i
  <1>1. PICK w \in ControlPlace(s) : Stands(s, w) /\ \A j \in Steps(s) : Told(s, w, j)
    BY DEF IInv, Ordered
  <1>2. w = Unwind(i)
    <2>1. Unwind(i) \in ControlPlace(s)
      BY DEF ControlPlace
    <2> QED
      BY <1>1, <2>1, TokenAt
  <1>3. \A j \in Steps(s) : Is(s, j, "done") <=> j <= i
    BY <1>1, <1>2 DEF Told
  <1>4. Steps(s) = 1 .. Len(plan.moves[s]) /\ Len(plan.moves[s]) \in Nat
    BY PlanType DEF Steps, IInv, TypeOK
  <1> QED
    BY <1>3, <1>4 DEF Done

\* What the others have left where none of them takes anything is no debt.
LEMMA OthersPayIn ==
  ASSUME plan \in Plans, NEW s \in Sagas, NEW a \in Account,
         \A r \in Sagas \ {s} : \A i \in Steps(r) : Effect(r, i)[a] >= 0
  PROVE  SumFunction([r \in Sagas |-> Left(r, a)]) - Left(s, a) >= 0
  <1>1. PICK f : f = [r \in Sagas |-> Left(r, a)]
    OBVIOUS
  <1>2. \A r \in Sagas : f[r] = Left(r, a) /\ f[r] \in Int
    BY <1>1, LeftIs
  <1>3. ASSUME NEW r \in Sagas \ {s}
        PROVE  f[r] \in Nat
    <2>1. \A i \in Done(r) : Entries(r, a)[i] \in Nat
      BY EntriesType, LeftIs
    <2>2. IsFiniteSet(Done(r))
      BY LeftIs, EntriesType
    <2>3. SumFunctionOnSet(Entries(r, a), Done(r)) \in Nat
      BY <2>1, <2>2, SumNotNegative
    <2> QED
      BY <1>2, <2>3, LeftIs
  <1>4. SumFunctionOnSet(f, Sagas) = f[s] + SumFunctionOnSet(f, Sagas \ {s})
    BY <1>2, SagasAssumption, SumOut
  <1>5. SumFunctionOnSet(f, Sagas \ {s}) \in Nat
    <2>1. IsFiniteSet(Sagas \ {s})
      BY SagasAssumption, FS_Difference
    <2> QED
      BY <1>3, <2>1, SumNotNegative
  <1> QED
    BY <1>1, <1>2, <1>4, <1>5, AllLeft

\* The arithmetic at the end of StrandedByOthers: b is the balance, o the
\* opening, t what all sagas have left of it, l what one has left: x from its last
\* step and p from those before it.
LEMMA LastStepFits ==
  \A b, o, t, l, x, p \in Int :
    b = o + t /\ t - l >= 0 /\ l = x + p /\ o + p >= 0 => b >= x
  OBVIOUS

\* A saga that cannot move waits for a compensation to be paid out of an account
\* somebody else has taken from (saga.rs add_transitions): the books say that on
\* an account of its own, or one others only pay into and it does not use
\* meanwhile, it finds what it is owed.
THEOREM StrandedByOthers == Spec => []StrandedByOthersOnly
  <1>1. IInv /\ Books => StrandedByOthersOnly
    <2> SUFFICES ASSUME IInv, Books, NEW s \in Sagas, Stuck(s)
                 PROVE  \E i \in Steps(s) : \E a \in Account :
                          At(s, Unwind(i)) /\ Effect(s, i)[a] > balance[a] /\ Contested(s, a)
      BY DEF StrandedByOthersOnly
    <2>1. PICK i \in Steps(s), a \in Account : At(s, Unwind(i)) /\ Effect(s, i)[a] > balance[a]
      BY StuckUnwinding DEF StrandedUnwinding
    <2>2. SUFFICES ASSUME ~ Contested(s, a) PROVE FALSE
      BY <2>1
    <2>3. plan \in Plans /\ balance[a] \in Nat /\ gone[a] \in Nat
      BY DEF IInv, TypeOK
    <2>4. plan.opening[a] \in Nat
      BY <2>3, PlansAssumption DEF Plan
    <2>5. gone[a] = 0
      BY <2>2, <2>3 DEF Contested, Books, SpentRight
    <2>6. \A r \in Sagas : \A j \in Steps(r) : Effect(r, j)[a] \in Int
      BY <2>3, EffectType
    <2>7. \A r \in Sagas \ {s} : \A j \in Steps(r) : Effect(r, j)[a] >= 0
      BY <2>2, <2>6 DEF Contested
    <2>8. Done(s) = 1 .. i /\ i \in Done(s) /\ i \in Nat /\ i >= 1
      BY <2>1, <2>3, DoneUpTo, PlanType
    <2> DEFINE e == Entries(s, a)
               total == SumFunction([r \in Sagas |-> Left(r, a)])
    <2>9. balance[a] = plan.opening[a] + total
      BY <2>3, <2>5 DEF Books, Accounted
    <2>10. total - Left(s, a) >= 0 /\ total \in Int
      BY <2>3, <2>7, OthersPayIn, AllLeft
    <2>11. Left(s, a) = SumFunctionOnSet(e, 1 .. i) /\ Left(s, a) \in Int
      BY <2>3, <2>8, LeftIs
    <2>12. /\ 1 .. i \in SUBSET Steps(s) /\ IsFiniteSet(1 .. i)
           /\ \A j \in 1 .. i : e[j] = Effect(s, j)[a] /\ e[j] \in Int
      BY <2>3, <2>8, LeftIs, EntriesType
    <2> HIDE DEF e, total
    <2>13. SumFunctionOnSet(e, 1 .. i) = e[i] + SumFunctionOnSet(e, (1 .. i) \ {i})
      BY <2>8, <2>12, SumOut
    <2>14. (1 .. i) \ {i} = 1 .. i - 1
      BY <2>8
    <2>15. SumFunctionOnSet(e, 1 .. i - 1) \in Int
      <3>1. 1 .. i - 1 \in SUBSET Steps(s)
        BY <2>12, <2>14
      <3> QED
        BY <2>3, <3>1, EntriesType DEF e
    <2>16. Left(s, a) = e[i] + SumFunctionOnSet(e, 1 .. i - 1)
      BY <2>11, <2>13, <2>14
    <2>17. CASE \A j \in Steps(s) : Effect(s, j)[a] >= 0
      <3>1. \A j \in 1 .. i - 1 : e[j] \in Nat
        BY <2>12, <2>14, <2>17
      <3>2. IsFiniteSet(1 .. i - 1)
        BY <2>8, FS_Interval
      <3>3. SumFunctionOnSet(e, 1 .. i - 1) \in Nat
        BY <3>1, <3>2, SumNotNegative
      <3>4. e[i] = Effect(s, i)[a] /\ e[i] \in Int
        BY <2>8, <2>12
      <3>5. plan.opening[a] + SumFunctionOnSet(e, 1 .. i - 1) >= 0
        BY <2>4, <3>3
      <3>6. balance[a] >= e[i]
        BY <2>3, <2>4, <2>9, <2>10, <2>11, <2>15, <2>16, <3>4, <3>5, LastStepFits
      <3> QED
        BY <2>1, <2>3, <3>4, <3>6
    <2>18. CASE ~ \A j \in Steps(s) : Effect(s, j)[a] >= 0
      <3>1. \A r \in Sagas \ {s} : \A j \in Steps(r) : Effect(r, j)[a] = 0
        BY <2>2, <2>6, <2>18 DEF Contested
      <3>2. Alone(s, a)
        BY <2>2, <3>1 DEF Alone, Contested
      <3>3. plan.opening[a] + SumFunctionOnSet(e, 1 .. i - 1) >= 0
        BY <2>8, <3>2 DEF Books, Afforded, Before, Done, e
      <3>4. e[i] = Effect(s, i)[a] /\ e[i] \in Int
        BY <2>8, <2>12
      <3>5. balance[a] >= e[i]
        BY <2>3, <2>4, <2>9, <2>10, <2>11, <2>15, <2>16, <3>3, <3>4, LastStepFits
      <3> QED
        BY <2>1, <2>3, <3>4, <3>5
    <2> QED
      BY <2>17, <2>18
  <1> QED
    BY <1>1, Invariance, BooksBalance, PTL

=============================================================================
