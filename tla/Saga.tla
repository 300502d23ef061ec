-------------------------------- MODULE Saga --------------------------------
(***************************************************************************)
(* Sagas as the nets pflow-compose (saga.rs) builds of them.  A saga runs  *)
(* its steps in order; when one fails, the steps that ran are compensated  *)
(* in the reverse order.  Each saga has one token walking its control      *)
(* places and one token per step saying what became of it; a step moves    *)
(* tokens between accounts and its compensation moves them back.  Several  *)
(* sagas, and a subnet that only spends, share accounts by token links.    *)
(* Places hold counts here as they do in the net: that the control token   *)
(* is one, and where it may stand, is a result and not the data type.      *)
(***************************************************************************)
EXTENDS Integers, Sequences, FiniteSets, FiniteSetsExt

CONSTANTS
  Sagas,
  Account,
  Plans         \* what the sagas are built of: moves, opening balances, spending

\* What validate lets through: a positive amount between two accounts.
Move == {m \in [from : Account, to : Account, amount : Nat \ {0}] : m.from # m.to}

\* A plan: each saga's steps, each a sequence of moves; the opening balances;
\* and the accounts another subnet spends from.
Plan ==
  [moves : [Sagas -> Seq(Seq(Move)) \ {<<>>}],
   opening : [Account -> Nat],
   spendable : SUBSET Account]

\* What a step's moves add to account a, netted: a pass-through account is left
\* alone and need not hold what passes.
NetDelta(moves, a) ==
  SumFunction([k \in {j \in DOMAIN moves : moves[j].to = a} |-> moves[k].amount])
    - SumFunction([k \in {j \in DOMAIN moves : moves[j].from = a} |-> moves[k].amount])

ASSUME SagasAssumption == IsFiniteSet(Sagas)
ASSUME PlansAssumption == Plans \subseteq Plan

VARIABLES
  plan,         \* the plan, fixed at the start
  control,      \* per saga, the tokens on its control places
  status,       \* per saga and step, the tokens on its four status places
  balance,      \* the tokens on the account places
  gone          \* per account, what the other subnet has spent

vars == <<plan, control, status, balance, gone>>

-----------------------------------------------------------------------------
Steps(s) == 1 .. Len(plan.moves[s])

\* A saga's control places.  The unwind chain ends in rolled_back, which stands
\* below step 1.
NextUp(i) == <<"next", i>>
Unwind(i) == <<"unwind", i>>
Committing == <<"committing", 0>>
Completed == <<"completed", 0>>
RolledBack == <<"rolled_back", 0>>

ControlPlace(s) ==
  {NextUp(i) : i \in Steps(s)} \cup {Unwind(i) : i \in Steps(s)}
    \cup {Committing, Completed, RolledBack}

Status == {"pending", "done", "failed", "compensated"}

\* Mutant: the failed step itself is taken to need undoing.
UnwindTargetSelf(i) == Unwind(i)

\* Where the token goes when step i is the last thing undone below it.
UnwindTarget(i) == IF i = 1 THEN RolledBack ELSE Unwind(i - 1)

\* Where the token goes when step i of s has run.
AfterStep(s, i) == IF i < Len(plan.moves[s]) THEN NextUp(i + 1) ELSE Committing

-----------------------------------------------------------------------------
\* Mutant: no arc takes the token from where it stood.
ShiftKeeping(m, p, q) == [m EXCEPT ![q] = @ + 1]

\* One token from place p to place q of a marking.
Shift(m, p, q) == [m EXCEPT ![p] = @ - 1, ![q] = @ + 1]

Hand(s, p, q) ==
  /\ control[s][p] >= 1
  /\ control' = [control EXCEPT ![s] = Shift(@, p, q)]

Turn(s, i, p, q) ==
  /\ status[s][i][p] >= 1
  /\ status' = [status EXCEPT ![s][i] = Shift(@, p, q)]

\* Mutant: the accounts taken from are not looked at.
AffordsCredits(d) == \A a \in Account : d[a] > 0 => balance[a] + d[a] >= 0

\* The accounts hold what the effect d takes.
Affords(d) == \A a \in Account : balance[a] + d[a] >= 0

Pay(d) ==
  /\ Affords(d)
  /\ balance' = [a \in Account |-> balance[a] + d[a]]

Effect(s, i) == [a \in Account |-> NetDelta(plan.moves[s][i], a)]

\* Mutant: the compensation gives back what was taken and keeps what was given.
ReversalOfDebits(s, i) ==
  [a \in Account |-> IF Effect(s, i)[a] < 0 THEN - Effect(s, i)[a] ELSE 0]

Reversal(s, i) == [a \in Account |-> 0 - Effect(s, i)[a]]

Init ==
  /\ plan \in Plans
  /\ control = [s \in Sagas |-> [p \in ControlPlace(s) |-> IF p = NextUp(1) THEN 1 ELSE 0]]
  /\ status = [s \in Sagas |->
                 [i \in Steps(s) |-> [x \in Status |-> IF x = "pending" THEN 1 ELSE 0]]]
  /\ balance = plan.opening
  /\ gone = [a \in Account |-> 0]

\* do_i: the step runs.
Do(s, i) ==
  /\ Hand(s, NextUp(i), AfterStep(s, i))
  /\ Turn(s, i, "pending", "done")
  /\ Pay(Effect(s, i))
  /\ UNCHANGED <<plan, gone>>

\* Mutant: a step can fail only when it could have run.
FailFunded(s, i) ==
  /\ Affords(Effect(s, i))
  /\ Hand(s, NextUp(i), UnwindTarget(i))
  /\ Turn(s, i, "pending", "failed")
  /\ UNCHANGED <<plan, balance, gone>>

\* fail_i: the step fails, having moved nothing.
Fail(s, i) ==
  /\ Hand(s, NextUp(i), UnwindTarget(i))
  /\ Turn(s, i, "pending", "failed")
  /\ UNCHANGED <<plan, balance, gone>>

\* undo_i: the step is compensated.
Undo(s, i) ==
  /\ Hand(s, Unwind(i), UnwindTarget(i))
  /\ Turn(s, i, "done", "compensated")
  /\ Pay(Reversal(s, i))
  /\ UNCHANGED <<plan, gone>>

Commit(s) ==
  /\ Hand(s, Committing, Completed)
  /\ UNCHANGED <<plan, status, balance, gone>>

\* Mutant: a failed acknowledgement starts the compensation below the last step.
FailCommitBelow(s) ==
  /\ Hand(s, Committing, UnwindTarget(Len(plan.moves[s])))
  /\ UNCHANGED <<plan, status, balance, gone>>

FailCommit(s) ==
  /\ Hand(s, Committing, Unwind(Len(plan.moves[s])))
  /\ UNCHANGED <<plan, status, balance, gone>>

\* The other subnet spends a token of an account it shares.
Spend(a) ==
  /\ a \in plan.spendable
  /\ balance[a] >= 1
  /\ balance' = [balance EXCEPT ![a] = @ - 1]
  /\ gone' = [gone EXCEPT ![a] = @ + 1]
  /\ UNCHANGED <<plan, control, status>>

Step(s) ==
  \/ \E i \in Steps(s) : Do(s, i) \/ Fail(s, i) \/ Undo(s, i)
  \/ Commit(s)
  \/ FailCommit(s)

Next == (\E s \in Sagas : Step(s)) \/ (\E a \in Account : Spend(a))

Spec == Init /\ [][Next]_vars

\* An engine fires something as long as anything is enabled.
FairSpec == Spec /\ WF_vars(Next)

-----------------------------------------------------------------------------
At(s, p) == control[s][p] > 0

Is(s, i, x) == status[s][i][x] > 0

Over(s) == At(s, Completed) \/ At(s, RolledBack)

\* No transition of saga s is enabled, and it has not come to an end.
Stuck(s) ==
  /\ ~ Over(s)
  /\ ~ At(s, Committing)
  /\ \A i \in Steps(s) :
       /\ ~ (At(s, NextUp(i)) /\ Is(s, i, "pending"))
       /\ ~ (At(s, Unwind(i)) /\ Is(s, i, "done") /\ Affords(Reversal(s, i)))

\* Somebody other than s may take tokens out of account a that s is owed: by
\* spending, by running a step, or, if s uses them meanwhile, by taking back a
\* credit of its own.
Contested(s, a) ==
  \/ a \in plan.spendable
  \/ \E r \in Sagas \ {s} : \E i \in Steps(r) :
       \/ Effect(r, i)[a] < 0
       \/ Effect(r, i)[a] > 0 /\ \E j \in Steps(s) : Effect(s, j)[a] < 0

\* The steps of s that ran and are not compensated, and what they did to a.
Done(s) == {i \in Steps(s) : Is(s, i, "done")}
Left(s, a) == SumFunction([i \in Done(s) |-> Effect(s, i)[a]])

-----------------------------------------------------------------------------
\* The state has its type; in particular no account is overdrawn, whichever of
\* the sagas and the spender gets to it first.
TypeOK ==
  /\ plan \in Plans
  /\ \A s \in Sagas : control[s] \in [ControlPlace(s) -> Nat]
  /\ \A s \in Sagas : status[s] \in [Steps(s) -> [Status -> Nat]]
  /\ balance \in [Account -> Nat]
  /\ gone \in [Account -> Nat]

\* The constraints saga.rs emits (saga_control, saga_step_i): the control places
\* of a saga hold one token in all, and so do the four places of each step.
OneToken ==
  \A s \in Sagas :
    /\ \E p \in ControlPlace(s) :
         \A q \in ControlPlace(s) : control[s][q] = IF q = p THEN 1 ELSE 0
    /\ \A i \in Steps(s) :
         \E x \in Status : \A y \in Status : status[s][i][y] = IF y = x THEN 1 ELSE 0

\* Where the control token stands says what became of every step.  Forward, the
\* steps before it ran and the others are untried.  On the way back, the steps
\* it has still to reach are exactly those that ran and are not compensated, so
\* compensation is in the reverse order and leaves nothing out.
InOrder ==
  \A s \in Sagas : \A i, j \in Steps(s) :
    /\ At(s, NextUp(i)) => Is(s, j, IF j < i THEN "done" ELSE "pending")
    /\ At(s, Unwind(i)) => (Is(s, j, "done") <=> j <= i)
    /\ At(s, Committing) \/ At(s, Completed) => Is(s, j, "done")
    /\ At(s, RolledBack) => ~ Is(s, j, "done")

\* Every account holds what it opened with, what the steps that ran and are not
\* compensated did to it, and not what was spent: a rolled back saga has left
\* every balance as if it had never run, also when others use the account.
Accounted ==
  \A a \in Account :
    balance[a] + gone[a] = plan.opening[a] + SumFunction([s \in Sagas |-> Left(s, a)])

\* A saga is stranded only on a compensation that must take back a credit from
\* an account somebody else may have taken from since: it never wedges going
\* forward, nor on accounts of its own, nor on those it shares with sagas that
\* only pay in, as long as it does not use what they paid.
StrandedByOthersOnly ==
  \A s \in Sagas :
    Stuck(s) => \E i \in Steps(s) : \E a \in Account :
                  /\ At(s, Unwind(i))
                  /\ Effect(s, i)[a] > balance[a]
                  /\ Contested(s, a)

\* Every saga whose accounts nobody else takes from comes to an end, completed
\* or fully rolled back.
ComesToAnEnd ==
  \A s \in Sagas :
    (\A i \in Steps(s), a \in Account : Effect(s, i)[a] > 0 => ~ Contested(s, a))
      ~> Over(s)

=============================================================================
