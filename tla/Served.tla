------------------------------- MODULE Served -------------------------------
(***************************************************************************)
(* What a net whose transitions declare stages is told to do: it runs by   *)
(* the firing rule as if it declared none, a staged transition firing once *)
(* per job it finishes, and a transition that stays enabled fires.  The    *)
(* abstract specification of Stages.                                       *)
(***************************************************************************)
EXTENDS FiringRule

CONSTANT Models   \* nets with stages: [net, stages, opening, ...]

VARIABLES model,      \* fixed at the start
          accepted,   \* the declarations are accepted
          told,       \* the marking, in the net's own places
          last        \* the transition fired last, none at first

svars == <<model, accepted, told, last>>

Staged(m) == {t \in m.net.transitions : m.stages[t] > 1}

\* Declarations may be refused, a net without any is not.
Init ==
  /\ model \in Models
  /\ accepted \in BOOLEAN
  /\ (\A t \in model.net.transitions : model.stages[t] \in {0, 1}) => accepted
  /\ told = model.opening
  /\ last = {}

Serve(t) ==
  /\ accepted /\ t \in model.net.transitions
  /\ Enabled(model.net, t, told)
  /\ told' = Fire(model.net, t, told)
  /\ last' = {t}
  /\ UNCHANGED <<model, accepted>>

Next == \E t \in Transition : Serve(t)

Spec == Init /\ [][Next]_svars /\ \A t \in Transition : WF_svars(Serve(t))

=============================================================================
