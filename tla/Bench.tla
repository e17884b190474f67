------------------------------- MODULE Bench -------------------------------
(***************************************************************************)
(* What the commands of the debugger share when one developer runs them    *)
(* one after the other: the answer of the last command and the bad luck    *)
(* still to come.                                                          *)
(***************************************************************************)
EXTENDS Integers

CONSTANT MaxTrouble   \* edits, stalls, outages and losses in a behaviour
ASSUME TroubleAssumption == MaxTrouble \in Nat

VARIABLES
  trouble,   \* those still to come
  report     \* what the last command answered, NoReport while one runs

NoReport == [kind |-> "none"]

\* n mishaps of those to come: a stall of the machine, an outage of the core,
\* a file or a library that is gone.
Mishaps(n) == trouble >= n /\ trouble' = trouble - n
Mishap(happens) == Mishaps(IF happens THEN 1 ELSE 0)
=============================================================================
