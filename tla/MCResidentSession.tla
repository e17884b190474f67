------------------------- MODULE MCResidentSession -------------------------
(* A resident session for TLC: two witnesses, one or two clients. *)
EXTENDS ResidentSession, TLC

CONSTANTS c1, c2, w1, w2, ask, dig, heap

One == {c1}
Two == {c1, c2}
OneWitness == {w1}
BothWitnesses == {w1, w2}

\* Results of three sizes: the last is more than the memo may hold.
MCSize == [q \in Questions |-> CASE q = ask -> 1
                                 [] q = dig -> 2
                                 [] OTHER -> 4]
AllQuestions == {ask, dig, heap}
SmallQuestions == {ask, dig}
\* The witnesses are alike, and no liveness is checked with them permuted.
WitnessSymmetry == Permutations(BothWitnesses)

AllFaults == {"crash", "swap", "tamper", "lose_index"}
=============================================================================
