---------------------------- MODULE MCDayControl ----------------------------
(* DayControl on a small instance; cards and taps are interchangeable.     *)
EXTENDS DayControl, TLC

\* Both limits down, one of them up again.
MCChanges == {[f \in Fields |-> 1], [f \in {"risk"} |-> 2]}

Symmetric == Permutations(Keys) \cup Permutations(Taps)
=============================================================================
