-------------------------- MODULE MCForecastQueue --------------------------
(* Model values for ForecastQueue. *)
EXTENDS ForecastQueue, TLC

CONSTANTS w1, w2, k1, i1, i2, none

MCWeb == {w1, w2}
MCKeys == {k1}
MCNoKeys == {none}
MCOneIntent == {i1}
MCIntents == {i1, i2}

\* Safety runs only: web processes and intents are interchangeable.
Symmetric == Permutations(MCWeb) \cup Permutations(MCIntents)
=============================================================================
