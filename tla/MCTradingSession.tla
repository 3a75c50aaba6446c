-------------------------- MODULE MCTradingSession --------------------------
(* TradingSession on small instances.                                      *)
EXTENDS TradingSession, TLC

Symmetric == Permutations(Orders) \cup Permutations(Watchers) \cup Permutations(Users)
=============================================================================
