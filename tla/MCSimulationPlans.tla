------------------------- MODULE MCSimulationPlans -------------------------
(* SimulationPlans with a bound on what is in flight at one time, in three *)
(* scopes so that each stays small: plans and the start of sessions; the   *)
(* further way of sessions; plans and proposals.                           *)
EXTENDS SimulationPlans, FiniteSets, TLC

CONSTANT MaxInFlight

Unasked == \A q \in Proposals : offer[q].status = "none"
Unmoved == \A k \in Keys : session[k].status \in {"absent", "starting"}

StartScope   == Unasked /\ Unmoved /\ flight \cap Moves = {}
MoveScope    == Unasked /\ flight \subseteq Moves
ProposeScope == flight \cap (Starts \cup Moves) = {} /\ \A k \in Keys : ~ Taken(k)

InScope == Cardinality(flight) <= MaxInFlight /\ (StartScope \/ MoveScope \/ ProposeScope)
BoundedNext == Next /\ InScope'
BoundedSpec == Init /\ [][BoundedNext]_vars

Symmetric == Permutations(Plans) \cup Permutations(Sound)
=============================================================================
