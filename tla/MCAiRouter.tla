----------------------------- MODULE MCAiRouter -----------------------------
(* Instances of AiRouter for TLC.                                          *)
EXTENDS AiRouter

CONSTANTS t1, t2

(* Each preference puts its own model first.                               *)
MCChains == {<< t1, t2 >>, << t2, t1 >>}

MCThreshold == [t \in Tiers |-> 2]

(* A cloud tier retries, the local one never does.                         *)
MCMaxRetries == [t \in Tiers |-> IF t = t1 THEN 1 ELSE 0]
=============================================================================
