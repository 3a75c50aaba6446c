--------------------------- MODULE CircuitBreaker ---------------------------
(***************************************************************************)
(* One circuit breaker of chatbot/ai/resilience.py (hypercube/providers/   *)
(* resilience.py is a copy of it): its counters as a record, its methods   *)
(* as operators from the record a call finds to the record it leaves.      *)
(* Each method runs under one asyncio lock and suspends nowhere, so each   *)
(* is one step; can_execute takes the lock twice, but an uncontended       *)
(* asyncio lock does not yield either, and no holder of it ever does.      *)
(***************************************************************************)
EXTENDS Naturals

CONSTANT HalfOpenMax  \* half_open_max_calls: test calls in half-open state

ASSUME SlotAssumption == HalfOpenMax \in Nat \ {0}

(* failures saturates at the threshold, the only value it is compared      *)
(* with.  cooled: recovery_timeout has passed since opened_at.             *)
Circuit ==
  [state : {"closed", "open", "half_open"}, failures : Nat, successes : Nat,
   slots : Nat, cooled : BOOLEAN]

Fresh ==
  [state |-> "closed", failures |-> 0, successes |-> 0, slots |-> 0,
   cooled |-> FALSE]

(* _check_state: an open circuit whose timeout has passed goes half open   *)
(* with all its slots.  The successes of an earlier probation stay.        *)
Checked(c) ==
  IF c.state = "open" /\ c.cooled
  THEN [state |-> "half_open", failures |-> c.failures,
        successes |-> c.successes, slots |-> 0, cooled |-> c.cooled]
  ELSE c

Admits(c) ==
  LET d == Checked(c)
  IN  d.state = "closed" \/ (d.state = "half_open" /\ d.slots < HalfOpenMax)

(* can_execute: whoever asks of a half-open circuit takes a slot, whether  *)
(* or not a call follows; nothing gives the slot back.                     *)
Asked(c) ==
  LET d == Checked(c)
  IN  IF d.state = "half_open" /\ d.slots < HalfOpenMax
      THEN [state |-> d.state, failures |-> d.failures,
            successes |-> d.successes, slots |-> d.slots + 1,
            cooled |-> d.cooled]
      ELSE d

Reset == Fresh

SucceedHalfOpen(c) ==
  IF c.successes + 1 >= HalfOpenMax
  THEN Reset
  ELSE [state |-> c.state, failures |-> c.failures,
        successes |-> c.successes + 1, slots |-> c.slots,
        cooled |-> c.cooled]

(* record_success                                                          *)
Succeeded(c) ==
  CASE c.state = "half_open" -> SucceedHalfOpen(c)
    [] c.state = "closed"    -> [state |-> c.state, failures |-> 0,
                                 successes |-> c.successes,
                                 slots |-> c.slots, cooled |-> c.cooled]
    [] c.state = "open"      -> c

(* record_failure: one failure reopens a half-open circuit, the threshold  *)
(* opens a closed one; opened_at starts the wait anew.  A late failure in  *)
(* an open circuit is only counted.                                        *)
Failed(c, threshold) ==
  LET n == IF c.failures + 1 >= threshold THEN threshold ELSE c.failures + 1
      trips == c.state = "half_open" \/ (c.state = "closed" /\ n = threshold)
  IN  [state |-> IF trips THEN "open" ELSE c.state, failures |-> n,
       successes |-> c.successes, slots |-> c.slots,
       cooled |-> IF trips THEN FALSE ELSE c.cooled]
=============================================================================
