------------------------------ MODULE DayStore ------------------------------
(***************************************************************************)
(* The rows of paper_v2_days of one owner, in the order they are created,  *)
(* and the single-row transactions of paper_trading/repository.py on them. *)
(***************************************************************************)
EXTENDS Naturals

CONSTANT LastDay        \* bound: the days that may be created are 1 .. LastDay

ASSUME LastDayAssumption == LastDay \in Nat

VARIABLES dayState,     \* state of each row, "none" when there is no row
          expired       \* the days whose end_utc has passed

dayVars == << dayState, expired >>

Days     == 1 .. LastDay
InFlight == {"running", "settlement_pending", "closing"}
DayState == {"none", "idle", "closed"} \cup InFlight

DayTypeOK == /\ dayState \in [Days -> DayState]
             /\ expired \subseteq Days

DayInit == /\ dayState = [d \in Days |-> "none"]
           /\ expired = {}

(* Rows that uq_days_one_incomplete counts; get_active_day returns the one.*)
Incomplete == {d \in Days : dayState[d] \notin {"none", "closed"}}

(* get_days_needing_closure.                                               *)
NeedsClosure == {d \in Days : \/ dayState[d] \in {"settlement_pending", "closing"}
                              \/ dayState[d] = "running" /\ d \in expired}

(* create_day: the next row, refused by the index while a day is open.     *)
CreateDayRow(d) ==
  /\ dayState[d] = "none"
  /\ \A c \in Days : c < d => dayState[c] = "closed"
  /\ dayState' = [dayState EXCEPT ![d] = "idle"]
  /\ UNCHANGED expired

(* What the index lets update_day_state write.                             *)
Allowed(d, s) == dayState[d] # "none" /\ (s = "closed" \/ Incomplete \subseteq {d})

(* update_day_state without expected_state: from whatever state.           *)
SetDayState(d, s) ==
  /\ Allowed(d, s)
  /\ dayState' = [dayState EXCEPT ![d] = s]
  /\ UNCHANGED expired

(* The clock passes end_utc.                                               *)
ExpireDay(d) ==
  /\ dayState[d] # "none"
  /\ d \notin expired
  /\ expired' = expired \cup {d}
  /\ UNCHANGED dayState
=============================================================================
