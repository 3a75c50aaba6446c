---------------------------- MODULE CommandStore ----------------------------
(***************************************************************************)
(* The rows of paper_v2_commands, and the single-row transactions that     *)
(* paper_trading/repository.py runs on them.  A command row is named by    *)
(* its idempotency key: UNIQUE(owner_id, idempotency_key) makes the key as *)
(* good an identity as command_id for one owner.                           *)
(*                                                                         *)
(* Every operator below is one database transaction.  It constrains status *)
(* and aged only; a module that uses it says what happens to the rest.     *)
(***************************************************************************)

CONSTANT Keys           \* the idempotency keys of one owner

VARIABLES status,       \* [Keys -> RowStatus], "absent" when there is no row
          aged          \* the processing rows whose updated_at is older than
                        \* the 60 s window of requeue_stale_processing

storeVars == << status, aged >>

Terminal  == {"completed", "failed", "conflict"}
RowStatus == {"absent", "accepted", "processing"} \cup Terminal

StoreTypeOK == /\ status \in [Keys -> RowStatus]
               /\ aged \subseteq {k \in Keys : status[k] = "processing"}

StoreInit == /\ status = [k \in Keys |-> "absent"]
             /\ aged = {}

(* Every write below also sets updated_at, so the row is young again.      *)
SetStatus(k, s) == /\ status' = [status EXCEPT ![k] = s]
                   /\ aged' = aged \ {k}

(* Seeded defect: INSERT ... ON CONFLICT DO UPDATE.                        *)
InsertRowUpsert(k) == SetStatus(k, "accepted")

(* The INSERT of submit_command.  A second INSERT under the same key fails *)
(* on the unique constraint, so this has no step for an existing row.      *)
InsertRow(k) == status[k] = "absent" /\ SetStatus(k, "accepted")

(* The UPDATE that stamps a conflicting retry: it has no condition on the  *)
(* row's current status.                                                   *)
StampConflict(k) == status[k] # "absent" /\ SetStatus(k, "conflict")

(* Seeded defect: the claim forgets AND status = 'accepted'.               *)
ClaimRowAnyLive(k) == /\ status[k] \in {"accepted", "processing"}
                      /\ SetStatus(k, "processing")

(* claim_command: only an accepted row, FOR UPDATE SKIP LOCKED.            *)
ClaimRow(k) == status[k] = "accepted" /\ SetStatus(k, "processing")

(* complete_command: a row that is no longer processing is left alone.     *)
CompleteRow(k) == IF status[k] = "processing"
                    THEN SetStatus(k, "completed")
                    ELSE UNCHANGED storeVars

(* update_command_result: the handler's own outcome, written whatever the  *)
(* row's status has become meanwhile.                                      *)
RecordOutcome(k, s) == status[k] # "absent" /\ SetStatus(k, s)

(* Seeded defect: the requeue is never written.                            *)
RequeueRowNever(k) == k \in Keys /\ UNCHANGED storeVars

(* requeue_command: releases the row only while it is processing.          *)
RequeueRow(k) == IF status[k] = "processing"
                   THEN SetStatus(k, "accepted")
                   ELSE UNCHANGED storeVars

(* Seeded defect: nothing is released.                                     *)
RequeueStaleRowsNever == UNCHANGED storeVars

(* requeue_stale_processing: one UPDATE over every row past the window.    *)
RequeueStaleRows ==
  /\ status' = [k \in Keys |-> IF k \in aged THEN "accepted" ELSE status[k]]
  /\ aged' = {}

(* The 60 s window of one processing row runs out.                         *)
AgeRow(k) == /\ status[k] = "processing"
             /\ k \notin aged
             /\ aged' = aged \cup {k}
             /\ UNCHANGED status
=============================================================================
