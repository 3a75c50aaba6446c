------------------------- MODULE CommandQueue_proofs -------------------------
(* Theorems of CommandQueue, for every set of keys, clients and runners.   *)
EXTENDS CommandQueue, FiniteSetTheorems, TLAPS

(* What each store transaction does to the typing of the rows.             *)
LEMMA SetStatusType ==
  ASSUME StoreTypeOK, NEW k \in Keys, NEW s \in RowStatus, SetStatus(k, s)
  PROVE  /\ StoreTypeOK'
         /\ status'[k] = s
         /\ \A x \in Keys \ {k} : status'[x] = status[x]
BY DEF StoreTypeOK, SetStatus

(* Every reachable state of the queue is well typed, and a runner holds a  *)
(* command exactly while it executes, settles or requeues one              *)
(* (_process_commands never carries a command over to its next cycle).     *)
THEOREM TypeCorrect == Spec => []TypeOK
<1>1. Init => TypeOK
  BY NoValueAssumption DEF Init, StoreInit, TypeOK, StoreTypeOK, RowStatus, Calls, Phases, Busy, Idle
<1>2. TypeOK /\ [Next]_vars => TypeOK'
  <2> SUFFICES ASSUME TypeOK, [Next]_vars PROVE TypeOK'
    OBVIOUS
  <2> USE DEF TypeOK
  <2>1. ASSUME NEW c \in Clients, NEW k \in Keys, NEW h \in Hashes,
               LookupMiss(c, k, h) \/ LookupReplay(c, k, h) \/ LookupConflict(c, k, h)
        PROVE  TypeOK'
    BY <2>1 DEF LookupMiss, LookupReplay, LookupConflict, runnerVars, StoreTypeOK, Calls
  <2>2. ASSUME NEW c \in Clients, Stamp(c)
        PROVE  TypeOK'
    <3>1. call[c].key \in Keys
      BY <2>2 DEF Stamp, Calls, Idle
    <3>2. StoreTypeOK' /\ \A x \in Keys : status'[x] = "absent" <=> status[x] = "absent"
      BY <2>2, <3>1, SetStatusType DEF Stamp, StampConflict, RowStatus, Terminal
    <3> QED BY <2>2, <3>2 DEF Stamp, runnerVars, bounds, Calls
  <2>3. ASSUME NEW c \in Clients, Insert(c)
        PROVE  TypeOK'
    <3>1. call[c].key \in Keys /\ call[c].hash \in Hashes
      BY <2>3 DEF Insert, Calls, Idle
    <3>2. /\ StoreTypeOK'
          /\ status'[call[c].key] = "accepted"
          /\ \A x \in Keys \ {call[c].key} : status'[x] = status[x]
      BY <2>3, <3>1, SetStatusType DEF Insert, InsertRow, RowStatus
    <3>3. \A x \in Keys : hash'[x] = NoHash <=> status'[x] = "absent"
      BY <2>3, <3>1, <3>2, NoValueAssumption DEF Insert
    <3> QED BY <2>3, <3>1, <3>2, <3>3 DEF Insert, runnerVars, bounds, Calls
  <2>4. ASSUME NEW c \in Clients, InsertRefused(c)
        PROVE  TypeOK'
    BY <2>4 DEF InsertRefused, runnerVars, bounds, StoreTypeOK, Calls
  <2>5. ASSUME NEW r \in Runners, Recover(r) \/ RecoverAgain(r)
        PROVE  TypeOK'
    <3>1. /\ StoreTypeOK'
          /\ \A x \in Keys : status'[x] = "absent" <=> status[x] = "absent"
          /\ stale' \in [Keys -> Nat]
      BY <2>5 DEF Recover, RecoverAgain, ReleaseStale, RequeueStaleRows, StoreTypeOK, RowStatus
    <3> QED BY <2>5, <3>1 DEF Recover, RecoverAgain, queueVars, bounds, Phases, Busy
  <2>6. ASSUME NEW r \in Runners, NEW k \in Keys, Claim(r, k)
        PROVE  TypeOK'
    <3>1. StoreTypeOK' /\ \A x \in Keys : status'[x] = "absent" <=> status[x] = "absent"
      BY <2>6, SetStatusType DEF Claim, ClaimRow, RowStatus
    <3> QED BY <2>6, <3>1, NoValueAssumption DEF Claim, queueVars, bounds, Phases, Busy
  <2>7. ASSUME NEW r \in Runners, Execute(r) \/ Defer(r)
        PROVE  TypeOK'
    BY <2>7 DEF Execute, Defer, queueVars, bounds, StoreTypeOK, Phases, Busy
  <2>8. ASSUME NEW r \in Runners, NEW s \in {"completed", "failed"}, ExecuteRecording(r, s)
        PROVE  TypeOK'
    <3>1. held[r] \in Keys
      BY <2>8 DEF ExecuteRecording, Busy
    <3>2. StoreTypeOK' /\ \A x \in Keys : status'[x] = "absent" <=> status[x] = "absent"
      BY <2>8, <3>1, SetStatusType DEF ExecuteRecording, RecordOutcome, RowStatus, Terminal
    <3> QED BY <2>8, <3>2 DEF ExecuteRecording, queueVars, bounds, Phases, Busy
  <2>9. ASSUME NEW r \in Runners, Settle(r) \/ Requeue(r)
        PROVE  TypeOK'
    <3>1. held[r] \in Keys
      BY <2>9 DEF Settle, Requeue, Busy
    <3>2. StoreTypeOK' /\ \A x \in Keys : status'[x] = "absent" <=> status[x] = "absent"
      BY <2>9, <3>1, SetStatusType
         DEF Settle, CompleteRow, Requeue, RequeueRow, storeVars, RowStatus, Terminal, StoreTypeOK
    <3> QED BY <2>9, <3>2 DEF Settle, Requeue, Release, queueVars, bounds, Phases, Busy
  <2>10. ASSUME NEW r \in Runners, LoseOutcome(r) \/ Crash(r) \/ Restart(r)
         PROVE  TypeOK'
    BY <2>10 DEF LoseOutcome, Release, Crash, Restart, queueVars, bounds, StoreTypeOK, Phases, Busy
  <2>11. ASSUME NEW k \in Keys, Age(k)
         PROVE  TypeOK'
    BY <2>11 DEF Age, AgeRow, queueVars, runnerVars, bounds, StoreTypeOK
  <2>12. CASE UNCHANGED vars
    BY <2>12 DEF vars, StoreTypeOK
  <2> QED
    BY <2>1, <2>2, <2>3, <2>4, <2>5, <2>6, <2>7, <2>8, <2>9, <2>10, <2>11, <2>12
       DEF Next, ClientStep, RunnerStep, Work
<1> QED BY <1>1, <1>2, PTL DEF Spec

-----------------------------------------------------------------------------
(* The number of runners executing a command, when one of them takes or    *)
(* drops it.                                                               *)
LEMMA ExecutingFinite ==
  ASSUME NEW k
  PROVE  IsFiniteSet(Executing(k)) /\ Cardinality(Executing(k)) \in Nat
<1>1. Executing(k) \subseteq Runners
  BY DEF Executing
<1> QED BY <1>1, RunnersAssumption, FS_Subset, FS_CardinalityType

LEMMA TakenCount ==
  ASSUME TypeOK, NEW r \in Runners, NEW k \in Keys,
         held[r] = NoKey, held' = [held EXCEPT ![r] = k]
  PROVE  /\ Cardinality(Executing(k)') = Cardinality(Executing(k)) + 1
         /\ \A x \in Keys \ {k} : Executing(x)' = Executing(x)
<1>1. r \notin Executing(k)
  BY NoValueAssumption DEF Executing
<1>2. Executing(k)' = Executing(k) \cup {r}
  BY DEF Executing, TypeOK
<1>3. \A x \in Keys \ {k} : Executing(x)' = Executing(x)
  BY NoValueAssumption DEF Executing, TypeOK
<1> QED BY <1>1, <1>2, <1>3, ExecutingFinite, FS_AddElement

LEMMA DroppedCount ==
  ASSUME TypeOK, NEW r \in Runners, NEW k \in Keys,
         held[r] = k, held' = [held EXCEPT ![r] = NoKey]
  PROVE  /\ Cardinality(Executing(k)) >= 1
         /\ Cardinality(Executing(k)') = Cardinality(Executing(k)) - 1
         /\ \A x \in Keys \ {k} : Executing(x)' = Executing(x)
<1>1. r \in Executing(k)
  BY DEF Executing
<1>2. Executing(k)' = Executing(k) \ {r}
  BY NoValueAssumption DEF Executing, TypeOK
<1>3. \A x \in Keys \ {k} : Executing(x)' = Executing(x)
  BY NoValueAssumption DEF Executing, TypeOK
<1>4. Cardinality(Executing(k)) # 0
  BY <1>1, ExecutingFinite, FS_EmptySet
<1>5. Cardinality(Executing(k) \ {r}) = Cardinality(Executing(k)) - 1
  BY <1>1, ExecutingFinite, FS_RemoveElement
<1> QED BY <1>2, <1>3, <1>4, <1>5, ExecutingFinite

-----------------------------------------------------------------------------
(* A step that leaves every runner's command in its hands and offers no    *)
(* row again keeps the budget, and so does one that only drops a command.  *)
LEMMA BudgetKept ==
  ASSUME TypeOK, TypeOK', StaleBudget, stale' = stale, held' = held,
         \A k \in Keys : status'[k] \in {"accepted", "absent"}
                           => status'[k] = status[k] \/ Executing(k) = {}
  PROVE  StaleBudget'
<1> SUFFICES ASSUME NEW k \in Keys
             PROVE  /\ Cardinality(Executing(k)') <= stale[k] + 1
                    /\ status'[k] = "accepted" => Cardinality(Executing(k)') <= stale[k]
                    /\ status'[k] = "absent" => Executing(k)' = {}
  BY DEF StaleBudget
<1>1. Executing(k)' = Executing(k)
  BY DEF Executing
<1>2. stale[k] \in Nat
  BY DEF TypeOK
<1>3. Executing(k) = {} => Cardinality(Executing(k)) = 0
  BY FS_EmptySet
<1> QED BY <1>1, <1>2, <1>3 DEF StaleBudget

LEMMA BudgetDropped ==
  ASSUME TypeOK, TypeOK', StaleBudget, stale' = stale,
         NEW r \in Runners, held[r] \in Keys, held' = [held EXCEPT ![r] = NoKey],
         \A k \in Keys \ {held[r]} : status'[k] = status[k],
         status'[held[r]] # "absent"
  PROVE  StaleBudget'
<1> PICK k \in Keys : k = held[r]
  OBVIOUS
<1>1. /\ Cardinality(Executing(k)) >= 1
      /\ Cardinality(Executing(k)') = Cardinality(Executing(k)) - 1
      /\ \A x \in Keys \ {k} : Executing(x)' = Executing(x)
  BY DroppedCount
<1>2. Cardinality(Executing(k)) \in Nat /\ stale[k] \in Nat
  BY ExecutingFinite DEF TypeOK
<1> QED BY <1>1, <1>2 DEF StaleBudget

(* Exclusive execution up to stale releases: claim_command takes accepted  *)
(* rows only, and a row becomes accepted while some runner still holds it  *)
(* only through requeue_stale_processing.                                  *)
THEOREM BudgetHolds == Spec => []StaleBudget
<1>1. Init => StaleBudget
  <2> SUFFICES ASSUME Init, NEW k \in Keys
               PROVE  /\ Cardinality(Executing(k)) <= stale[k] + 1
                      /\ status[k] = "accepted" => Cardinality(Executing(k)) <= stale[k]
                      /\ status[k] = "absent" => Executing(k) = {}
    BY DEF StaleBudget
  <2>1. Executing(k) = {}
    BY NoValueAssumption DEF Init, Executing
  <2>2. Cardinality(Executing(k)) = 0
    BY <2>1, FS_EmptySet
  <2>3. stale[k] = 0
    BY DEF Init
  <2> QED BY <2>1, <2>2, <2>3
<1>2. TypeOK /\ TypeOK' /\ StaleBudget /\ [Next]_vars => StaleBudget'
  <2> SUFFICES ASSUME TypeOK, TypeOK', StaleBudget, [Next]_vars PROVE StaleBudget'
    OBVIOUS
  <2>1. ASSUME NEW c \in Clients, NEW k \in Keys, NEW h \in Hashes,
               LookupMiss(c, k, h) \/ LookupReplay(c, k, h) \/ LookupConflict(c, k, h)
        PROVE  StaleBudget'
    BY <2>1, BudgetKept DEF LookupMiss, LookupReplay, LookupConflict, runnerVars
  <2>2. ASSUME NEW c \in Clients, Stamp(c)
        PROVE  StaleBudget'
    <3>1. call[c].key \in Keys
      BY <2>2 DEF Stamp, TypeOK, Calls, Idle
    <3> QED BY <2>2, <3>1, BudgetKept
               DEF Stamp, StampConflict, SetStatus, runnerVars, TypeOK, StoreTypeOK
  <2>3. ASSUME NEW c \in Clients, Insert(c)
        PROVE  StaleBudget'
    <3>1. call[c].key \in Keys
      BY <2>3 DEF Insert, TypeOK, Calls, Idle
    <3>2. Executing(call[c].key) = {}
      BY <2>3, <3>1 DEF Insert, InsertRow, StaleBudget
    <3> QED BY <2>3, <3>1, <3>2, BudgetKept
               DEF Insert, InsertRow, SetStatus, runnerVars, TypeOK, StoreTypeOK
  <2>4. ASSUME NEW c \in Clients, InsertRefused(c)
        PROVE  StaleBudget'
    BY <2>4, BudgetKept DEF InsertRefused, runnerVars
  <2>5. ASSUME NEW r \in Runners, Recover(r) \/ RecoverAgain(r)
        PROVE  StaleBudget'
    <3>1. ReleaseStale /\ held' = held
      BY <2>5 DEF Recover, RecoverAgain
    <3>2. \A k \in Keys : Executing(k)' = Executing(k) /\ Cardinality(Executing(k)) \in Nat
      BY <3>1, ExecutingFinite DEF Executing
    <3>3. ASSUME NEW k \in Keys, k \in aged
          PROVE  status'[k] = "accepted" /\ stale'[k] = stale[k] + 1
      BY <3>1, <3>3 DEF ReleaseStale, RequeueStaleRows
    <3>4. ASSUME NEW k \in Keys, k \notin aged
          PROVE  status'[k] = status[k] /\ stale'[k] = stale[k]
      BY <3>1, <3>4 DEF ReleaseStale, RequeueStaleRows
    <3> QED BY <3>2, <3>3, <3>4 DEF StaleBudget, TypeOK
  <2>6. ASSUME NEW r \in Runners, NEW k \in Keys, Claim(r, k)
        PROVE  StaleBudget'
    <3>1. held[r] = NoKey /\ held' = [held EXCEPT ![r] = k] /\ stale' = stale
      BY <2>6 DEF Claim, TypeOK, Busy
    <3>2. status[k] = "accepted" /\ status'[k] = "processing"
      BY <2>6 DEF Claim, ClaimRow, SetStatus, TypeOK, StoreTypeOK
    <3>3. \A x \in Keys \ {k} : status'[x] = status[x]
      BY <2>6 DEF Claim, ClaimRow, SetStatus, TypeOK, StoreTypeOK
    <3>4. /\ Cardinality(Executing(k)') = Cardinality(Executing(k)) + 1
          /\ \A x \in Keys \ {k} : Executing(x)' = Executing(x)
      BY <3>1, TakenCount
    <3> QED BY <3>1, <3>2, <3>3, <3>4, ExecutingFinite DEF StaleBudget, TypeOK
  <2>7. ASSUME NEW r \in Runners, Execute(r) \/ Defer(r)
        PROVE  StaleBudget'
    BY <2>7, BudgetKept DEF Execute, Defer
  <2>8. ASSUME NEW r \in Runners, NEW s \in {"completed", "failed"}, ExecuteRecording(r, s)
        PROVE  StaleBudget'
    <3>1. held[r] \in Keys
      BY <2>8 DEF ExecuteRecording, TypeOK, Busy
    <3> QED BY <2>8, <3>1, BudgetKept
               DEF ExecuteRecording, RecordOutcome, SetStatus, TypeOK, StoreTypeOK
  <2>9. ASSUME NEW r \in Runners, Settle(r) \/ Requeue(r)
        PROVE  StaleBudget'
    <3>1. /\ held[r] \in Keys
          /\ held' = [held EXCEPT ![r] = NoKey]
          /\ stale' = stale
      BY <2>9 DEF Settle, Requeue, Release, TypeOK, Busy
    <3>2. status[held[r]] # "absent"
      <4>1. r \in Executing(held[r])
        BY DEF Executing
      <4> QED BY <3>1, <4>1 DEF StaleBudget
    <3>3. /\ \A x \in Keys \ {held[r]} : status'[x] = status[x]
          /\ status'[held[r]] # "absent"
      BY <2>9, <3>1, <3>2 DEF Settle, CompleteRow, Requeue, RequeueRow, SetStatus, storeVars,
                             TypeOK, StoreTypeOK
    <3> QED BY <3>1, <3>3, BudgetDropped
  <2>10. ASSUME NEW r \in Runners, LoseOutcome(r) \/ Crash(r)
         PROVE  StaleBudget'
    <3>1. status' = status /\ stale' = stale /\ held' = [held EXCEPT ![r] = NoKey]
      BY <2>10 DEF LoseOutcome, Release, Crash
    <3>2. CASE held[r] \in Keys
      <4>1. r \in Executing(held[r])
        BY DEF Executing
      <4>2. status[held[r]] # "absent"
        BY <3>2, <4>1 DEF StaleBudget
      <4> QED BY <3>1, <3>2, <4>2, BudgetDropped
    <3>3. CASE held[r] = NoKey
      <4>1. held' = held
        BY <3>1, <3>3 DEF TypeOK
      <4> QED BY <3>1, <4>1, BudgetKept
    <3> QED BY <3>2, <3>3 DEF TypeOK
  <2>11. ASSUME NEW r \in Runners, Restart(r)
         PROVE  StaleBudget'
    BY <2>11, BudgetKept DEF Restart
  <2>12. ASSUME NEW k \in Keys, Age(k)
         PROVE  StaleBudget'
    BY <2>12, BudgetKept DEF Age, AgeRow, runnerVars
  <2>13. CASE UNCHANGED vars
    BY <2>13, BudgetKept DEF vars
  <2> QED
    BY <2>1, <2>2, <2>3, <2>4, <2>5, <2>6, <2>7, <2>8, <2>9, <2>10, <2>11, <2>12, <2>13
       DEF Next, ClientStep, RunnerStep, Work
<1> QED BY <1>1, <1>2, TypeCorrect, PTL DEF Spec

(* The case a deployment relies on: a command no row of which ever         *)
(* outlived the window is executed by one runner at a time.                *)
COROLLARY NeverStaleNeverTwice ==
  Spec => []\A k \in Keys : stale[k] = 0 => Cardinality(Executing(k)) <= 1
<1>1. TypeOK /\ StaleBudget => \A k \in Keys : stale[k] = 0 => Cardinality(Executing(k)) <= 1
  BY DEF TypeOK, StaleBudget
<1> QED BY <1>1, TypeCorrect, BudgetHolds, PTL

-----------------------------------------------------------------------------
(* An answer names a row that exists, and no row ever changes its hash.    *)
THEOREM AnswersHold == Spec => []AnswersAgree
<1>1. Init => AnswersAgree
  BY DEF Init, AnswersAgree
<1>2. TypeOK /\ AnswersAgree /\ [Next]_vars => AnswersAgree'
  <2> SUFFICES ASSUME TypeOK, AnswersAgree, [Next]_vars PROVE AnswersAgree'
    OBVIOUS
  <2>1. ASSUME NEW c \in Clients, NEW k \in Keys, NEW h \in Hashes, LookupReplay(c, k, h)
        PROVE  AnswersAgree'
    BY <2>1 DEF LookupReplay, AnswersAgree
  <2>2. ASSUME NEW c \in Clients, Insert(c)
        PROVE  AnswersAgree'
    <3>1. call[c].key \in Keys /\ call[c].hash \in Hashes
      BY <2>2 DEF Insert, TypeOK, Calls, Idle
    <3>2. hash[call[c].key] = NoHash
      BY <2>2, <3>1 DEF Insert, InsertRow, TypeOK
    <3>3. \A a \in answered : a[1] # call[c].key
      BY <3>2, NoValueAssumption DEF AnswersAgree, TypeOK
    <3>4. /\ answered' = answered \cup {<<call[c].key, call[c].hash>>}
          /\ hash' = [hash EXCEPT ![call[c].key] = call[c].hash]
      BY <2>2 DEF Insert
    <3>5. \A a \in answered : a[1] \in Keys
      BY DEF TypeOK
    <3>6. \A a \in answered : hash'[a[1]] = a[2]
      BY <3>3, <3>4, <3>5 DEF AnswersAgree, TypeOK
    <3> QED BY <3>1, <3>4, <3>6 DEF AnswersAgree, TypeOK
  <2>3. CASE UNCHANGED << hash, answered >>
    BY <2>3 DEF AnswersAgree
  <2> QED
    BY <2>1, <2>2, <2>3
       DEF Next, ClientStep, RunnerStep, Work, LookupMiss, LookupConflict, Stamp, InsertRefused,
           Recover, RecoverAgain, Claim, Execute, ExecuteRecording, Defer, Settle, Requeue,
           LoseOutcome, Crash, Restart, Age, vars, queueVars
<1> QED BY <1>1, <1>2, TypeCorrect, PTL DEF Spec

(* An ended command is never put back: every write that could is guarded   *)
(* by status = 'processing' in the row itself.                             *)
THEOREM EndedStaysEnded == Spec => NeverResurrected
<1> DEFINE Ended == \A k \in Keys : status[k] \in Terminal => status'[k] \in Terminal
<1>1. TypeOK /\ [Next]_vars => Ended
  <2> SUFFICES ASSUME TypeOK, [Next]_vars, NEW k \in Keys, status[k] \in Terminal
               PROVE  status'[k] \in Terminal
    OBVIOUS
  <2>1. CASE UNCHANGED status
    BY <2>1
  <2>2. ASSUME NEW c \in Clients, Stamp(c) \/ Insert(c)
        PROVE  status'[k] \in Terminal
    BY <2>2 DEF Stamp, StampConflict, Insert, InsertRow, SetStatus, Terminal, TypeOK, StoreTypeOK
  <2>3. ASSUME NEW r \in Runners, Recover(r) \/ RecoverAgain(r)
        PROVE  status'[k] \in Terminal
    BY <2>3 DEF Recover, RecoverAgain, ReleaseStale, RequeueStaleRows, Terminal, TypeOK, StoreTypeOK
  <2>4. ASSUME NEW r \in Runners, NEW x \in Keys, Claim(r, x)
        PROVE  status'[k] \in Terminal
    BY <2>4 DEF Claim, ClaimRow, SetStatus, Terminal, TypeOK, StoreTypeOK
  <2>5. ASSUME NEW r \in Runners, NEW s \in {"completed", "failed"}, ExecuteRecording(r, s)
        PROVE  status'[k] \in Terminal
    BY <2>5 DEF ExecuteRecording, RecordOutcome, SetStatus, Terminal, TypeOK, StoreTypeOK
  <2>6. ASSUME NEW r \in Runners, Settle(r) \/ Requeue(r)
        PROVE  status'[k] \in Terminal
    BY <2>6 DEF Settle, CompleteRow, Requeue, RequeueRow, SetStatus, storeVars,
                Terminal, TypeOK, StoreTypeOK
  <2> QED
    BY <2>1, <2>2, <2>3, <2>4, <2>5, <2>6
       DEF Next, ClientStep, RunnerStep, Work, LookupMiss, LookupReplay, LookupConflict,
           InsertRefused, Execute, Defer, LoseOutcome, Crash, Restart, Age, AgeRow, vars
<1>2. Ended => [Ended]_vars
  OBVIOUS
<1> QED BY <1>1, TypeCorrect, PTL DEF Spec, NeverResurrected

-----------------------------------------------------------------------------
(* The refinement: writing one row, as the client sees it.                 *)
LEMMA WriteSeen ==
  ASSUME StoreTypeOK, NEW k \in Keys, NEW s \in RowStatus, SetStatus(k, s)
  PROVE  Outcome' = [Outcome EXCEPT ![k] = SeenAs(s)]
<1>1. status'[k] = s /\ \A x \in Keys \ {k} : status'[x] = status[x]
  BY SetStatusType
<1>2. Outcome' = [x \in Keys |-> SeenAs(status'[x])]
  BY DEF Outcome
<1>3. Outcome = [x \in Keys |-> SeenAs(status[x])]
  BY DEF Outcome
<1>4. \A x \in Keys \ {k} : SeenAs(status'[x]) = SeenAs(status[x])
  BY <1>1
<1>5. SeenAs(status'[k]) = SeenAs(s)
  BY <1>1
<1> QED BY <1>2, <1>3, <1>4, <1>5

(* What a client can observe of the queue is what CommandPromise allows:   *)
(* claims, requeues, stale releases, crashes and restarts are stutters.    *)
THEOREM QueueKeepsPromise == Spec => KeepsPromise
<1>1. Init => Promise!Init
  BY DEF Init, StoreInit, Promise!Init, Outcome, SeenAs
<1>2. TypeOK /\ [Next]_vars => [Promise!Next]_(Promise!vars)
  <2> SUFFICES ASSUME TypeOK, [Next]_vars,
                      ~ (Outcome' = Outcome /\ hash' = hash /\ answered' = answered)
               PROVE  Promise!Next
    BY DEF Promise!vars
  <2>1. ASSUME NEW c \in Clients, NEW k \in Keys, NEW h \in Hashes, LookupReplay(c, k, h)
        PROVE  Promise!Next
    <3>1. Outcome' = Outcome
      BY <2>1 DEF LookupReplay, Outcome
    <3>2. Outcome[k] # "none"
      BY <2>1 DEF LookupReplay, Outcome, SeenAs
    <3>3. Promise!Replay(k)
      BY <2>1, <3>1, <3>2 DEF LookupReplay, Promise!Replay
    <3> QED BY <3>3 DEF Promise!Next
  <2>2. ASSUME NEW c \in Clients, Stamp(c)
        PROVE  Promise!Next
    <3> PICK k \in Keys : k = call[c].key
      BY <2>2 DEF Stamp, TypeOK, Calls, Idle
    <3>1. status[k] # "absent" /\ SetStatus(k, "conflict") /\ hash' = hash /\ answered' = answered
      BY <2>2 DEF Stamp, StampConflict
    <3>2. Outcome' = [Outcome EXCEPT ![k] = "refused"]
      BY <3>1, WriteSeen DEF TypeOK, RowStatus, Terminal, SeenAs
    <3>3. Outcome[k] # "none"
      BY <3>1 DEF Outcome, SeenAs
    <3>4. Promise!Refuse(k)
      BY <3>1, <3>2, <3>3 DEF Promise!Refuse
    <3> QED BY <3>4 DEF Promise!Next
  <2>3. ASSUME NEW c \in Clients, Insert(c)
        PROVE  Promise!Next
    <3> PICK k \in Keys, h \in Hashes : k = call[c].key /\ h = call[c].hash
      BY <2>3 DEF Insert, TypeOK, Calls, Idle
    <3>1. status[k] = "absent" /\ SetStatus(k, "accepted")
      BY <2>3 DEF Insert, InsertRow
    <3>2. Outcome' = [Outcome EXCEPT ![k] = "owed"]
      BY <3>1, WriteSeen DEF TypeOK, RowStatus, SeenAs
    <3>3. Outcome[k] = "none"
      BY <3>1 DEF Outcome, SeenAs
    <3>4. Promise!Accept(k, h)
      BY <2>3, <3>2, <3>3 DEF Insert, Promise!Accept
    <3> QED BY <3>4 DEF Promise!Next
  <2>4. ASSUME NEW r \in Runners, Recover(r) \/ RecoverAgain(r)
        PROVE  FALSE
    <3>1. \A k \in Keys : SeenAs(status'[k]) = SeenAs(status[k])
      BY <2>4 DEF Recover, RecoverAgain, ReleaseStale, RequeueStaleRows, SeenAs,
                  TypeOK, StoreTypeOK
    <3>2. Outcome' = Outcome
      BY <3>1 DEF Outcome
    <3> QED BY <2>4, <3>2 DEF Recover, RecoverAgain, queueVars
  <2>5. ASSUME NEW r \in Runners, NEW k \in Keys, Claim(r, k)
        PROVE  FALSE
    <3>1. status[k] = "accepted" /\ SetStatus(k, "processing") /\ hash' = hash /\ answered' = answered
      BY <2>5 DEF Claim, ClaimRow, queueVars
    <3>2. Outcome' = [Outcome EXCEPT ![k] = "owed"] /\ Outcome[k] = "owed"
      BY <3>1, WriteSeen DEF TypeOK, RowStatus, SeenAs, Outcome
    <3>3. Outcome' = Outcome
      BY <3>2 DEF Outcome
    <3> QED BY <3>1, <3>3
  <2>6. ASSUME NEW r \in Runners, NEW s \in {"completed", "failed"}, ExecuteRecording(r, s)
        PROVE  Promise!Next
    <3> PICK k \in Keys : k = held[r]
      BY <2>6 DEF ExecuteRecording, TypeOK, Busy
    <3>1. status[k] # "absent" /\ SetStatus(k, s) /\ hash' = hash /\ answered' = answered
      BY <2>6 DEF ExecuteRecording, RecordOutcome, queueVars
    <3>2. Outcome' = [Outcome EXCEPT ![k] = "done"]
      BY <3>1, WriteSeen DEF TypeOK, RowStatus, Terminal, SeenAs
    <3>3. Outcome[k] = "done" => Outcome' = Outcome
      BY <3>2 DEF Outcome
    <3>4. Outcome[k] \in {"owed", "done", "refused"}
      BY <3>1 DEF Outcome, SeenAs
    <3>5. Promise!Serve(k)
      BY <3>1, <3>2, <3>3, <3>4 DEF Promise!Serve
    <3> QED BY <3>5 DEF Promise!Next
  <2>7. ASSUME NEW r \in Runners, Settle(r) \/ Requeue(r)
        PROVE  Promise!Next
    <3> PICK k \in Keys : k = held[r]
      BY <2>7 DEF Settle, Requeue, TypeOK, Busy
    <3>1. hash' = hash /\ answered' = answered
      BY <2>7 DEF Settle, Requeue, queueVars
    <3>2. status' # status
      BY <3>1 DEF Outcome
    <3>3. status[k] = "processing"
      BY <2>7, <3>2 DEF Settle, CompleteRow, Requeue, RequeueRow, storeVars
    <3>4. SetStatus(k, "completed") \/ SetStatus(k, "accepted")
      BY <2>7, <3>3 DEF Settle, CompleteRow, Requeue, RequeueRow
    <3>5. Outcome[k] = "owed"
      BY <3>3 DEF Outcome, SeenAs
    <3>6. CASE SetStatus(k, "accepted")
      <4>1. Outcome' = [Outcome EXCEPT ![k] = "owed"]
        BY <3>6, WriteSeen DEF TypeOK, RowStatus, SeenAs
      <4>2. Outcome' = Outcome
        BY <4>1, <3>5 DEF Outcome
      <4> QED BY <3>1, <4>2
    <3>7. CASE SetStatus(k, "completed")
      <4>1. Outcome' = [Outcome EXCEPT ![k] = "done"]
        BY <3>7, WriteSeen DEF TypeOK, RowStatus, Terminal, SeenAs
      <4>2. Promise!Serve(k)
        BY <3>1, <3>5, <4>1 DEF Promise!Serve
      <4> QED BY <4>2 DEF Promise!Next
    <3> QED BY <3>4, <3>6, <3>7
  <2>8. CASE UNCHANGED << status, hash, answered >>
    BY <2>8 DEF Outcome
  <2> QED
    BY <2>1, <2>2, <2>3, <2>4, <2>5, <2>6, <2>7, <2>8
       DEF Next, ClientStep, RunnerStep, Work, LookupMiss, LookupConflict, InsertRefused,
           Execute, Defer, LoseOutcome, Crash, Restart, Age, AgeRow, vars, queueVars
<1> QED BY <1>1, <1>2, TypeCorrect, PTL DEF Spec, KeepsPromise, Promise!Spec
=============================================================================
