---------------------------- MODULE CommandQueue ----------------------------
(***************************************************************************)
(* The command queue of paper_trading: clients (WebUI, Telegram, the day   *)
(* scheduler) call PaperRepository.submit_command, and runners take the    *)
(* rows through the claim / execute / settle cycle of                      *)
(* PaperRunner._process_commands.                                          *)
(*                                                                         *)
(* submit_command is three transactions (lookup, then stamp or insert), so *)
(* two clients interleave between them.  A runner is one process: it holds *)
(* at most one command, may crash while holding it, and its start-up       *)
(* recovery may run while another runner is still busy.                    *)
(***************************************************************************)
EXTENDS CommandStore, Naturals, FiniteSets

CONSTANTS Hashes,        \* SHA-256 of the payloads a key is submitted with
          Clients,       \* concurrent callers of submit_command
          Runners,       \* runner processes
          MaxSubmits,    \* bound on the number of submit_command calls
          MaxStale,      \* bound on how often one row outlives the window
          MaxCrashes,    \* bound on runner crashes
          MaxFaults,     \* bound on failed settling writes
          NoHash, NoKey  \* no payload hash, no command

ASSUME BoundsAssumption ==
  /\ MaxSubmits \in Nat
  /\ MaxStale \in Nat
  /\ MaxCrashes \in Nat
  /\ MaxFaults \in Nat

ASSUME RunnersAssumption == IsFiniteSet(Runners)

ASSUME NoValueAssumption == NoHash \notin Hashes /\ NoKey \notin Keys

VARIABLES hash,          \* request_hash of each row
          call,          \* the submit_command call each client is inside
          answered,      \* history: the <<key, hash>> answered with a command
          held,          \* the command each runner is executing
          phase,         \* where each runner is in its cycle
          again,         \* the runners whose second start-up recovery is due
          stale,         \* history: how often each key was released as stale
          submits, crashes, faults

queueVars == << hash, call, answered >>
runnerVars == << held, phase, again >>
bounds == << submits, crashes, faults >>
vars == << status, aged, hash, call, answered, held, phase, again,
           stale, submits, crashes, faults >>

Idle == [step |-> "idle", key |-> NoKey, hash |-> NoHash]
Calls == [step : {"stamp", "insert"}, key : Keys, hash : Hashes] \cup {Idle}
Phases == {"down", "recovering", "ready", "execute", "settle", "requeue"}
Busy == {"execute", "settle", "requeue"}

TypeOK ==
  /\ StoreTypeOK
  /\ hash \in [Keys -> Hashes \cup {NoHash}]
  /\ \A k \in Keys : hash[k] = NoHash <=> status[k] = "absent"
  /\ call \in [Clients -> Calls]
  /\ answered \subseteq Keys \X Hashes
  /\ held \in [Runners -> Keys \cup {NoKey}]
  /\ phase \in [Runners -> Phases]
  /\ \A r \in Runners : phase[r] \in Busy <=> held[r] # NoKey
  /\ again \subseteq {r \in Runners : phase[r] # "down"}
  /\ stale \in [Keys -> Nat]
  /\ submits \in Nat /\ crashes \in Nat /\ faults \in Nat

Init ==
  /\ StoreInit
  /\ hash = [k \in Keys |-> NoHash]
  /\ call = [c \in Clients |-> Idle]
  /\ answered = {}
  /\ held = [r \in Runners |-> NoKey]
  /\ phase = [r \in Runners |-> "recovering"]
  /\ again = Runners
  /\ stale = [k \in Keys |-> 0]
  /\ submits = 0 /\ crashes = 0 /\ faults = 0

-----------------------------------------------------------------------------
(* Clients: submit_command.                                                *)

(* First transaction, no row under the key: go on to the INSERT.           *)
LookupMiss(c, k, h) ==
  /\ call[c] = Idle
  /\ submits < MaxSubmits
  /\ status[k] = "absent"
  /\ call' = [call EXCEPT ![c] = [step |-> "insert", key |-> k, hash |-> h]]
  /\ submits' = submits + 1
  /\ UNCHANGED << status, aged, hash, answered, runnerVars, stale, crashes, faults >>

(* Seeded defect: the replay does not compare the payload's hash.          *)
LookupReplayAnyHash(c, k, h) ==
  /\ call[c] = Idle
  /\ submits < MaxSubmits
  /\ status[k] # "absent"
  /\ answered' = answered \cup {<<k, h>>}
  /\ submits' = submits + 1
  /\ UNCHANGED << status, aged, hash, call, runnerVars, stale, crashes, faults >>

(* Same key, same hash: the existing command is the answer.                *)
LookupReplay(c, k, h) ==
  /\ call[c] = Idle
  /\ submits < MaxSubmits
  /\ status[k] # "absent"
  /\ hash[k] = h
  /\ answered' = answered \cup {<<k, h>>}
  /\ submits' = submits + 1
  /\ UNCHANGED << status, aged, hash, call, runnerVars, stale, crashes, faults >>

(* Same key, another hash: remember the row and stamp it next.             *)
LookupConflict(c, k, h) ==
  /\ call[c] = Idle
  /\ submits < MaxSubmits
  /\ status[k] # "absent"
  /\ hash[k] # h
  /\ call' = [call EXCEPT ![c] = [step |-> "stamp", key |-> k, hash |-> h]]
  /\ submits' = submits + 1
  /\ UNCHANGED << status, aged, hash, answered, runnerVars, stale, crashes, faults >>

(* The stamp in a transaction of its own, then IdempotencyConflict.        *)
Stamp(c) ==
  /\ call[c].step = "stamp"
  /\ StampConflict(call[c].key)
  /\ call' = [call EXCEPT ![c] = Idle]
  /\ UNCHANGED << hash, answered, runnerVars, stale, bounds >>

(* The INSERT; the command just built is the answer.                       *)
Insert(c) ==
  /\ call[c].step = "insert"
  /\ InsertRow(call[c].key)
  /\ hash' = [hash EXCEPT ![call[c].key] = call[c].hash]
  /\ answered' = answered \cup {<<call[c].key, call[c].hash>>}
  /\ call' = [call EXCEPT ![c] = Idle]
  /\ UNCHANGED << runnerVars, stale, bounds >>

(* Another client inserted the key between this one's two transactions:    *)
(* UniqueViolation reaches the caller, nothing is written.                 *)
InsertRefused(c) ==
  /\ call[c].step = "insert"
  /\ status[call[c].key] # "absent"
  /\ call' = [call EXCEPT ![c] = Idle]
  /\ UNCHANGED << status, aged, hash, answered, runnerVars, stale, bounds >>

ClientStep ==
  \E c \in Clients :
    \/ \E k \in Keys, h \in Hashes :
         LookupMiss(c, k, h) \/ LookupReplay(c, k, h) \/ LookupConflict(c, k, h)
    \/ Stamp(c)
    \/ Insert(c)
    \/ InsertRefused(c)

-----------------------------------------------------------------------------
(* Runners: recover and _process_commands.                                 *)

(* recover() releases what a dead runner left past the window.             *)
ReleaseStale ==
  /\ RequeueStaleRows
  /\ stale' = [k \in Keys |-> IF k \in aged THEN stale[k] + 1 ELSE stale[k]]

(* run_cycle recovers before its first poll.                               *)
Recover(r) ==
  /\ phase[r] = "recovering"
  /\ ReleaseStale
  /\ phase' = [phase EXCEPT ![r] = "ready"]
  /\ UNCHANGED << queueVars, held, again, bounds >>

(* The one-shot start-up job recovers once more, concurrently with the     *)
(* cycles of the same process.                                             *)
RecoverAgain(r) ==
  /\ r \in again
  /\ ReleaseStale
  /\ again' = again \ {r}
  /\ UNCHANGED << queueVars, held, phase, bounds >>

(* The poll found the row and the claim won it.                            *)
Claim(r, k) ==
  /\ phase[r] = "ready"
  /\ ClaimRow(k)
  /\ held' = [held EXCEPT ![r] = k]
  /\ phase' = [phase EXCEPT ![r] = "execute"]
  /\ UNCHANGED << queueVars, again, stale, bounds >>

(* _execute_command returned True: the generic settle pass follows.        *)
Execute(r) ==
  /\ phase[r] = "execute"
  /\ phase' = [phase EXCEPT ![r] = "settle"]
  /\ UNCHANGED << status, aged, queueVars, held, again, stale, bounds >>

(* _handle_set_automation names its own outcome through _finish_command    *)
(* and then returns True.                                                  *)
ExecuteRecording(r, s) ==
  /\ phase[r] = "execute"
  /\ RecordOutcome(held[r], s)
  /\ phase' = [phase EXCEPT ![r] = "settle"]
  /\ UNCHANGED << queueVars, held, again, stale, bounds >>

(* _execute_command returned False: a deferral, to be requeued.            *)
Defer(r) ==
  /\ phase[r] = "execute"
  /\ phase' = [phase EXCEPT ![r] = "requeue"]
  /\ UNCHANGED << status, aged, queueVars, held, again, stale, bounds >>

(* The command leaves the runner's hands.                                  *)
Release(r) == /\ held' = [held EXCEPT ![r] = NoKey]
              /\ phase' = [phase EXCEPT ![r] = "ready"]

Settle(r) ==
  /\ phase[r] = "settle"
  /\ CompleteRow(held[r])
  /\ Release(r)
  /\ UNCHANGED << queueVars, again, stale, bounds >>

Requeue(r) ==
  /\ phase[r] = "requeue"
  /\ RequeueRow(held[r])
  /\ Release(r)
  /\ UNCHANGED << queueVars, again, stale, bounds >>

(* The settling or requeueing write fails, or the handler raises out of    *)
(* the loop: the exception is logged and the row stays as it is.           *)
LoseOutcome(r) ==
  /\ phase[r] \in Busy
  /\ faults < MaxFaults
  /\ faults' = faults + 1
  /\ Release(r)
  /\ UNCHANGED << status, aged, queueVars, again, stale, submits, crashes >>

Crash(r) ==
  /\ phase[r] # "down"
  /\ crashes < MaxCrashes
  /\ crashes' = crashes + 1
  /\ phase' = [phase EXCEPT ![r] = "down"]
  /\ held' = [held EXCEPT ![r] = NoKey]
  /\ again' = again \ {r}
  /\ UNCHANGED << status, aged, queueVars, stale, submits, faults >>

Restart(r) ==
  /\ phase[r] = "down"
  /\ phase' = [phase EXCEPT ![r] = "recovering"]
  /\ again' = again \cup {r}
  /\ UNCHANGED << status, aged, queueVars, held, stale, bounds >>

(* Time passes: a processing row outlives the window.                      *)
Age(k) == /\ stale[k] < MaxStale
          /\ AgeRow(k)
          /\ UNCHANGED << queueVars, runnerVars, stale, bounds >>

Work(r) ==
  \/ Recover(r)
  \/ RecoverAgain(r)
  \/ \E k \in Keys : Claim(r, k)
  \/ Execute(r)
  \/ \E s \in {"completed", "failed"} : ExecuteRecording(r, s)
  \/ Defer(r)
  \/ Settle(r)
  \/ Requeue(r)

RunnerStep == \E r \in Runners : Work(r) \/ LoseOutcome(r) \/ Crash(r) \/ Restart(r)

Next == ClientStep \/ RunnerStep \/ \E k \in Keys : Age(k)

Spec == Init /\ [][Next]_vars

(***************************************************************************)
(* Fairness.  APScheduler runs the cycle every two seconds, so a runner    *)
(* that can take its next step takes it; the process is restarted by the   *)
(* container's restart policy.  One cycle tries every polled row, so a row *)
(* that keeps coming back to accepted is claimed again, and the market     *)
(* data a deferred handler waits for comes back in the end: strong         *)
(* fairness on the claim of each key and on a handler finishing.           *)
(* Clients, crashes and faults are never owed a step.                      *)
(***************************************************************************)
Fairness ==
  /\ \A r \in Runners : WF_vars(Work(r)) /\ WF_vars(Restart(r))
  /\ \A r \in Runners : SF_vars(Execute(r))
  /\ \A k \in Keys : SF_vars(\E r \in Runners : Claim(r, k))
  /\ \A k \in Keys : WF_vars(Age(k))

FairSpec == Spec /\ Fairness

-----------------------------------------------------------------------------
(* Properties.                                                             *)

Executing(k) == {r \in Runners : held[r] = k}

(* claim_command and the settle / requeue guards together: however runners *)
(* crash, hang past the window and requeue each other's rows, a command is *)
(* being executed by at most one runner more than the number of times it   *)
(* was released as stale -- so by one runner exactly when it never was --  *)
(* and a row that is offered again has used up one of those releases.      *)
StaleBudget ==
  \A k \in Keys :
    /\ Cardinality(Executing(k)) <= stale[k] + 1
    /\ status[k] = "accepted" => Cardinality(Executing(k)) <= stale[k]
    /\ status[k] = "absent" => Executing(k) = {}

(* submit_command's idempotent replay: whatever two clients race to insert *)
(* under one key, every call answered with a command for that key was      *)
(* asking for the payload the stored command was inserted with.            *)
AnswersAgree == \A a \in answered : hash[a[1]] = a[2]

(* requeue_command and complete_command act on processing rows only, so a  *)
(* command that reached an end is never put back into the queue, not even  *)
(* by a runner that lost it to another one and finishes late.              *)
NeverResurrected ==
  [][\A k \in Keys : status[k] \in Terminal => status'[k] \in Terminal]_vars

(* What a client sees of a row's status.                                   *)
SeenAs(s) == CASE s = "absent" -> "none"
               [] s \in {"accepted", "processing"} -> "owed"
               [] s \in {"completed", "failed"} -> "done"
               [] OTHER -> "refused"
Outcome == [k \in Keys |-> SeenAs(status[k])]

(* The abstract promise: see CommandPromise.                               *)
Promise == INSTANCE CommandPromise WITH
  outcome <- Outcome,
  request <- hash

(* The queue keeps the promise it makes to its clients: claims, requeues,  *)
(* stale releases and crashes are invisible to them.                       *)
KeepsPromise == Promise!Spec

(* An accepted command comes to an end, unless a process died or a write   *)
(* of an outcome was lost on the way.                                      *)
AcceptedSettles ==
  \A k \in Keys : status[k] = "accepted" ~>
                     (status[k] \in Terminal \/ crashes > 0 \/ faults > 0)
=============================================================================
