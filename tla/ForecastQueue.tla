--------------------------- MODULE ForecastQueue ---------------------------
(***************************************************************************)
(* The forecast queue of the web UI: requests and their jobs in            *)
(* PostgreSQL, the worker and the refresher every web process runs, the    *)
(* two endpoints that queue a forecast under an idempotency key, and what  *)
(* a status poll answers from the row and the Redis heartbeat.             *)
(*                                                                         *)
(* A worker runs a whole attempt in one transaction: it keeps its own      *)
(* version of the row, which the others see only after the commit.  A      *)
(* crash, a shutdown or a lost connection rolls it back.  The container    *)
(* restarts at once.  A row stands for the forecast_requests row, its      *)
(* forecast_jobs row and its model runs: they are inserted together and    *)
(* deleted together (ON DELETE CASCADE).  Every request is for one symbol. *)
(***************************************************************************)
EXTENDS Integers, FiniteSets

CONSTANTS
    Web,          \* web processes
    Keys,         \* what clients send as the idempotency key, NoKey for none
    Intents,      \* what a client may ask for
    NoKey,        \* a request sent without a key
    MaxPerDay,    \* FORECAST_AUTO_REFRESH_MAX_PER_DAY
    MaxRequests   \* bound: requests ever inserted

ASSUME QueueAssumption ==
    /\ MaxPerDay \in Nat
    /\ MaxRequests \in Nat
    /\ "operator" \notin Web

Requests == 1..MaxRequests
Sources  == {"legacy", "v3", "auto"}
Settled  == {"completed", "failed", "expired"}

\* The ages a row passes through: the refresher's cooldown is over, then the
\* job's 30 minute deadline, then the row leaves the refresher's 24 h window.
Fresh == 0
Cooled == 1
Overdue == 2
Old == 3

VARIABLES
    row,      \* the committed rows
    age,      \* of each row
    lapsed,   \* forecasts whose last target time has passed
    beat,     \* requests whose heartbeat key is alive in Redis
    work,     \* each worker's attempt: the request and its uncommitted row
    fresh,    \* each refresher's cycle: its next read, or the enqueue it decided
    answers   \* history: what each (source, key, intent) was answered

vars == <<row, age, lapsed, beat, work, fresh, answers>>

\* The row of an id the sequence has not given yet, or of a deleted request.
NoRow == [status |-> "none", exec |-> "none", job |-> "none", result |-> "none",
          source |-> "none", key |-> NoKey, intent |-> "none", by |-> "none"]
Gone  == [NoRow EXCEPT !.status = "gone"]

\* A row just queued: by names the refresher that asked, if one did.
Queued(s, k, i, p) ==
    [status |-> "pending", exec |-> "queued", job |-> "queued", result |-> "none",
     source |-> s, key |-> k, intent |-> i, by |-> p]

Unborn(r) == row[r].status = "none"
Exists(r) == row[r].status \notin {"none", "gone"}

Idle    == [req |-> 0, draft |-> NoRow]

Init ==
    /\ row = [r \in Requests |-> NoRow]
    /\ age = [r \in Requests |-> Fresh]
    /\ lapsed = {}
    /\ beat = {}
    /\ work = [p \in Web |-> Idle]
    /\ fresh = [p \in Web |-> "rest"]
    /\ answers = {}
-----------------------------------------------------------------------------
(* Queueing a request.                                                      *)

\* The insert of the request and of its job: ids come from a sequence.
Insert(s, k, i, p) ==
    \E r \in Requests :
        /\ Unborn(r)
        /\ \A q \in Requests : q < r => ~Unborn(q)
        /\ row' = [row EXCEPT ![r] = Queued(s, k, i, p)]
        /\ answers' = IF k = NoKey THEN answers ELSE answers \cup {<<s, k, i, r>>}

\* The request already queued under this key of this source.
Previous(s, k) == {r \in Requests : Exists(r) /\ k # NoKey /\ row[r].key = k /\ row[r].source = s}

\* Defect: the replay does not look at what was asked.
AnyIntent(r, i) == TRUE

\* A replay is answered with the stored request when the intent is the same.
SameIntent(r, i) == row[r].intent = i

\* The advisory lock on the key makes look-up and insert one step.  A key used
\* for another intent is answered 409, which changes nothing.
Ask(s, k, i, p) ==
    IF Previous(s, k) = {}
      THEN Insert(s, k, i, p)
      ELSE \E r \in Previous(s, k) :
             /\ SameIntent(r, i)
             /\ answers' = answers \cup {<<s, k, i, r>>}
             /\ UNCHANGED row

QueuePrediction(k, i) ==
    /\ Ask("legacy", k, i, "operator")
    /\ UNCHANGED <<age, lapsed, beat, work, fresh>>

CreateForecast(k, i) ==
    /\ Ask("v3", k, i, "operator")
    /\ UNCHANGED <<age, lapsed, beat, work, fresh>>

\* Deleting the request cascades to its job and results; the lock an attempt
\* holds on the row makes the delete wait for the attempt's end.
DeleteRequest(r) ==
    /\ Exists(r)
    /\ \A p \in Web : work[p].req # r
    /\ row' = [row EXCEPT ![r] = Gone]
    /\ lapsed' = lapsed \ {r}
    /\ UNCHANGED <<age, beat, work, fresh, answers>>
-----------------------------------------------------------------------------
(* The worker: process_one.                                                 *)

\* FOR UPDATE SKIP LOCKED: the rows of attempts in progress are passed over.
Unlocked(r) == \A p \in Web : work[p].req # r

Waiting == {r \in Requests : row[r].job \in {"queued", "running"} /\ Unlocked(r)}

\* The oldest waiting job, if the worker is free.
Picks(p, r) ==
    /\ work[p].req = 0
    /\ r \in Waiting
    /\ \A q \in Waiting : r <= q

\* Defect: every job is attempted, however old.
NeverExpired(r) == FALSE

Expired(r) == age[r] >= Overdue

\* An expired job is settled without running.
Expire(p) ==
    \E r \in Requests :
        /\ Picks(p, r)
        /\ Expired(r)
        /\ row' = [row EXCEPT ![r].job = "expired", ![r].exec = "expired",
                              ![r].status = "failed"]
        /\ UNCHANGED <<age, lapsed, beat, work, fresh, answers>>

\* The running mark is written in the attempt's transaction only.
PickUp(p) ==
    \E r \in Requests :
        /\ Picks(p, r)
        /\ ~Expired(r)
        /\ work' = [work EXCEPT ![p] =
              [req |-> r, draft |-> [row[r] EXCEPT !.job = "running", !.exec = "running"]]]
        /\ UNCHANGED <<row, age, lapsed, beat, fresh, answers>>

Attempting(p) == work[p].req # 0
Answered(p) == work[p].draft.result # "none"

Heartbeat(p) ==
    /\ Attempting(p)
    /\ beat' = beat \cup {work[p].req}
    /\ UNCHANGED <<row, age, lapsed, work, fresh, answers>>

\* The key's 15 s pass without a refresh: the attempt is over, its process is
\* gone, or Redis could not be reached.
HeartbeatLost(r) ==
    /\ r \in beat
    /\ beat' = beat \ {r}
    /\ UNCHANGED <<row, age, lapsed, work, fresh, answers>>

\* The runner writes its results inside the savepoint: partial when a role of
\* the bundle failed.
RunnerWrites(p, quality) ==
    /\ Attempting(p) /\ ~Answered(p)
    /\ work' = [work EXCEPT ![p].draft.status = "active",
                            ![p].draft.exec = quality,
                            ![p].draft.result = quality]
    /\ UNCHANGED <<row, age, lapsed, beat, fresh, answers>>

\* The runner raised or timed out: the savepoint takes its writes back and the
\* attempt commits a failure.
FailedRow(d) == [d EXCEPT !.job = "failed", !.exec = "failed", !.status = "failed"]

RunnerRaises(p) ==
    /\ Attempting(p) /\ ~Answered(p)
    /\ row' = [row EXCEPT ![work[p].req] = FailedRow(work[p].draft)]
    /\ work' = [work EXCEPT ![p] = Idle]
    /\ UNCHANGED <<age, lapsed, beat, fresh, answers>>

\* Defect, remembered by the comment on the completion: completed overwrote the
\* quality the runner had declared.
CompletedRowForced(d) ==
    [d EXCEPT !.job = "completed", !.status = "completed", !.exec = "completed"]

\* COALESCE: the quality the runner declared is kept.
CompletedRow(d) ==
    [d EXCEPT !.job = "completed", !.status = "completed",
              !.exec = IF d.exec = "none" THEN "completed" ELSE d.exec]

Commit(p) ==
    /\ Attempting(p) /\ Answered(p)
    /\ row' = [row EXCEPT ![work[p].req] = CompletedRow(work[p].draft)]
    /\ work' = [work EXCEPT ![p] = Idle]
    /\ UNCHANGED <<age, lapsed, beat, fresh, answers>>

\* The process dies or is stopped, or its connection drops: PostgreSQL rolls
\* the attempt back, and nothing of it is left.
RollBack(p) ==
    /\ Attempting(p)
    /\ work' = [work EXCEPT ![p] = Idle]
    /\ UNCHANGED <<row, age, lapsed, beat, fresh, answers>>
-----------------------------------------------------------------------------
(* The refresher: run_forecast_refresh_cycle, three reads and a decision.   *)

Completed == {r \in Requests : row[r].status = "completed"}

\* The newest completed forecast still reaches into the future.
Covered == \E r \in Completed : r \notin lapsed /\ \A q \in Completed : q <= r

InFlight == {r \in Requests : row[r].job \in {"queued", "running"}}
AutoRows == {r \in Requests : Exists(r) /\ row[r].source = "auto" /\ age[r] < Old}

\* A covered session ends the cycle, whatever the two other reads find.
ReadTarget(p) ==
    /\ fresh[p] = "rest"
    /\ ~Covered
    /\ fresh' = [fresh EXCEPT ![p] = "flight"]
    /\ UNCHANGED <<row, age, lapsed, beat, work, answers>>

\* Defect: the in-flight guard is left to the budget and the cooldown.
ReadFlightUnguarded(p) ==
    /\ fresh[p] = "flight"
    /\ fresh' = [fresh EXCEPT ![p] = "budget"]
    /\ UNCHANGED <<row, age, lapsed, beat, work, answers>>

ReadFlight(p) ==
    /\ fresh[p] = "flight"
    /\ fresh' = [fresh EXCEPT ![p] =
          IF InFlight = {} THEN "budget" ELSE "rest"]
    /\ UNCHANGED <<row, age, lapsed, beat, work, answers>>

\* Defect: off by one: the budget is compared after it is spent.
DecideRefreshOneMore(autos) ==
    /\ Cardinality(autos) <= MaxPerDay
    /\ \A r \in autos : age[r] # Fresh

\* decide_refresh, once nothing is in flight and nothing covers the session:
\* the budget of a day, then the cooldown.
DecideRefresh(autos) ==
    /\ Cardinality(autos) < MaxPerDay
    /\ \A r \in autos : age[r] # Fresh

ReadBudget(p) ==
    /\ fresh[p] = "budget"
    /\ fresh' = [fresh EXCEPT ![p] =
          IF DecideRefresh(AutoRows) THEN "enqueue" ELSE "rest"]
    /\ UNCHANGED <<row, age, lapsed, beat, work, answers>>

\* The refresher queues without a key, on what it read before.
RefreshEnqueue(p) ==
    /\ fresh[p] = "enqueue"
    /\ Ask("auto", NoKey, "session", p)
    /\ fresh' = [fresh EXCEPT ![p] = "rest"]
    /\ UNCHANGED <<age, lapsed, beat, work>>

\* A cycle ends early: its process died, a query failed, or queue_prediction had
\* no market price.
AbandonCycle(p) ==
    /\ fresh[p] # "rest"
    /\ fresh' = [fresh EXCEPT ![p] = "rest"]
    /\ UNCHANGED <<row, age, lapsed, beat, work, answers>>
-----------------------------------------------------------------------------
(* What a status poll answers.                                              *)

\* Defect: a live heartbeat is believed before the row.
ResolveHeartbeatFirst(status, exec, alive) ==
    IF alive THEN "running"
    ELSE IF status \in {"completed", "failed"} THEN exec
    ELSE IF exec # "queued" THEN "running"
    ELSE "queued"

\* resolve_execution_state: a settled row wins over the heartbeat; a live
\* heartbeat shows the run its uncommitted transaction hides.
ResolveExecutionState(status, exec, alive) ==
    IF status \in {"completed", "failed"} THEN exec
    ELSE IF alive \/ exec # "queued" THEN "running"
    ELSE "queued"

Answer(r) == ResolveExecutionState(row[r].status, row[r].exec, r \in beat)

-----------------------------------------------------------------------------
(* Time.                                                                    *)

\* Rows age in the order they were created.
Age(r) ==
    /\ Exists(r)
    /\ age[r] < Old
    /\ \A q \in Requests : (q < r /\ Exists(q)) => age[q] > age[r] \/ age[q] = Old
    /\ age' = [age EXCEPT ![r] = @ + 1]
    /\ UNCHANGED <<row, lapsed, beat, work, fresh, answers>>

Lapse(r) ==
    /\ r \in Completed \ lapsed
    /\ lapsed' = lapsed \cup {r}
    /\ UNCHANGED <<row, age, beat, work, fresh, answers>>
-----------------------------------------------------------------------------
Attempt(p) ==
    \/ \E quality \in {"partial", "completed"} : RunnerWrites(p, quality)
    \/ RunnerRaises(p)
    \/ Commit(p)

Worker(p) == Expire(p) \/ PickUp(p) \/ Heartbeat(p) \/ Attempt(p)

Refresher(p) == ReadTarget(p) \/ ReadFlight(p) \/ ReadBudget(p) \/ RefreshEnqueue(p)

Client ==
    \E k \in Keys, i \in Intents : QueuePrediction(k, i) \/ CreateForecast(k, i)

Next ==
    \/ Client
    \/ \E p \in Web : Worker(p) \/ RollBack(p) \/ Refresher(p) \/ AbandonCycle(p)
    \/ \E r \in Requests : DeleteRequest(r) \/ HeartbeatLost(r) \/ Age(r) \/ Lapse(r)

Spec == Init /\ [][Next]_vars

\* A free worker polls every two seconds, an attempt ends within its timeout,
\* and time passes.  Nothing is assumed of clients and refreshers, and a process
\* may die in every attempt it ever makes.
Fairness ==
    /\ \A p \in Web : WF_vars(Expire(p)) /\ WF_vars(PickUp(p)) /\ WF_vars(Attempt(p))
    /\ \A r \in Requests : WF_vars(Age(r))

FairSpec == Spec /\ Fairness
-----------------------------------------------------------------------------
(* Properties.                                                              *)

States == [status : {"none", "gone", "pending", "active", "completed", "failed"},
           exec   : {"none", "queued", "running", "partial", "completed", "failed", "expired"},
           job    : {"none", "queued", "running", "completed", "failed", "expired"},
           result : {"none", "partial", "completed"},
           source : Sources \cup {"none"},
           key    : Keys \cup {NoKey},
           intent : Intents \cup {"none", "session"},
           by     : Web \cup {"none", "operator"}]

\* The variables keep their types: rows, attempts and refresh cycles.
TypeOK ==
    /\ row \in [Requests -> States]
    /\ age \in [Requests -> Fresh..Old]
    /\ lapsed \subseteq Requests
    /\ beat \subseteq Requests
    /\ work \in [Web -> [req : Requests \cup {0}, draft : States]]
    /\ fresh \in [Web -> {"rest", "flight", "budget", "enqueue"}]
    /\ answers \subseteq {"legacy", "v3"} \X Keys \X Intents \X Requests

\* Two workers never run the same request at once: forecasts cost model calls,
\* and process_one promises that SKIP LOCKED keeps workers apart.
OneAttempt ==
    \A p, q \in Web : Attempting(p) /\ work[p].req = work[q].req => p = q

\* What the three tables say of a request agrees in every committed state, after
\* any crash: results exist exactly under a completed job, an incomplete bundle
\* reads partial, a job that did not complete left nothing, and the running mark
\* of an attempt is never committed without its outcome.
RowAgrees(r) ==
    /\ row[r].job = "completed" =>
          row[r].status = "completed" /\ row[r].result # "none" /\ row[r].exec = row[r].result
    /\ row[r].job = "queued" =>
          row[r].status = "pending" /\ row[r].result = "none" /\ row[r].exec = "queued"
    /\ row[r].job \in {"failed", "expired"} =>
          row[r].status = "failed" /\ row[r].result = "none" /\ row[r].exec = row[r].job
    /\ row[r].job # "running"

RowsAgree == \A r \in Requests : Exists(r) => RowAgrees(r)

\* A deleted request does not come back with the commit of the attempt that was
\* running when it was deleted.
GoneStaysGone == [][\A r \in Requests : (row[r].status = "gone") => row'[r] = row[r]]_vars

\* Once an attempt has settled a request, every poll answers that outcome and no
\* later poll another one, although the attempt's heartbeat key outlives it and
\* other workers go on picking jobs up.
AnswerIsFinal ==
    [][\A r \in Requests :
          (Exists(r) /\ row[r].job \in Settled /\ row'[r].status # "gone")
              => Answer(r) = row[r].exec /\ Answer(r)' = Answer(r)]_vars

\* A key of a source stands for one intent and one request: every answer a
\* client got under it names a request of that intent, and two answers name the
\* same request unless the first was deleted in between.
KeyNamesOne ==
    \A a, b \in answers :
        /\ Exists(a[4]) => row[a[4]].intent = a[3] /\ row[a[4]].key = a[2]
        /\ (a[1] = b[1] /\ a[2] = b[2] /\ Exists(a[4]) /\ Exists(b[4])) => a[4] = b[4]

\* A refresher has at most one forecast of its own in flight, although it decides
\* on reads that are stale when it queues, and whatever crashes in between.
OneAutoPerWeb ==
    \A r, q \in InFlight :
        row[r].source = "auto" /\ row[q].source = "auto" /\ row[r].by = row[q].by => r = q

\* However many refreshers there are, none has more surviving forecasts of a day
\* than the budget.  decide_refresh compares the budget with the rows of all of
\* them, counted before it queues, and the others queue in between: the budget is
\* overrun by what they queue, one each, never by the refresher itself.  A deleted
\* row is not counted (AUTO_BUDGET_SQL): after a deletion there is room again.
BudgetHolds ==
    \A p \in Web : Cardinality({r \in AutoRows : row[r].by = p}) <= MaxPerDay

\* Every queued job is settled (or deleted), even if every attempt at it kills
\* its worker: the deadline ends the redelivery.
EveryJobSettles ==
    \A r \in Requests : (row[r].job = "queued") ~> (row[r].job # "queued")
=============================================================================
