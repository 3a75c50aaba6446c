# A verification model of WORED

WORED is a local-first crypto monitor: a market collector, a Telegram bot and a
web panel around PostgreSQL and Redis, with an AI layer for forecasts.  This
directory models the parts of it that decide something and share state while
they do: active paper trading (`src/paper_trading/`), the simulated trading
sessions of the bot, the plans, simulations and proposals that dashboard and chat share,
the forecast queue of the web panel, the confirmation cards of the chat, and the
circuit breakers in front of the language models.  The
models are written in TLA+, checked with TLC on small instances, and their most
important invariants are proved with TLAPS for every value of the constants.

## Inventory of the system

| part | state it keeps | operations | what is hard |
|---|---|---|---|
| Command queue (`paper_trading/repository.py`, `runner.py`, `paper_v2_commands`) | command rows: status, request hash, idempotency key, age | submit, claim, complete, record an outcome, requeue, release stale | submit is two transactions; a conflicting retry rewrites the row; rows are released by age alone; settling writes may fail |
| Ledger and positions (`repository.py`, `ledger.py`, `contracts.py`) | order, fill, position rows; append-only postings | create order, change its state, commit an opening fill, commit a close | balance and position are read long before the commit; two processes; three separate roundings |
| Trading days (`repository.py`, `paper_v2_days`) | state, end and limits of each day; one unfinished day per owner | create, change state, merge limits, find days to close or to follow | most state changes are unconditional updates |
| Runner (`runner.py`, `adapter.py`) | memory only: book of positions, block on entries, bound account, polled batch | the two-second cycle, recovery, closure, rollover, signal entry, protective exits, limits | everything in memory is lost in a crash; recovery also runs beside the cycle |
| Service (`service.py`) | none | start_day, finish_day, manual order, close one position, pause, resume, close all, set limits | several transactions per call; checks made before the command is inserted |
| Chat cards (`chatbot/services/day_control.py`, `paper_orders.py`) | cards in memory for 30 s | preview, confirm | what was shown may no longer hold at confirm, at insert, or at execution |
| Simulation sessions (`chatbot/services/session_manager.py`, `plan_store.py`, `stats_audit.py`, collector's `pipeline_jobs.py`) | sessions, plan versions, planned orders, trades | bootstrap, revise, enter, exit, watch, command, closeout | coroutines and two processes act on one row; plans take minutes of model calls |
| Simulation plans, V3 (`trading_math/simulation_store.py`, `simulation_proposal.py`, `webui/simulation_api.py`, `webui/simulation_proposal.py`, `chatbot/services/simulation_plans.py`, `simulation_proposals.py`, `chatbot/handlers/simulation_v3.py`) | plan versions, sessions started from them, agent proposals | create, edit, show, approve, start, move, propose, adopt | two surfaces over one set of rows, no transactions: every statement acts on what an earlier one read |
| Web forecast queue (`webui/forecast_queue.py`, `forecast_refresh.py`, `forecast_command_v3.py`) | requests, jobs, results, heartbeats | enqueue, attempt, expire, refresh, delete, poll | a row lock over a long attempt; a crash rolls everything back; two tables answer one question |
| AI router, gateway and circuit breakers (`chatbot/ai`, `hypercube/routing`, `hypercube/providers`) | circuit state, test slots | admit, call, retry, fall back, record | answers that arrive in another circuit state; slots taken and not used |
| Hypercube quotas (`hypercube/quotas`) | usage rows | check, count | lost updates |
| Collector (`src/collector`) | candles, books, tickers | subscribe, repair gaps, store | reconnects and sequence gaps |
| Execution, risk, ticket arithmetic; strategy; forecast engine; reports; pages | none or read-only | numerics and rendering | rounding and boundary cases |

How they interact: web panel, chat and rollover call `PaperTradingService`, which
only writes day rows and command rows.  The runner polls the command rows and is
the only caller of the ledger's commits; its memory is rebuilt from the database
by `recover()`.  Sessions of the bot are acted on by the bot's watch loop, its
operators, the hourly revision, and jobs of the collector.  The web processes
share nothing but their tables and Redis.  Everything passes through PostgreSQL
transactions or through one event loop, and those are the atomic steps.

What makes each part correct: the queue answers consistently and executes as often
as it promises; the ledger's fills, positions and journal agree whatever the
interleaving; a day is closed only flat, closes in the end, and stays closed; the
runner watches every open position and enters only when it may; a limit changes
only from what an operator was shown; a session trades an order once and never two
at a time; a simulation runs exactly the plan that was approved; a forecast request
is attempted once at a time and answered once; a recovering model gets its test
calls and no more.

`PROJECT.json` lists every part with its status, and under `hazards` the places
found hard to test, with the properties that cover them.

## Modules

| module | models | correspondence |
|---|---|---|
| `CommandStore` | one row of `paper_v2_commands` and each single-row transaction on it | `status`, `aged` (past the 60 s window); the UPDATEs of `repository.py` with their WHERE clauses as guards |
| `CommandQueue` | clients inside `submit_command` and runner processes over `CommandStore` | `call[c]` is the transaction a client is between; `held`, `phase` the command a process is executing, settling or requeueing |
| `CommandPromise` | what a client may rely on | four states of an outcome; `CommandQueue` implements it under `Promise == INSTANCE ... WITH` |
| `PaperLedger` | orders, fills, positions and journal totals, several processes acting on stale reads | `CommitOpen`, `CommitClose` are `commit_open_fill`, `commit_position_close`; `LoadUnfilled`, `CancelOrder` the loop of `finish_day`; `Money` is `money()` with ties to even |
| `DayStore` | rows of `paper_v2_days` | `Allowed` is the partial unique index; `SetDayState` the unconditional update |
| `PaperRunner` | service calls, the runner's cycle, recovery, command handlers, signal entry, faults, crash and restart, composing `CommandStore` and `DayStore` | `phase` is the point in the cycle between two transactions; `recovery[j]` the await a `recover()` is at, `loaded[j]` the positions it has read; `todo` what a handler's loop has still to close or cancel; `book`, `blocked`, `recovered`, `bound` are `_positions`, `_entries_blocked`, `_recovered` and the configured auto account; `batch` the polled rows, taken in `created_at` order (`NotAfter`) |
| `TradingDays` | what the owner may rely on | five states of a day, the open positions and the days with a leftover start; `PaperRunner` implements it under `Promised == INSTANCE ... WITH`: `closing` and `settlement_pending` are seen as `ending`, pending orders are not seen |
| `DayControl` | cards, taps, service and the runner's limits handler, composing `CommandStore` and `DayStore` | `card` is what `preview` stored, `tap` the read a `confirm` call is at, `row` the days the command rests on, `limits` the snapshot `merge_day_limits` swaps, `verdict` what `_finish_command` is about to write |
| `TradingSession` | one session row, its plan versions, orders and trades; creation, overlapping watch passes, revision, commands, closeout, ticker guard | `watch`, `rev`, `op`, `out` hold what each actor has read; `CanEnter` is the re-check of `execute_entry` under the row lock |
| `SimulationPlans` | plan, session and proposal rows, the two surfaces' handlers between their statements | `status`, `body`, `consumed` are a plan row, `session[k]` the session of an idempotency key, `offer` the proposals, `cards` the confirmation cards in the chat; `flight` holds what each handler has read, `told...` what was answered |
| `ForecastQueue` | requests and jobs as committed rows, each worker's uncommitted version of the row it locks, the refresher, both endpoints, polls | `work[p]` is the open transaction; `age` the deadline, the cooldown and the 24 h window; `beat` the Redis heartbeat |
| `CircuitBreaker` | the counters of one breaker and its methods as operators | the two copies in `chatbot/ai` and `hypercube/providers` |
| `AiRouter` | requests that walk their fallback chains through breakers, retries and timeouts | `Gated` tells the bot's router, which asks the breaker before the call asks again, from the gateway, which does not |
| `MC*` | instances for TLC | sets of commands and chains, symmetry |
| `*_proofs` | theorems | |

Definitions marked *seeded defect* or *defect* are not part of any specification.
Each is a plausible bug of the definition after it; replacing that definition by
the defect makes TLC report the property it is paired with in `PROJECT.json`,
which shows that the property depends on the code.

### Granularity and abstractions

* A step is the code between two awaits at which another coroutine or process can
  change what it works on: in practice one transaction and the memory it updates.
* Prices, quotes, risk checks, balances and signals are choices in `PaperRunner`,
  `DayControl` and `TradingSession`; `PaperLedger` models amounts.  An order row and
  its position row are one `entry` in `PaperRunner` (the code gives them the same id).
* One owner, one instrument, as in the deployment.  `LIMIT 50` of the poll is
  ignored.  The commands `recover()` loads go through the same claim as the polled
  ones, so they are part of the poll.
* `recover()` is modelled await by await, for the cycle and for every start-up job, and
  so is `_handle_finish_day`: each list is the one the code read before its loop, each
  cancel and close is a step, and each may fail.  Commands that a start-up recovery
  loads while a pass is going on are appended to that pass by the code; here they are
  taken by the next one.
* A batch is dropped when an exception ends the cycle; what was left is polled again.
* A database call that fails in `PaperRunner` had no effect.  A commit whose answer is
  lost is modelled where it tells something else than a crash after it: the limits
  merge (`StoreUnheard` of `DayControl`).
* "Watched" means held in the book.  The watch itself passes over a position without
  both a stop and a target (`runner.py:1196`); `Protect` is then never taken.
* `loose` collects the start commands that may be executed behind their day's finish:
  submitted after it, put back, released as stale, or passed over by a failed claim.
  `missed` holds the rows the last recovery found too young to release, `ghosts` the
  closed positions a recovery put back into the book.
* `Age` applies to rows nobody holds in `PaperRunner`; the two-process case, where a
  slow handler loses its row, is the subject of `CommandQueue`.
* A crash keeps the clients: a `start_day` call of the web panel goes on, the
  rollover's own does not.
* The process may come back at any moment after a crash, before or after the rows it
  held have aged, and a `start_day` call may submit its commands at any time after it
  created the day.
* In `DayControl` a card stands for its idempotency key.  A card that expired, was
  pruned or was lost with the chat process is one nobody taps again.  The days go
  their way by choice; of the ticket only the day's state and one limit is kept.
  A failed `merge_day_limits` has stored nothing (`StoreFails`), or has committed and
  lost its answer (`StoreUnheard`).  A closed day that runs again (`DayReopens`) costs one
  of the troubles.  finish_day is keyed by the day and belongs to `PaperRunner`.
* In `TradingSession` a trade is named by its order, because an order is traded
  once at most (which is itself a theorem).  The watch job lists the sessions first
  (`WatchList`) and reads each row later (`WatchStart`, `WatchSkip`); the hourly revision
  lists and reads in one step (`RevisionRead`).  Audit rows, amounts and the two
  commands that only write audit rows (tighten, reduce) are left out.
* In `SimulationPlans` a plan's body stands for its hash, `Sound` for the verdict of
  `check_plan_semantics`.  `Confirm` merges the two reads of the plan (`simulation_v3.py:345`,
  `simulation_plans.py:454`): the second decides.  A gate that looks at the clock, the quote or the candle
  coverage can only refuse, and a refusal changes nothing.  `fresh` is history: no
  edit came after the handler's check.
* In `ForecastQueue` a row stands for request, job and results, which are inserted
  and deleted together.  A worker's own version of the row is visible to nobody
  before its commit, as in the database.
* A breaker's method holds one asyncio lock and suspends nowhere: it is one step.
  The failure counter saturates at its threshold, the only value it is compared with.
* The gateway has two fallback engines with one walk; `core/bootstrap.py:60` wires that of
  `routing/service.py`.  `AiRouter` calls the adapter as it declares itself; as wired the
  call does not get there (see below).  A cancelled call would be neither success nor
  failure to a breaker and keep its slot; only the end of the process cancels one, and
  the circuits end with it, so there is no action for it.

## Runs

| run | instance | shows |
|---|---|---|
| `queue_races` | 2 keys, 2 payloads, 2 clients, 2 processes, 2 submissions, one stale release per row, a crash, a lost write | bounded execution, consistent answers, refinement of `CommandPromise`, and that an accepted command is settled unless a process died or a settling write was lost |
| `ledger_safety` | 1 account, 3 orders, 2 processes, fees with half units | fills, positions, margin and journal agree under races; no opening fill is uncovered |
| `runner_days` | 2 days with rollover, 2 entries, a manual order, a start-up job, one crash, one failed call | an order fills once, and once more per crash or failure; a recovered runner watches every open position; a day is deferred honestly and closed only flat; automatic entries only in a running day; refinement of `TradingDays` |
| `runner_controls` | 1 day, 1 entry, pause, resume, close_all, close_position, a start-up job, one crash, fairness | a pause holds, completed closes are closed, every created day starts and every running day closes, up to the named ways a crash strands a row |
| `runner_closure` | 1 day, a start-up job, one crash, fairness | violation: a closing day is never closed after a crash and an immediate restart |
| `day_control` | 2 cards, 2 taps at once, 2 limits of 2 values, 2 days, one crash, failed or unheard write, or reopened day | limits move only from what was shown, verdicts are true but for three named exceptions, an order rests on its card's day |
| `session_overlap` | 2 orders, 2 plan versions, 2 overlapping watch passes | one open trade, no order traded twice, cooldown respected |
| `session_single` | 2 orders, 1 pass, an operator, a lost pass, fairness | stopped is flat, pauses hold, every expired session ends, every open trade is exited |
| `plans_surfaces` | 2 plans, 2 bodies, 1 key, 1 proposal, 3 handlers in flight | a session runs what was approved, its log is a path, answers stay true, approvals are of what was checked but for one named gap |
| `forecast_workers` | 2 web processes, 2 requests, a key, 2 intents, a budget of 1 | agreeing tables, unique keys, budget, final answers |
| `forecast_settles` | 2 web processes, 2 requests, fairness, attempts that may all die | every job is settled |
| `breaker_gateway` | 2 tiers, 2 requests, 2 slots, retries, fairness | open circuits shield, probations end |

### Why the bounds are enough

Two of everything that races (clients, processes, passes, taps, payloads, plan
versions), one row more than a process can hold, and three orders in the ledger let
every pair of operations interleave.  Two submissions per queue run are few, but
its safety properties are theorems for any number; the run is there for liveness
and as a guard of the theorems.  The same holds for the sessions, the forecast
queue, the router, the cards and the runner, whose runs have one or two days and
one crash while its theorems have any number of both.

The runner's runs join scopes, named in `MCPaperRunner`, each of which mixes no more than
stays small.  `runner_days`: a start-up job beside the cycle from its first step to its
last, with a crash (`Beside`); an order and a crash (`OrderDies`); a failed call and a
crash (`FaultDies`); an order and a failed call (`OrderFails`); two days with the
rollover and a crash (`TwoDays`).  `runner_controls`: a crash without commands
(`Dying`), which is where its liveness says something, because whatever fairness owes
stays in that scope; pause and resume (`Pauses`); one closing command (`Closes`); a close
and a crash (`CloseDies`); a pause beside the start-up job (`PauseBeside`).  What mixes
more is left to the theorems, which have no scopes.
`plans_surfaces` joins three scopes of `MCSimulationPlans` in the same way: plans and
the start of sessions (`StartScope`), the further way of sessions (`MoveScope`), plans
and proposals (`ProposeScope`).  `MaxInFlight = 3` lets an approval, an edit's victim
and a start, or two taps on one proposal and an approval, lie between their statements
at one time; a second plan and a second body are what a hash or a key can be wrong
about.  All four properties are theorems for any number.

Two entries are the most one day can have open at once (one per account).  One crash
splits every handler at every transaction; with one failed call more, recovery itself
is exercised after a failure.  In `day_control` two limits of two values and two changes
let cards cross, in one field or in two.  Deadlock checking is off where the bounds
(submissions, days, entries, versions, plans, faults) let the system stop; the forecast and
router runs check it.

### Fairness

* Queue and runner: the scheduler runs the cycle every two seconds in one task, so a
  runner that can step does (weak fairness), and so does a start-up job.  A pass takes
  the polled rows in their order.  In `CommandQueue` claiming and executing are strongly
  fair; in `PaperRunner` strong fairness is assumed of the quote alone: one that was
  missing comes back, so that a list to close is made in the end (`QuotedList`).  The
  compose file restarts the container (`restart: unless-stopped`): weak fairness on
  `Restart`, and nothing about how soon, so that the restart within 60 s is a behaviour
  like any other.  Clocks advance: weak fairness on `Age` and `Expire`.  No client call, order, crash or fault is owed, except that a client's `start_day`
  that has begun goes on.
* Sessions: the watch job lists the sessions again every ten seconds (`WatchList`), and a
  pass that began goes on; the collector's closeout job recurs; trades grow old.
* Forecasts: a web process's worker polls for ever (expire, pick up, attempt) and rows
  grow old.  Nothing is owed by clients and refreshers, and a process may die in
  every attempt it ever makes.
* Router: a request is a coroutine the loop resumes, a call ends by its timeout, the
  recovery timeout passes.  Only for `ProbationEnds` requests are assumed to keep
  coming (strong fairness on `Submit`), as scheduled jobs and users do.

## Theorems

All constants are arbitrary; the assumptions are the named ASSUMEs of the modules
(bounds are naturals, `Runners` is finite, amounts are naturals, null values are
outside their sets, thresholds and slots are positive, and `KeysAssumption`: every day
has its start and finish commands, and a command has a kind and a day), which TLC
evaluates.  A theorem that needs more says so in its ASSUME or as a premise, and the
list below says why the code justifies it or what happens without it.

* `CommandQueue_proofs`: `TypeCorrect`; `BudgetHolds`, where the conjunct of
  `StaleBudget` about accepted rows makes it inductive (a claim adds one executor to
  a row that has room for it); `NeverStaleNeverTwice`; `AnswersHold`; `EndedStaysEnded`;
  `QueueKeepsPromise`, the refinement: each transaction maps to a step of
  `CommandPromise` or to a stutter (`WriteSeen`).
* `PaperLedger_proofs`: `TypeCorrect`, `FillsMatchHolds`, `MarginHeldHolds`, by one
  lemma per kind of step (`OpenEffect`, `CloseEffect`, `OtherEffect`);
  `BooksReconcile`, from `CloseDrift`: gross, fee and net rounded separately differ by
  at most one unit; `OpensAreCovered`.
* `TradingSession_proofs`: one inductive invariant of `RowsOK`,
  `UntradedUntilTriggered`, `OneOpenTrade`, `TradedOnce`, `PendingIsActive` and
  `StatusMatchesTrades`.  The parts support each other: an entry needs a planned
  order, a planned order was never traded, and an entry is refused while a trade is
  open.  What an actor has read needs no invariant at all, because the re-check
  under the row lock decides: that is the theorem's point.  `SessionPauseHolds` and
  `SessionEndedStaysEnded` follow step by step.  `SessionTypeCorrect` adds what the
  actors have read (`ReadsOK`).  `SessionCooldownRespected`: a session in cooldown
  has no trade, and the re-check of the entry refuses one until the cooldown is over.
  `SessionStoppedIsFlat` assumes `OnePass`, one watch pass at a time (`max_instances=1`,
  `collector/scheduler/pipeline_jobs.py:261`), as the run does: its invariant
  (`PassKnows`) says that a pass at its exits has read every open trade, and that there
  is none when it was told of a liquidation.
* `PaperRunner_proofs`, in the order of the file: first what one step may do to each part of the state (`RowStep`,
  `DayStep`, `EntryStep`, `JobStep`, `BookStep`, ...), so that each invariant is proved
  against a handful of alternatives and not against every action again.
  `RunnerTypeCorrect` holds the correspondence of phase, command and order in hand.
  `RunnerOpenIsWatched`: the book and what a recovery has read and not yet merged cover
  the open positions (`BookCovers`), because the recoveries only ever add.
  `RunnerClosesFlat` (`MaxFaults <= 1`): the book read by a recovery and the day's own
  reading are two chances.  `RunnerCompletedCloseIsClosed` rests on the same cover.
  `RunnerAutoEntersRunningDay` needs no assumption: only a handler moves a running day,
  and none runs between the signal and the fill.
  `RunnerOneFillPerCommand`: a command that may still be filled has a fill to spare
  (`FillsBound`), and only a crash or a failed call gives it back after it was filled.
  `RunnerDeferralIsHonest`: what the book holds is open or a ghost (`HonestBook`), and
  what failed to close is still in the book (`DeferOK`).
  `RunnerPauseHolds`: while a pause is in force entries are blocked and no entry is under
  way (`PausedOK`); what lifts the block lifts the pause.
  `RunnerClosedNeverRuns`: a start that is not loose was submitted before its day's finish
  (`Ordered`), a pass that polled the finish polled the waiting start too (`Batched`), and
  the pass takes rows in that order, so no such start is left once the finish was claimed
  (`StartsOver`).
  `RunnerKeepsDays` (`MaxFaults <= 1`) adds to it `FlatInv` of `RunnerClosesFlat`,
  `EndingOK` (a day stays closing while `finish_day` works on it) and `OrdersOK` (an order
  is submitted for a day that has begun).
  All but `RunnerClosesFlat` and `RunnerKeepsDays` hold without a further assumption, with
  any number of start-up jobs, crashes, restarts and failed calls.
* `ForecastQueue_proofs`: `TypeOK`, `EmptyRows`, `RowsAgree`, `OneAttempt`,
  `DraftsFit` (an uncommitted row differs from the committed one only where the
  attempt may change it, which the lock guarantees), `KeysUnique`, `AnswersFit`,
  `OneAutoPerWeb`, `CyclesFit`.
* `SimulationPlans_proofs`: `PlansTypeCorrect`, `SessionsRunTheirPlans`, `LogsArePaths`,
  `AnswersStayTrue`, `PinsAreShown`.  The inductive invariant adds to the three state
  properties that what every handler in flight has read is still true (`FlightFits`:
  an approved plan and a stored session never change, and a draft changes only by
  making the approvals that checked it stale), that cards name sound versions, and that
  a proposal an agent works on is pending (`OffersFit`), so that its result is saved
  before it can be adopted.
* `AiRouter_proofs`: `Circuits` relates counters, slots and test calls in every
  circuit state, `RequestsOK` types the walk; with them `RouterTypeCorrect`,
  `RouterFewTests` and `RouterOpenShields`, with or without the double question.
* `DayControl_proofs`: `CallsFit` says that a tap on an order's card has checked its
  own day's limits, or that day is over and the call will not be accepted unless the day
  is opened again; it rests on `DayOrder` (day rows follow one another and at most one is
  unfinished).  `Held` and `VerdictFits` say what the runner
  knows of the row in its hands; with them `VerdictTrue`, `OrderDay`, `ShownIsWritten`.

`MaxFaults <= 1` is needed: with two failed reads, the one of `recover()` and the one of
`finish_day`, the runner closes a day over a position that neither its book nor its list
holds.  `OpenIsWatched` and `CompletedCloseIsClosed` speak of a run without a failed call
(`faults = 0`) for the same reason: a failed read leaves the position out of the book, and
a failed commit is acknowledged.

Four of the theorems' properties need no run beside the theorem, and have none:
`QueueOneAttempt`, `RouterFewTests`, `SessionStatusMatchesTrades`, and
`ClosedNeverRuns`, which `KeepsDays` implies.

Only model-checked: the violation of `runner_closure`, and liveness (`AcceptedSettles`, `EveryDayEnds`, `IdleDayStarts`,
`WindowIsClosed`, `TradeIsExited`, `EveryJobSettles`, `ProbationEnds`), because ENABLED
and fairness are outside the prover's reach.  Every safety property of the runs is
stated by a theorem.

## Where code and documents disagree

The models show the following.  Each is stated with the assumption under which the
checked property does hold.

* A closed day need not stay flat: `_handle_submit_order` (`runner.py:1910`) does not
  look at the day, so an order read before the close and executed after it is filled.
  `ClosesFlat` is about the moment of closing.
* A closed day can run again: the handler of `start_day` (`runner.py:1701`) updates the
  day unconditionally.  `KeepsDays` and `ClosedNeverRuns` name the starts that do it:
  those submitted, put back, released or passed over behind the finish (`leftover`, `loose`).
* A repeated order command fills twice after a crash between fill and settling write,
  although `paper_v2_schema.sql:205` says it does not.  `OneFillPerCommand` bounds its
  fills by one more per crash and failed call.
* The closing of a day is not crash-recoverable as `runner.py:2107` says: `runner_closure`
  is the counterexample.  The runner dies inside `finish_day`, `docker-compose.yml:54`
  restarts it at once, its recovery releases rows older than 60 s only (`runner.py:927`),
  and nothing looks at the finish row again: the day stays closing, entries stay blocked.
  A lost settling write ends the same way.  A start row is stranded likewise, and with it
  the binding of the auto account to its day until a recovery binds it.
  `EveryDayEnds` and `IdleDayStarts` name the stranded rows (`Stranded`) and hold for
  every other schedule of crash and restart.
* `finish_day` is not idempotent (`test_closeout.py:135`): run again for a closed day it
  blocks entries and may move the day back to closing (`runner.py:1755`).
* A recovery beside the cycle can put a position back into the book that was closed
  after it was read (`runner.py:947`).  The copy cannot be closed again, so the day's
  closing is put off until the next restart (`ghosts` in `DeferralIsHonest` and
  `EveryDayEnds`).
* A start whose account cannot be read is acknowledged without effect (`runner.py:1687`).
  With both starts lost so the day stays idle; one failed call loses one.
* A refusal can be recorded as a success: when the write of `_finish_command` fails, the
  settling pass completes the row, although `runner.py:1500` says the outcome is "never
  silently replaced by a wrong one".  `VerdictIsTrue` names the exception (`unsaid`).
* A limits merge that committed and lost its answer is recorded as `limits_write_failed`
  (`unheard` in `VerdictIsTrue`).
* A limits command run again after a restart loses the comparison to its own first run
  and is reported as failed though it was stored (`released` in `VerdictIsTrue`).
* A pause, stop or limits card is bound to its day by `confirm` only
  (`day_control.py:31`); `_dispatch` (`day_control.py:463`) does not pass the day on, and
  the service takes the day that is active by then.  Limits may also be written to a
  day that is closing or closed when the command is executed.
* A completed session need not be flat: the watch pass completes it by the trades it
  read at its start (`session_manager.py:1241`), and the closeout skips trades without a
  price (`stats_audit.py:250`), although `stats_audit.py:223` says it closes them.
* The V3 status endpoint does not call `partial` terminal (`forecast_command_v3.py:105`,
  `:540`); the page's poller and the acceptance matrix do
  (`async-patterns.js:261`, `V3-ACCEPTANCE-MATRIX-20260930.md:443`).
* A probation of the bot's router may never end.  The router asks `can_execute()`
  (`router.py:214`) before `CircuitBreaker.execute` asks again (`resilience.py:149`), and
  each question takes a half-open slot (`resilience.py:104`).  With
  `half_open_max_calls = 3` the first test call uses two slots, the second passes the
  router's question and finds the breaker shut, and the tier stays half open until the
  process restarts, although `resilience.py:28` calls the three "test calls".  The
  instance of `breaker_gateway` with one tier, `HalfOpenMax = 3` and `Gated = TRUE` is a
  counterexample of `ProbationEnds`; the gateway, which asks once, satisfies it.
* The gateway's request path does not fit together: `bot/handlers.py:200` calls the engine
  with the parameters of `routing/fallback_engine.py`, `core/bootstrap.py:60` builds the one
  of `routing/service.py`, and that one passes an `AIRequest` (`:243`) where
  `OpenAICompatibleAdapter.invoke` takes a model and messages.
* An approval pins what the row holds: `approve` (`simulation_plans.py:442`) compares the
  card's hash with the row it read, but the UPDATE (`simulation_store.py:293`) compares
  the status only, so an edit between the two is approved unseen.  `PinsWhatWasShown`
  names the exception (`fresh`).
* Two taps that adopt one proposal may write two drafts, although the docstring
  (`simulation_proposals.py:321`) says a second tap writes no twin; and `mark_adopted`
  rebinds a bound row, although `simulation_proposal.py:385` says it answers UPDATE 0.
  `AnswersHold` asks only that both drafts exist and the proposal stays bound.
* A transition that loses its race (`simulation_store.py:369`) is answered with success
  and the status another caller wrote.
* A proposal whose process dies, or whose result cannot be saved, stays `pending`.
  A start that dies between its insert and `attach_session` leaves its session out of
  the plan's `consumed_by_sessions`, and a replay does not add it.
* Nothing writes the plan states `superseded` and `rejected` (`plan_contract.py:118`), and
  no caller passes a `parent_id` to `create_plan`.
* A breaker keeps `success_count` and, while open, its slots from the probation before:
  a circuit may close after fewer test calls than configured, and the state invariant in
  the docstring of `test_resilience_concurrent.py:33` (no slots in OPEN) does not hold.

## Not modelled, and why

* Numerics (strategy, planner, forecast engine, trading mathematics, ticket and
  execution arithmetic) have no shared state; reports, replay, learning and pages
  only read.  They are most of the repository's lines and out of a model checker's reach.
* Runner: heartbeat, equity snapshots, forecast gate, the partial quantity of a close
  (ignored by the code), the poll limit, an exception for an unknown order type,
  `recovery_required` of a day without a policy; `cancel_order` only forgets a signal.
* Sessions: amounts, audit rows, accuracy of plans.  The `drawdown` reason of an exit is
  never passed by the code and therefore absent.
* Forecasts: hand edits of a prediction (PATCH), the arbiter's late append, several
  symbols, the attempt counter (it is rolled back with the attempt), the completion
  sweep `finalize_completed_forecast_requests`, revisions without a caller.
* Router: classification of messages, prompts, streaming, health checks, handoff, quotas.
* Simulation plans: the validator's arithmetic, listing and polling, expiry of a card
  (nobody taps it again), the runner that is to drive a session (no code does yet).
* Chat: parsing, wording, status polling, plan cards.
* Prediction evaluator, breakout detector, liquidation events: batch jobs that insert or
  score and decide nothing that another actor waits for.

## Plan

Done: the modules above, and a theorem for every safety property of the runs.  Next,
in this order:

1. `QuotaEngine` (`hypercube/quotas/engine.py`): check, call and count by concurrent
   requests, with the reset of a window; composed with the gateway's walk.
2. Uniqueness of signals over a restart and the bounded poll in `PaperRunner`.
3. `BookCapture` (`collector/htx/book_capture.py`): sequence gaps, reconnects, repair.
