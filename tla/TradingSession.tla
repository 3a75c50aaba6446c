--------------------------- MODULE TradingSession ---------------------------
(***************************************************************************)
(* One simulated trading session: a row of trading_sessions, its plan      *)
(* versions, the orders of a plan (planned_entries) and the trades opened  *)
(* from them (executed_trades), all in PostgreSQL.  Acting on it, in       *)
(* coroutines and processes that share nothing but the database:           *)
(*   - session creation, which drafts the first plan with a model call;    *)
(*   - the 10 s watch pass, which exits, resumes, enters and completes;    *)
(*   - the hourly revision, which publishes a new plan version;            *)
(*   - the operators' commands pause, continue and close_all;              *)
(*   - the closeout of an expired session and the stale ticker guard.      *)
(* Each action is one transaction, one statement, or one read whose result *)
(* is used later.  Prices, triggers and the model's answers are choices.   *)
(***************************************************************************)
EXTENDS Naturals

CONSTANTS
    Orders,       \* planned_entries rows the plans may introduce
    LastVersion,  \* bound: plan versions 1..LastVersion
    Watchers,     \* execution_watch_loop passes that may overlap
    Users,        \* operators sending revision commands
    Analyst,      \* the hourly revision acting on its own close_all
    MaxFaults     \* bound: passes lost to an exception, a missing ticker or a restart

ASSUME SessionAssumption ==
    /\ LastVersion \in Nat \ {0}
    /\ MaxFaults \in Nat
    /\ Analyst \notin Users

Actors == Users \cup {Analyst}
Versions == 1..LastVersion

Statuses == {"idle", "armed", "in_position", "cooldown", "paused", "blocked",
             "stopped", "completed", "failed"}
Terminal == {"stopped", "completed", "failed"}
Ended    == {"stopped", "completed"}
Watched  == {"armed", "in_position", "cooldown", "idle", "paused"}

VARIABLES
    status,   \* trading_sessions.status
    ver,      \* trading_sessions.active_plan_version
    plans,    \* session_plans: verdict of each published version
    stale,    \* the active plan is past its valid_until
    over,     \* session_end has passed
    order,    \* planned_entries.status of each order
    issued,   \* planned_entries.plan_version, 0 before it is inserted
    opened,   \* trades ever opened from each order
    open,     \* orders whose trade is open; a trade is named by its order
    aged,     \* the open trade is older than max_trade_duration_minutes
    cooled,   \* the cooldown after the latest stop loss has elapsed
    boot,     \* where session creation stands
    watch,    \* each watch pass, with what it has read
    rev,      \* the hourly revision, with what it has read
    op,       \* each actor's close_all in progress
    out,      \* the closeout pass, with what it has read
    held,     \* history: paused by a command, a plan or the guard since the last continue
    lifted,   \* history: an operator continued since the latest stop loss
    faults

rows  == <<status, ver, plans, order, issued, opened, open>>
clock == <<stale, over, aged, cooled>>
vars  == <<rows, clock, boot, watch, rev, op, out, held, lifted, faults>>

WatchOff == [pc |-> "off", status |-> "idle", ver |-> 1, seen |-> {}, pend |-> {}]
RevOff   == [pc |-> "off", status |-> "idle", ver |-> 1, pend |-> {}]
OpOff    == [pc |-> "off", seen |-> {}]
OutOff   == [pc |-> "off", seen |-> {}, priced |-> FALSE]

TypeOK ==
    /\ status \in Statuses
    /\ ver \in Versions
    /\ plans \in [Versions -> {"none", "accepted", "no_trade"}]
    /\ order \in [Orders -> {"unused", "planned", "triggered", "superseded"}]
    /\ issued \in [Orders -> 0..LastVersion]
    /\ opened \in [Orders -> Nat]
    /\ open \subseteq Orders
    /\ {stale, over, aged, cooled, held, lifted} \subseteq BOOLEAN
    /\ boot \in {"drafting", "failing", "arming", "done"}
    /\ watch \in [Watchers -> [pc : {"off", "listed", "started", "exits",
                                     "liquidated", "resume", "enter", "timeout", "end"},
                               status : Statuses, ver : Versions,
                               seen : SUBSET Orders, pend : SUBSET Orders]]
    /\ rev \in [pc : {"off", "model"}, status : Statuses, ver : Versions,
                pend : SUBSET Orders]
    /\ op \in [Actors -> [pc : {"off", "asked", "closing", "exits"},
                          seen : SUBSET Orders]]
    /\ out \in [pc : {"off", "exits"}, seen : SUBSET Orders, priced : BOOLEAN]
    /\ faults \in 0..MaxFaults

\* create_session has inserted the row; generate_initial_plan has read it.
Init ==
    /\ status = "idle" /\ ver = 1
    /\ plans = [v \in Versions |-> "none"]
    /\ order = [o \in Orders |-> "unused"]
    /\ issued = [o \in Orders |-> 0]
    /\ opened = [o \in Orders |-> 0]
    /\ open = {}
    /\ stale = FALSE /\ over = FALSE /\ aged = FALSE /\ cooled = TRUE
    /\ boot = "drafting"
    /\ watch = [w \in Watchers |-> WatchOff]
    /\ rev = RevOff
    /\ op = [a \in Actors |-> OpOff]
    /\ out = OutOff
    /\ held = FALSE /\ lifted = FALSE
    /\ faults = 0

-----------------------------------------------------------------------------
(* The plan contract and the publication of a plan *)

Pending(v) == {o \in Orders : order[o] = "planned" /\ issued[o] = v}

\* session_error and plan_error on a session row with status st and version v
SessionError(st) == st \in Terminal \/ over
PlanError(st, v) == SessionError(st) \/ plans[v] # "accepted" \/ stale

\* Seeded defect: a cooldown is re-armed by the next plan.
StatusAfterPlanNoCooldown(cmd, new) ==
    CASE cmd \in {"pause", "close_all"}                         -> "paused"
      [] cmd = "continue" /\ status \in {"in_position", "paused"} -> status
      [] OTHER -> IF new = {} THEN "idle" ELSE "armed"

StatusAfterPlan(cmd, new) ==
    CASE cmd \in {"pause", "close_all"}                     -> "paused"
      [] cmd = "continue" /\ status \in {"in_position", "paused", "cooldown"} -> status
      [] OTHER -> IF new = {} THEN "idle" ELSE "armed"

\* save_plan: plan, orders, version and status in one transaction
SavePlan(v, new, cmd) ==
    /\ plans' = [plans EXCEPT ![v] = IF new = {} THEN "no_trade" ELSE "accepted"]
    /\ order' = [o \in Orders |->
                    CASE o \in new -> "planned"
                      [] o \notin new /\ order[o] = "planned" -> "superseded"
                      [] OTHER -> order[o]]
    /\ issued' = [o \in Orders |-> IF o \in new THEN v ELSE issued[o]]
    /\ ver' = v
    /\ stale' = FALSE
    /\ status' = StatusAfterPlan(cmd, new)
    /\ held' = (held \/ cmd \in {"pause", "close_all"})

Fresh == {o \in Orders : order[o] = "unused"}

-----------------------------------------------------------------------------
(* create_session_with_bootstrap *)

CanDraft ==
    /\ ~SessionError(status)
    /\ ver = 1 /\ status = "idle"
    /\ \A v \in Versions : plans[v] = "none"

DraftPlan ==
    /\ boot = "drafting" /\ CanDraft
    /\ \E new \in SUBSET Fresh : SavePlan(1, new, "continue")
    /\ boot' = "arming"
    /\ UNCHANGED <<opened, open, over, aged, cooled, watch, rev, op, out, lifted, faults>>

\* no market data, no valid answer of any model, or save_plan's refusal
DraftFails ==
    /\ boot = "drafting"
    /\ boot' = "failing"
    /\ UNCHANGED <<rows, clock, watch, rev, op, out, held, lifted, faults>>

FailSession ==
    /\ boot = "failing"
    /\ status' = IF status = "idle" /\ ~over THEN "failed" ELSE status
    /\ boot' = "done"
    /\ UNCHANGED <<ver, plans, order, issued, opened, open, clock, watch, rev, op, out,
                   held, lifted, faults>>

\* bootstrap_session; marketReady is build_market_context's quality
Bootstrap(marketReady) ==
    /\ boot = "arming"
    /\ boot' = "done"
    /\ status' =
         CASE PlanError(status, ver) -> status
           [] ~PlanError(status, ver) /\ ~marketReady ->
                IF status = "armed" THEN "blocked" ELSE status
           [] OTHER -> IF status \notin {"idle", "armed"} THEN status
                       ELSE IF Pending(ver) = {} THEN "idle" ELSE "armed"
    /\ UNCHANGED <<ver, plans, order, issued, opened, open, clock, watch, rev, op, out,
                   held, lifted, faults>>

-----------------------------------------------------------------------------
(* execute_exit and execute_entry *)

\* Seeded defect: a pause or an ended session is re-armed.
StatusAfterExitRearmed(reason) ==
    IF reason = "stop_loss" THEN "cooldown" ELSE "armed"

StatusAfterExit(reason) ==
    CASE status \in {"paused", "stopped", "completed"} -> status
      [] status \notin {"paused", "stopped", "completed"} /\ reason = "stop_loss" -> "cooldown"
      [] status \notin {"paused", "stopped", "completed"} /\ reason = "liquidation" -> "stopped"
      [] OTHER -> "armed"

\* one transaction under the session's row lock; a closed trade is an error answer
ExecuteExit(o, reason) ==
    IF o \notin open
    THEN UNCHANGED <<rows, aged, cooled, lifted>>
    ELSE /\ open' = open \ {o}
         /\ status' = StatusAfterExit(reason)
         /\ aged' = FALSE
         /\ cooled' = (cooled /\ reason # "stop_loss")
         /\ lifted' = (lifted /\ reason # "stop_loss")
         /\ UNCHANGED <<ver, plans, order, issued, opened>>

\* Seeded defects: the entry trusts what its pass had read of the session and
\* its trades; or of the order.
CanEnterAsRead(o) == ~PlanError(status, ver) /\ issued[o] = ver /\ order[o] = "planned"
CanEnterAgain(o)  == /\ ~PlanError(status, ver) /\ issued[o] = ver
                     /\ status = "armed" /\ open = {}

CanEnter(o) ==
    /\ ~PlanError(status, ver)
    /\ issued[o] = ver
    /\ status = "armed"
    /\ open = {}
    /\ order[o] = "planned"

ExecuteEntry(o) ==
    /\ open' = open \cup {o}
    /\ opened' = [opened EXCEPT ![o] = @ + 1]
    /\ order' = [order EXCEPT ![o] = "triggered"]
    /\ status' = "in_position"
    /\ UNCHANGED <<ver, plans, issued>>

-----------------------------------------------------------------------------
(* The watch pass, _execution_watch_loop *)

WatchStays == UNCHANGED <<over, stale, boot, rev, op, out, held, faults>>
To(w, pc) == watch' = [watch EXCEPT ![w].pc = pc]

\* Seeded defect: paused sessions are not watched.
WatchListUnpaused(w) ==
    /\ watch[w].pc = "off"
    /\ status \in Watched \ {"paused"} /\ ~over
    /\ To(w, "listed")
    /\ WatchStays /\ UNCHANGED <<rows, aged, cooled, lifted>>

\* The job lists the session.
WatchList(w) ==
    /\ watch[w].pc = "off"
    /\ status \in Watched /\ ~over
    /\ To(w, "listed")
    /\ WatchStays /\ UNCHANGED <<rows, aged, cooled, lifted>>

\* Its turn comes: the pass reads the row, ended or not by now.
WatchStart(w) ==
    /\ watch[w].pc = "listed"
    /\ status \notin Ended
    /\ watch' = [watch EXCEPT ![w] = [WatchOff EXCEPT !.pc = "started",
                                          !.status = status, !.ver = ver]]
    /\ WatchStays /\ UNCHANGED <<rows, aged, cooled, lifted>>

\* It has ended.
WatchSkip(w) ==
    /\ watch[w].pc = "listed"
    /\ status \in Ended
    /\ To(w, "off")
    /\ WatchStays /\ UNCHANGED <<rows, aged, cooled, lifted>>

\* After the candle request: the open trades and the pending orders.
WatchLoad(w) ==
    /\ watch[w].pc = "started"
    /\ watch' = [watch EXCEPT ![w].pc = "exits", ![w].seen = open,
                              ![w].pend = Pending(watch[w].ver)]
    /\ WatchStays /\ UNCHANGED <<rows, aged, cooled, lifted>>

\* One trade read is at its stop or its first target.
WatchExit(w, o, reason) ==
    /\ watch[w].pc = "exits" /\ o \in watch[w].seen
    /\ reason \in {"stop_loss", "take_profit", "liquidation"}
    /\ ExecuteExit(o, reason)
    /\ To(w, IF reason = "liquidation" THEN "liquidated" ELSE "resume")
    /\ WatchStays

WatchNoExit(w) ==
    /\ watch[w].pc = "exits"
    /\ To(w, "resume")
    /\ WatchStays /\ UNCHANGED <<rows, aged, cooled, lifted>>

\* update_session_status writes whatever the row says by now.
WatchStop(w) ==
    /\ watch[w].pc = "liquidated"
    /\ status' = "stopped"
    /\ To(w, "resume")
    /\ WatchStays
    /\ UNCHANGED <<ver, plans, order, issued, opened, open, aged, cooled, lifted>>

\* A completed cooldown is resumed under the lock; then the entry decision is
\* taken from the session copy, which the resume has refreshed.  What the pass
\* does not use again it forgets.
WatchResume(w) ==
    LET p == watch[w]
        resumes == /\ p.status = "cooldown" /\ p.seen = {}
                   /\ status = "cooldown" /\ cooled
                   /\ ~PlanError(status, ver)
        st == IF resumes THEN "armed" ELSE p.status
        v  == IF resumes THEN ver ELSE p.ver
        enters == /\ ~PlanError(st, v)
                  /\ st \notin {"paused", "cooldown"}
                  /\ p.seen = {} /\ p.pend # {}
    IN /\ p.pc = "resume"
       /\ status' = IF resumes THEN "armed" ELSE status
       /\ watch' = [watch EXCEPT ![w] =
                       IF enters THEN [WatchOff EXCEPT !.pc = "enter", !.pend = p.pend]
                       ELSE [WatchOff EXCEPT !.pc = IF p.seen = {} THEN "end" ELSE "timeout",
                                             !.seen = p.seen]]
       /\ WatchStays
       /\ UNCHANGED <<ver, plans, order, issued, opened, open, aged, cooled, lifted>>

\* execute_entry confirms the trigger of a pending order and commits.
WatchEnter(w, o) ==
    /\ watch[w].pc = "enter" /\ o \in watch[w].pend
    /\ CanEnter(o)
    /\ ExecuteEntry(o)
    /\ watch' = [watch EXCEPT ![w] = [WatchOff EXCEPT !.pc = "end"]]
    /\ WatchStays /\ UNCHANGED <<aged, cooled, lifted>>

\* No trigger, a rejected risk or cost, or the refusal of the transaction.
WatchNoEntry(w) ==
    /\ watch[w].pc = "enter"
    /\ watch' = [watch EXCEPT ![w] = [WatchOff EXCEPT !.pc = "end"]]
    /\ WatchStays /\ UNCHANGED <<rows, aged, cooled, lifted>>

WatchTimeout(w) ==
    /\ watch[w].pc = "timeout"
    /\ IF aged
       THEN \E o \in watch[w].seen : ExecuteExit(o, "fast_timeout")
       ELSE UNCHANGED <<rows, aged, cooled, lifted>>
    /\ To(w, "end")
    /\ WatchStays

\* The window is checked against the trades read at the start of the pass.
WatchEnd(w) ==
    /\ watch[w].pc = "end"
    /\ status' = IF over /\ watch[w].seen = {} THEN "completed" ELSE status
    /\ watch' = [watch EXCEPT ![w] = WatchOff]
    /\ WatchStays
    /\ UNCHANGED <<ver, plans, order, issued, opened, open, aged, cooled, lifted>>

-----------------------------------------------------------------------------
(* hourly_revision *)

\* Listing and read are one step: only a session blocked between them would
\* be revised, and this one is not.
RevisionRead ==
    /\ rev.pc = "off" /\ op[Analyst].pc = "off" /\ ver < LastVersion
    /\ status \in Watched /\ ~over /\ plans[ver] # "none"
    /\ rev' = [pc |-> "model", status |-> status, ver |-> ver, pend |-> Pending(ver)]
    /\ UNCHANGED <<rows, clock, boot, watch, op, out, held, lifted, faults>>

\* The model has answered; save_plan compares with what was read before the call.
CanRevise ==
    /\ ~SessionError(status)
    /\ ver = rev.ver /\ status = rev.status
    /\ plans[rev.ver] # "none"
    /\ Pending(rev.ver) = rev.pend

RevisionSave(cmd, new) ==
    /\ rev.pc = "model" /\ CanRevise /\ ver < LastVersion
    /\ cmd \in {"pause", "close_all"} => new = {}
    /\ SavePlan(rev.ver + 1, new, cmd)
    /\ op' = IF cmd = "close_all" THEN [op EXCEPT ![Analyst].pc = "asked"] ELSE op
    /\ rev' = RevOff
    /\ UNCHANGED <<opened, open, over, aged, cooled, boot, watch, out, lifted, faults>>

RevisionDropped ==
    /\ rev.pc = "model"
    /\ rev' = RevOff
    /\ UNCHANGED <<rows, clock, boot, watch, op, out, held, lifted, faults>>

-----------------------------------------------------------------------------
(* apply_revision_command: an actor has at most one close_all in progress, *)
(* but may pause and continue beside it.                                  *)

Rest(a) == UNCHANGED <<over, stale, boot, watch, rev, out, faults>>

Pause(a) ==
    /\ a \in Users
    /\ ~SessionError(status)
    /\ status' = "paused" /\ held' = TRUE
    /\ Rest(a)
    /\ UNCHANGED <<ver, plans, order, issued, opened, open, aged, cooled, op, lifted>>

Continue(a) ==
    /\ a \in Users
    /\ ~PlanError(status, ver)
    /\ status = "paused"
    /\ status' = "armed" /\ held' = FALSE /\ lifted' = TRUE
    /\ Rest(a)
    /\ UNCHANGED <<ver, plans, order, issued, opened, open, aged, cooled, op>>

\* An expired session may still be closed.
CloseAll(a) ==
    /\ \/ op[a].pc = "off" /\ a \in Users
       \/ op[a].pc = "asked" /\ a = Analyst
    /\ status \notin Terminal
    /\ status' = "paused" /\ held' = TRUE
    /\ op' = [op EXCEPT ![a].pc = "closing"]
    /\ Rest(a)
    /\ UNCHANGED <<ver, plans, order, issued, opened, open, aged, cooled, lifted>>

CloseAllRefused ==
    /\ op[Analyst].pc = "asked" /\ status \in Terminal
    /\ op' = [op EXCEPT ![Analyst] = OpOff]
    /\ UNCHANGED <<rows, clock, boot, watch, rev, out, held, lifted, faults>>

\* The open trades, then the ticker: without a fresh price the close is pending.
CloseRead(a, priced) ==
    /\ op[a].pc = "closing"
    /\ op' = [op EXCEPT ![a] = IF open # {} /\ ~priced THEN OpOff
                               ELSE [pc |-> "exits", seen |-> open]]
    /\ UNCHANGED <<rows, clock, boot, watch, rev, out, held, lifted, faults>>

CloseExit(a) ==
    /\ op[a].pc = "exits"
    /\ \E o \in op[a].seen :
         /\ ExecuteExit(o, "close_all_command")
         /\ op' = IF o \in open THEN [op EXCEPT ![a].seen = @ \ {o}]
                  ELSE [op EXCEPT ![a] = OpOff]
    /\ Rest(a) /\ UNCHANGED held

\* Seeded defect: the trades are not recounted.
CloseFinishUncounted(a) ==
    /\ op[a].pc = "exits" /\ op[a].seen = {}
    /\ status' = "stopped"
    /\ op' = [op EXCEPT ![a] = OpOff]
    /\ Rest(a)
    /\ UNCHANGED <<ver, plans, order, issued, opened, open, aged, cooled, held, lifted>>

\* Recounted under the row lock.
CloseFinish(a) ==
    /\ op[a].pc = "exits" /\ op[a].seen = {}
    /\ status' = IF open = {} THEN "stopped" ELSE status
    /\ op' = [op EXCEPT ![a] = OpOff]
    /\ Rest(a)
    /\ UNCHANGED <<ver, plans, order, issued, opened, open, aged, cooled, held, lifted>>

-----------------------------------------------------------------------------
(* session_closeout_job and stale_data_guard *)

\* Seeded defect: the job looks for watched sessions only.
CloseoutReadWatched(priced) ==
    /\ out.pc = "off"
    /\ over /\ status \in Watched
    /\ out' = [pc |-> "exits", seen |-> open, priced |-> priced]
    /\ UNCHANGED <<rows, clock, boot, watch, rev, op, held, lifted, faults>>

CloseoutRead(priced) ==
    /\ out.pc = "off"
    /\ over /\ status \notin Ended
    /\ out' = [pc |-> "exits", seen |-> open, priced |-> priced]
    /\ UNCHANGED <<rows, clock, boot, watch, rev, op, held, lifted, faults>>

CloseoutExit ==
    /\ out.pc = "exits" /\ out.priced
    /\ \E o \in out.seen :
         /\ ExecuteExit(o, "session_closeout")
         /\ out' = [out EXCEPT !.seen = @ \ {o}]
    /\ UNCHANGED <<over, stale, boot, watch, rev, op, held, faults>>

CloseoutEnd ==
    /\ out.pc = "exits"
    /\ out.priced => out.seen = {}
    /\ status' = "completed"
    /\ out' = OutOff
    /\ UNCHANGED <<ver, plans, order, issued, opened, open, clock, boot, watch, rev, op,
                   held, lifted, faults>>

\* The ticker of an armed session is missing or older than 60 s.
StaleDataGuard ==
    /\ status = "armed"
    /\ status' = "paused" /\ held' = TRUE
    /\ UNCHANGED <<ver, plans, order, issued, opened, open, clock, boot, watch, rev, op,
                   out, lifted, faults>>

-----------------------------------------------------------------------------
(* Time, failures and the specification *)

ClockStays == UNCHANGED <<rows, boot, watch, rev, op, out, held, lifted, faults>>

WindowEnds  == ~over /\ over' = TRUE /\ ClockStays /\ UNCHANGED <<stale, aged, cooled>>
PlanExpires == ~stale /\ plans[ver] # "none" /\ stale' = TRUE /\ ClockStays
                /\ UNCHANGED <<over, aged, cooled>>
TradeAges   == ~aged /\ open # {} /\ aged' = TRUE /\ ClockStays
                /\ UNCHANGED <<over, stale, cooled>>
CooldownElapses == ~cooled /\ cooled' = TRUE /\ ClockStays
                /\ UNCHANGED <<over, stale, aged>>

\* The collector restarts: its jobs lose what they had read.
CollectorRestart ==
    /\ faults < MaxFaults /\ faults' = faults + 1
    /\ watch' = [w \in Watchers |-> WatchOff]
    /\ rev' = RevOff /\ out' = OutOff
    /\ op' = [op EXCEPT ![Analyst] = OpOff]
    /\ UNCHANGED <<rows, clock, boot, held, lifted>>

\* An exception or the want of a fresh ticker ends one watch pass.
WatchFails(w) ==
    /\ watch[w].pc # "off"
    /\ faults < MaxFaults /\ faults' = faults + 1
    /\ watch' = [watch EXCEPT ![w] = WatchOff]
    /\ UNCHANGED <<rows, clock, boot, rev, op, out, held, lifted>>

\* The web process restarts: creation and the operators' commands are lost.
WebRestart ==
    /\ faults < MaxFaults /\ faults' = faults + 1
    /\ boot' = "done"
    /\ op' = [a \in Actors |-> IF a \in Users THEN OpOff ELSE op[a]]
    /\ UNCHANGED <<rows, clock, watch, rev, out, held, lifted>>

Creation == DraftPlan \/ DraftFails \/ FailSession \/ \E r \in BOOLEAN : Bootstrap(r)

WatchMoves(w) ==
    \/ WatchLoad(w) \/ WatchNoExit(w) \/ WatchStop(w) \/ WatchResume(w)
    \/ WatchNoEntry(w) \/ WatchTimeout(w) \/ WatchEnd(w)
    \/ \E o \in Orders : WatchEnter(w, o)
    \/ \E o \in Orders, reason \in {"stop_loss", "take_profit", "liquidation"} :
          WatchExit(w, o, reason)

Watching(w) ==
    WatchList(w) \/ WatchStart(w) \/ WatchSkip(w) \/ WatchMoves(w) \/ WatchFails(w)

Revision ==
    \/ RevisionRead \/ RevisionDropped
    \/ \E cmd \in {"continue", "pause", "close_all"}, new \in SUBSET Fresh :
          RevisionSave(cmd, new)

Command(a) ==
    \/ Pause(a) \/ Continue(a) \/ CloseAll(a) \/ CloseExit(a) \/ CloseFinish(a)
    \/ \E priced \in BOOLEAN : CloseRead(a, priced)

Closeout == CloseoutExit \/ CloseoutEnd \/ \E priced \in BOOLEAN : CloseoutRead(priced)

Time == WindowEnds \/ PlanExpires \/ TradeAges \/ CooldownElapses

Next ==
    \/ Creation \/ Revision \/ Closeout \/ StaleDataGuard \/ Time
    \/ CollectorRestart \/ WebRestart \/ CloseAllRefused
    \/ \E w \in Watchers : Watching(w)
    \/ \E a \in Actors : Command(a)

Spec == Init /\ [][Next]_vars

\* The jobs run, the ticker comes back, an aged trade is exited by the pass.
Fairness ==
    /\ \A w \in Watchers :
         WF_vars(WatchList(w)) /\ WF_vars(WatchStart(w)) /\ WF_vars(WatchMoves(w))
    /\ WF_vars(TradeAges)
    /\ WF_vars(\E priced \in BOOLEAN : CloseoutRead(priced))
    /\ WF_vars(CloseoutExit) /\ WF_vars(CloseoutEnd)

FairSpec == Spec /\ Fairness

-----------------------------------------------------------------------------
(* Properties *)

\* However passes, commands and revisions interleave, a session has at most
\* one open trade (execute_entry's checks under the session's row lock).
OneOpenTrade == \A o, p \in open : o = p

\* An order is traded at most once in its life, whichever passes read it as
\* pending and however often the session is re-armed.
TradedOnce == \A o \in Orders : opened[o] <= 1

\* The orders that can still trade are those of the active version: a
\* revision leaves no order of an older plan pending (save_plan).
PendingIsActive ==
    \A o \in Orders : order[o] = "planned" => issued[o] = ver

\* The status does not contradict the trades: in_position has an open trade,
\* and a cooldown has none.
StatusMatchesTrades ==
    /\ status = "in_position" => open # {}
    /\ status = "cooldown" => open = {}

\* A stopped session is flat: close_all, a liquidation and the exits racing
\* them never leave an open trade behind a stopped status.
StoppedIsFlat == status = "stopped" => open = {}

\* Until an operator continues, a paused session opens no trade and no exit,
\* finished cooldown, revision or bootstrap re-arms it.
PauseHolds ==
    [][held /\ held' => /\ open' \subseteq open
                        /\ status' \in {"paused"} \cup Ended]_vars

\* A stopped or completed session is never revived and opens no trade.
EndedStaysEnded ==
    [][(status \in Ended) => /\ status' \in Ended
                             /\ open' \subseteq open]_vars

\* No trade opens in the cooldown after a stop loss, unless an operator
\* paused and continued the session meanwhile.
CooldownRespected == [][open' \subseteq open \/ cooled \/ lifted]_vars

\* Every session whose window is over is completed or stopped.
WindowIsClosed == over ~> status \in Ended

\* An open trade of a watched session does not stay open for ever.
TradeIsExited == open # {} ~> open = {} \/ status \notin Watched
=============================================================================
