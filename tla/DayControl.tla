----------------------------- MODULE DayControl -----------------------------
(***************************************************************************)
(* The confirmation cards of the chat (chatbot/services/day_control.py and *)
(* paper_orders.py) over paper_trading: a card shows an operator what is   *)
(* in force, a tap confirms it, the service turns the tap into a command   *)
(* row, and the runner executes the row.  Between the card and the         *)
(* execution the day may end, another one may start, another card may      *)
(* change the same limits, and either process may die.                     *)
(*                                                                         *)
(* A card's idempotency key is tg-<owner>-<ticket>, so Keys are the cards. *)
(* The day's own course (PaperRunner) is a choice here, and so is what the *)
(* market lets through.  Limits and risks are small naturals.              *)
(***************************************************************************)
EXTENDS CommandStore, DayStore

CONSTANTS Taps,          \* confirm() calls that may be under way at once
          Fields,        \* keys of LIMIT_FIELDS; "risk" is the per-order one
          Changes,       \* the new limits an operator may ask for
          MaxValue,      \* bound on a limit and on the risk of an order
          MaxTroubles,   \* bound on the runner's crashes and failed writes
          NoKey          \* no card

ASSUME ControlAssumption ==
  /\ "risk" \in Fields
  /\ MaxValue \in Nat \ {0} /\ MaxTroubles \in Nat
  /\ NoKey \notin Keys

VARIABLES limits,        \* settings_snapshot: the limits of each day's row
          card,          \* [Keys -> what the card shows], NoCard before it
          tap,           \* [Taps -> where a confirm() call is]
          row,           \* [Keys -> the days a command row rests on]
          phase, cmd,    \* where the runner is, and the row it holds
          verdict,       \* what the handler is about to record
          written,       \* history: how often each card's limits were stored
          released,      \* history: the rows a start-up gave back
          unsaid,        \* history: the rows whose verdict was not stored
          unheard,       \* history: the rows whose store took effect and failed
          reopened,      \* history: the days that left closed again
          troubles

storeRows  == << status, aged, row >>
chatVars   == << card, tap >>
runnerVars == << phase, cmd, verdict >>
history    == << written, released, unsaid, unheard, reopened >>
vars == << status, aged, row, dayState, expired, limits, card, tap,
           phase, cmd, verdict, written, released, unsaid, unheard, reopened,
           troubles >>

Values  == 1 .. MaxValue
Kinds   == {"limits", "control", "deal"}
Partial == UNION {[S -> Values] : S \in SUBSET Fields}
Empty   == [f \in {} |-> 1]

ASSUME ChangesAssumption == Changes \subseteq Partial \ {Empty}

NoCard == [kind |-> "none", day |-> 0, want |-> Empty, shown |-> Empty, risk |-> 0]
Cards  == [kind : Kinds, day : Days, want : Partial, shown : Partial, risk : Nat]
AtRest == [step |-> "idle", key |-> NoKey, gate |-> 0, day |-> 0]
Calls  == [step : {"inputs", "submit", "insert"}, key : Keys,
           gate : Days \cup {0}, day : Days \cup {0}]
NoRow  == [day |-> 0, gate |-> 0]

TypeOK ==
  /\ StoreTypeOK /\ DayTypeOK
  /\ limits \in [Days -> [Fields -> Values]]
  /\ card \in [Keys -> Cards \cup {NoCard}]
  /\ \A c \in Keys : DOMAIN card[c].shown = DOMAIN card[c].want
  /\ tap \in [Taps -> Calls \cup {AtRest}]
  /\ \A t \in Taps : tap[t].step # "idle" => card[tap[t].key] # NoCard
  /\ row \in [Keys -> [day : Days \cup {0}, gate : Days \cup {0}]]
  /\ \A c \in Keys : status[c] # "absent" => card[c] # NoCard /\ row[c].day \in Days
  /\ phase \in {"down", "rest", "execute", "verdict", "settle", "requeue"}
  /\ cmd \in Keys \cup {NoKey} /\ (cmd # NoKey <=> phase \notin {"down", "rest"})
  /\ cmd # NoKey => status[cmd] # "absent"
  /\ verdict \in {"none", "completed", "failed"}
  /\ (phase = "verdict" <=> verdict # "none")
  /\ written \in [Keys -> Nat]
  /\ released \subseteq Keys /\ unsaid \subseteq Keys /\ unheard \subseteq Keys
  /\ reopened \subseteq Days
  /\ troubles \in Nat

\* DEFAULT_SETTINGS: what a new day starts with, whatever its predecessor had.
Default == [f \in Fields |-> MaxValue]

Init ==
  /\ StoreInit /\ DayInit
  /\ limits = [d \in Days |-> Default]
  /\ card = [c \in Keys |-> NoCard]
  /\ tap = [t \in Taps |-> AtRest]
  /\ row = [c \in Keys |-> NoRow]
  /\ phase = "rest" /\ cmd = NoKey /\ verdict = "none"
  /\ written = [c \in Keys |-> 0] /\ released = {} /\ unsaid = {}
  /\ unheard = {} /\ reopened = {}
  /\ troubles = 0

-----------------------------------------------------------------------------
(* Cards: preview().                                                       *)

Tradable(d) == dayState[d] = "running"

(* build_ticket with its gate check_order_risk, as far as the day decides; *)
(* the market, the margin and the open positions may refuse too, see Refuse.*)
GateOpen(d, risk) == Tradable(d) /\ risk <= limits[d]["risk"]

Show(c, shown) ==
  /\ card[c] = NoCard
  /\ card' = [card EXCEPT ![c] = shown]
  /\ UNCHANGED << storeRows, dayVars, limits, tap, runnerVars,
                  history, troubles >>

(* The card of new limits holds the values in force of the same keys.      *)
ShowLimits(c, d, want) ==
  /\ d \in Incomplete
  /\ Show(c, [NoCard EXCEPT !.kind = "limits", !.day = d, !.want = want,
                            !.shown = [f \in DOMAIN want |-> limits[d][f]]])

(* Pause, resume, stop: the card names the day and what will happen.       *)
ShowControl(c, d) ==
  /\ d \in Incomplete
  /\ Show(c, [NoCard EXCEPT !.kind = "control", !.day = d])

(* The card of a manual order shows the size the domain has worked out.    *)
ShowDeal(c, d, risk) ==
  /\ d \in Incomplete
  /\ GateOpen(d, risk)
  /\ Show(c, [NoCard EXCEPT !.kind = "deal", !.day = d, !.risk = risk])

-----------------------------------------------------------------------------
(* Taps: confirm(), then PaperTradingService, then submit_command.         *)

Goto(t, call) == tap' = [tap EXCEPT ![t] = call]

TapOnly == UNCHANGED << dayVars, limits, card, runnerVars, history,
                        troubles >>

(* What confirm() re-reads for a limits card: the day is open and the      *)
(* limits are still what the card shows.                                   *)
StillShown(c) ==
  /\ Tradable(card[c].day)
  /\ \A f \in DOMAIN card[c].shown : limits[card[c].day][f] = card[c].shown[f]

(* The active day is the card's.  A card that expired, was pruned or was   *)
(* lost in a restart of the chat is one that is not tapped again.          *)
Confirm(t, c) ==
  /\ tap[t] = AtRest
  /\ card[c] # NoCard
  /\ card[c].day \in Incomplete
  /\ card[c].kind = "limits" => StillShown(c)
  /\ Goto(t, [AtRest EXCEPT !.key = c,
                            !.step = IF card[c].kind = "deal" THEN "inputs" ELSE "submit"])
  /\ TapOnly /\ UNCHANGED storeRows

(* load_ticket_inputs: day and limits in a read of their own.  The ticket  *)
(* is built again from them; a denial or another size is refused.          *)
ReadInputs(t, d) ==
  /\ tap[t].step = "inputs"
  /\ d \in Incomplete
  /\ GateOpen(d, card[tap[t].key].risk)
  /\ Goto(t, [tap[t] EXCEPT !.step = "submit", !.gate = d])
  /\ TapOnly /\ UNCHANGED storeRows

(* Seeded defect: submit_manual_order without expected_day_id.             *)
AcceptsAnyDay(c, d) == card[c].kind # "control" => Tradable(d)

(* What the service checks on the active day it reads: an order and a      *)
(* limits change need a running day, and an order the day it was shown for.*)
Accepts(c, d) ==
  /\ card[c].kind # "control" => Tradable(d)
  /\ card[c].kind = "deal" => d = card[c].day

(* submit_manual_order, set_day_limits, _auto_control_command: the active  *)
(* day is read once more, and the command will carry that one.             *)
ReadActive(t, d) ==
  /\ tap[t].step = "submit"
  /\ d \in Incomplete
  /\ Accepts(tap[t].key, d)
  /\ Goto(t, [tap[t] EXCEPT !.step = "insert", !.day = d])
  /\ TapOnly /\ UNCHANGED storeRows

(* The key is new: the row carries the day and the card's payload.         *)
Insert(t) ==
  /\ tap[t].step = "insert"
  /\ InsertRow(tap[t].key)
  /\ row' = [row EXCEPT ![tap[t].key] = [day |-> tap[t].day, gate |-> tap[t].gate]]
  /\ Goto(t, AtRest)
  /\ TapOnly

(* The key is taken by an earlier tap on the same card, whose payload has  *)
(* the same hash: the existing command is the answer.                      *)
Replay(t) ==
  /\ tap[t].step = "insert"
  /\ status[tap[t].key] # "absent"
  /\ Goto(t, AtRest)
  /\ TapOnly /\ UNCHANGED storeRows

(* Any other end of the call: a refusal, a domain that does not answer, or *)
(* the death of the chat process.                                          *)
Refuse(t) ==
  /\ tap[t] # AtRest
  /\ Goto(t, AtRest)
  /\ TapOnly /\ UNCHANGED storeRows

ChatStep ==
  \/ \E c \in Keys, d \in Days :
       \/ \E want \in Changes : ShowLimits(c, d, want)
       \/ ShowControl(c, d)
       \/ \E risk \in Values : ShowDeal(c, d, risk)
  \/ \E t \in Taps :
       \/ \E c \in Keys : Confirm(t, c)
       \/ \E d \in Days : ReadInputs(t, d) \/ ReadActive(t, d)
       \/ Insert(t) \/ Replay(t) \/ Refuse(t)

-----------------------------------------------------------------------------
(* The runner: claim, _execute_command, settle.                            *)

Trouble == troubles < MaxTroubles /\ troubles' = troubles + 1

RunnerOnly == UNCHANGED << dayVars, card, tap, row >>

Claim(c) ==
  /\ phase = "rest"
  /\ ClaimRow(c)
  /\ phase' = "execute" /\ cmd' = c
  /\ RunnerOnly /\ UNCHANGED << limits, verdict, history, troubles >>

(* Seeded defect: the merge does not compare.                              *)
InForceBlind(c) == card[c].kind = "limits"

(* merge_day_limits under FOR UPDATE: the values in force are the expected.*)
InForce(c) == \A f \in DOMAIN card[c].shown :
                limits[row[c].day][f] = card[c].shown[f]

(* Only the submitted keys are merged.                                     *)
Merged(old, want) == [f \in Fields |-> IF f \in DOMAIN want THEN want[f] ELSE old[f]]

(* merge_day_limits commits: the swap, and that it happened.               *)
Commit ==
  /\ phase = "execute" /\ card[cmd].kind = "limits"
  /\ InForce(cmd)
  /\ limits' = [limits EXCEPT ![row[cmd].day] = Merged(@, card[cmd].want)]
  /\ written' = [written EXCEPT ![cmd] = @ + 1]
  /\ RunnerOnly /\ UNCHANGED << status, aged, cmd, released, unsaid, reopened >>

Conclude(outcome) == phase' = "verdict" /\ verdict' = outcome

(* _handle_set_automation: stored, lost to another change, or failed; the  *)
(* last too when the merge committed and its answer was lost.              *)
Store == Commit /\ Conclude("completed") /\ UNCHANGED << unheard, troubles >>

StoreUnheard ==
  /\ Commit /\ Trouble
  /\ Conclude("failed") /\ unheard' = unheard \cup {cmd}

LoseSwap ==
  /\ phase = "execute" /\ card[cmd].kind = "limits"
  /\ ~ InForce(cmd)
  /\ Conclude("failed")
  /\ RunnerOnly /\ UNCHANGED << status, aged, limits, cmd, history, troubles >>

StoreFails ==
  /\ phase = "execute" /\ card[cmd].kind = "limits"
  /\ Trouble
  /\ Conclude("failed")
  /\ RunnerOnly /\ UNCHANGED << status, aged, limits, cmd, history >>

(* An order, a pause, a resume and close_all name no outcome: it is done,  *)
(* or put off for want of a quote (PaperRunner has these handlers).        *)
ExecuteOther(next) ==
  /\ phase = "execute" /\ card[cmd].kind # "limits"
  /\ phase' = next
  /\ RunnerOnly
  /\ UNCHANGED << status, aged, limits, cmd, verdict, history, troubles >>

(* Seeded defect: the handler does not name its outcome.                   *)
RecordVerdictNever ==
  /\ phase = "verdict"
  /\ phase' = "settle" /\ verdict' = "none"
  /\ RunnerOnly /\ UNCHANGED << status, aged, limits, cmd, history, troubles >>

(* _finish_command.                                                        *)
RecordVerdict ==
  /\ phase = "verdict"
  /\ RecordOutcome(cmd, verdict)
  /\ phase' = "settle" /\ verdict' = "none"
  /\ RunnerOnly /\ UNCHANGED << limits, cmd, history, troubles >>

(* Its write fails: the error is logged and the handler returns as usual.  *)
RecordVerdictFails ==
  /\ phase = "verdict"
  /\ Trouble
  /\ unsaid' = unsaid \cup {cmd}
  /\ phase' = "settle" /\ verdict' = "none"
  /\ RunnerOnly
  /\ UNCHANGED << status, aged, limits, cmd, written, released, unheard, reopened >>

(* _settle_command: a row that is still processing becomes completed.      *)
Settle ==
  /\ phase = "settle"
  /\ CompleteRow(cmd)
  /\ phase' = "rest" /\ cmd' = NoKey
  /\ RunnerOnly /\ UNCHANGED << limits, verdict, history, troubles >>

(* _requeue_command.                                                       *)
Requeue ==
  /\ phase = "requeue"
  /\ RequeueRow(cmd)
  /\ phase' = "rest" /\ cmd' = NoKey
  /\ RunnerOnly /\ UNCHANGED << limits, verdict, history, troubles >>

SettleFails ==
  /\ phase \in {"settle", "requeue"}
  /\ Trouble
  /\ phase' = "rest" /\ cmd' = NoKey
  /\ RunnerOnly /\ UNCHANGED << status, aged, limits, verdict, history >>

Crash ==
  /\ phase # "down"
  /\ Trouble
  /\ phase' = "down" /\ cmd' = NoKey /\ verdict' = "none"
  /\ RunnerOnly /\ UNCHANGED << status, aged, limits, history >>

(* recover() of the next process gives back what is older than 60 s.       *)
Restart ==
  /\ phase = "down"
  /\ RequeueStaleRows
  /\ released' = released \cup aged
  /\ phase' = "rest"
  /\ RunnerOnly
  /\ UNCHANGED << limits, cmd, verdict, written, unsaid, unheard, reopened,
                 troubles >>

RunnerStep ==
  \/ \E c \in Keys : Claim(c)
  \/ Store \/ StoreUnheard \/ LoseSwap \/ StoreFails
  \/ \E next \in {"settle", "requeue"} : ExecuteOther(next)
  \/ RecordVerdict \/ RecordVerdictFails
  \/ Settle \/ Requeue \/ SettleFails
  \/ Crash \/ Restart

-----------------------------------------------------------------------------
(* Surroundings.                                                           *)

Elsewhere == UNCHANGED << row, limits, card, tap, runnerVars, written,
                          released, unsaid, unheard >>

(* start_day creates the row with the default limits.  The runner's start  *)
(* and finish write over whatever state they find; a close-out is put off  *)
(* or completed.                                                           *)
DayMoves ==
  /\ \E d \in Days :
       \/ CreateDayRow(d)
       \/ /\ dayState[d] # "closed"
          /\ \E s \in {"running", "closing"} : SetDayState(d, s)
       \/ /\ dayState[d] = "closing"
          /\ \E s \in {"settlement_pending", "closed"} : SetDayState(d, s)
  /\ Elsewhere /\ UNCHANGED << status, aged, reopened, troubles >>

(* A closed day's too, when its start or finish row is run again after a   *)
(* crash or a lost write, or a start was sent behind the finish: each is   *)
(* counted among the troubles.                                             *)
DayReopens ==
  /\ Trouble
  /\ \E d \in Days :
       /\ dayState[d] = "closed"
       /\ \E s \in {"running", "closing"} : SetDayState(d, s)
       /\ reopened' = reopened \cup {d}
  /\ Elsewhere /\ UNCHANGED << status, aged >>

RowAges ==
  /\ \E c \in Keys \ {cmd} : AgeRow(c)
  /\ Elsewhere /\ UNCHANGED << dayVars, reopened, troubles >>

Next == ChatStep \/ RunnerStep \/ DayMoves \/ DayReopens \/ RowAges

Spec == Init /\ [][Next]_vars

-----------------------------------------------------------------------------
(* Properties.                                                             *)

\* The card's command moves the day's limits from what the card showed to
\* what it asked for, and nothing else in the snapshot.
Swaps(c, d) ==
  /\ card[c].kind = "limits" /\ status[c] = "processing" /\ row[c].day = d
  /\ \A f \in DOMAIN card[c].want : limits[d][f] = card[c].shown[f]
  /\ \A f \in Fields : limits'[d][f] = IF f \in DOMAIN card[c].want
                                         THEN card[c].want[f] ELSE limits[d][f]

\* Limits of a day change only by a command for that day, from exactly the
\* values its card showed to the values its card asked for, and nothing else
\* in the snapshot moves: no change made in between is overwritten, whatever
\* is read again on the way from preview() to merge_day_limits.
WritesWhatWasShown ==
  [][\A d \in Days : limits'[d] # limits[d] => \E c \in Keys : Swaps(c, d)]_vars

\* What the operator is told about a limits card is what happened to the day:
\* completed means the limits were stored, failed that they were not, and a
\* card is stored once.  Three things break it, and only they: the verdict's
\* own write fails (complete_command then turns a refusal into a success),
\* the answer to a merge that committed is lost (a success is reported as a
\* failure), and a restart that gives the row back after its limits were
\* stored.
VerdictIsTrue ==
  \A c \in Keys : card[c].kind = "limits" =>
    /\ status[c] = "completed" => written[c] > 0 \/ c \in unsaid
    /\ c \notin released =>
         /\ written[c] <= 1
         /\ status[c] \in {"absent", "accepted"} => written[c] = 0
         /\ status[c] = "failed" => written[c] = 0 \/ c \in unheard

\* A manual order belongs to the day its card was made for, and the limits it
\* was checked against on confirmation were that day's, although day, limits
\* and day again are three reads.  A day that is set running again after it
\* was closed may come back between the second read and the third.
OrderKeepsItsDay ==
  \A c \in Keys : card[c].kind = "deal" /\ status[c] # "absent" =>
    /\ row[c].day = card[c].day
    /\ row[c].gate = card[c].day \/ card[c].day \in reopened
=============================================================================
