----------------------------- MODULE PaperRunner -----------------------------
(***************************************************************************)
(* One owner's trading days as the single PaperTradingRunner process runs  *)
(* them: the two-second cycle (recover, closure and rollover, protective   *)
(* exits, the claim / execute / settle pass over the command queue, signal *)
(* evaluation), the one-shot recovery jobs of register_runner that run     *)
(* beside it, and the clients that submit commands.  The database rows     *)
(* survive a crash; everything the runner remembers does not.              *)
(*                                                                         *)
(* A step is the code between two points where another coroutine or        *)
(* process can see or change what it works on: one transaction, with the   *)
(* memory it updates.  Market data, risk checks and balances are choices.  *)
(***************************************************************************)
EXTENDS CommandStore, DayStore, Sequences, FiniteSets

CONSTANTS Entries,       \* ids of orders; a position has its order's id
          StartupJobs,   \* one-shot recoveries scheduled beside the cycle
          Rollover,      \* the day policy's mode is not "manual"
          MaxCrashes,    \* bound on crashes of the runner
          MaxFaults,     \* bound on failed database calls
          NoKey, NoEntry

ASSUME RunnerAssumption ==
  /\ "cycle" \notin StartupJobs
  /\ Rollover \in BOOLEAN
  /\ MaxCrashes \in Nat /\ MaxFaults \in Nat
  /\ NoKey \notin Keys /\ NoEntry \notin Entries

Accounts == {"manual", "auto"}
Jobs     == StartupJobs \cup {"cycle"}

(* The commands of one owner; n tells attempts of the same kind apart, and *)
(* is the position that a close_position command names.  Every finish_day  *)
(* of a day is submitted under one key.                                    *)
Command(kind, d, a, n) == [kind |-> kind, day |-> d, account |-> a, n |-> n]
StartKey(d, a) == Command("start", d, a, 0)
FinishKey(d)   == Command("finish", d, "none", 0)

(* start_day submits for either account, submit_manual_order for the       *)
(* manual one only.                                                        *)
Kinds == {"start", "finish", "order", "pause", "resume", "close_all", "close"}

ASSUME KeysAssumption ==
  /\ \A d \in Days : FinishKey(d) \in Keys /\ \A a \in Accounts : StartKey(d, a) \in Keys
  /\ \A k \in Keys :
       /\ k.kind \in Kinds /\ k.day \in Days
       /\ k.kind = "finish" => k = FinishKey(k.day)
       /\ k.kind = "order" => k.account = "manual"
       /\ k.kind = "close" => k.n \in Entries

VARIABLES queue,         \* the command rows' keys in created_at order
          entry,         \* [Entries -> order row and its position row]
          reading,       \* the submissions that have read the active day
          toSubmit,      \* start commands start_day has still to submit
          phase,         \* where the runner is in its cycle
          batch,         \* what is left of _pending_commands in this pass
          cmd,           \* the claimed command, or NoKey
          placing,       \* the pending order about to be filled, or NoEntry
          todo,          \* what the handler's loop has still to go through
          failed,        \* close_failed: a close of this finish_day failed
          book,          \* _positions
          blocked, recovered, bound,  \* _entries_blocked, _recovered, auto account set
          recovery,      \* [Jobs -> how far the job's recover() has got]
          loaded,        \* the open positions the job has read
          loose,         \* history: starts submitted behind their day's finish,
                        \* put back or passed over
          missed,        \* history: rows the last release was too early for
          paused,        \* history: pause was executed and nothing lifted it
          ghosts,        \* history: closed positions a recovery put in the book
          crashes, faults

rowVars    == << status, aged, queue, loose >>
clientVars == << reading, toSubmit >>
flowVars   == << phase, batch, cmd, placing, todo, failed >>
memVars    == << book, blocked, recovered, bound >>
jobVars    == << recovery, loaded, missed >>
history    == << paused, ghosts >>
bounds     == << crashes, faults >>
vars == << rowVars, dayVars, entry, clientVars, flowVars, memVars, jobVars, history,
           bounds >>

Blank == [state |-> "none", account |-> "none", day |-> 0, cmd |-> NoKey]
EntryState == {"none", "pending", "open", "closed", "rejected", "cancelled"}
Handling == {"start", "finish", "unfilled", "cancel", "load", "quote", "flatten", "defer",
             "end", "order", "fill", "pause", "resume", "close_all", "sweep", "close",
             "settle", "requeue"}
Phases == Handling \cup {"down", "rest", "recovering", "roll", "guard",
                         "claim", "signal", "enter"}
Stages == {"due", "asked", "read", "one", "none", "bound", "lift", "hold", "over"}

Open           == {e \in Entries : entry[e].state = "open"}
OpenOn(a)      == {e \in Open : entry[e].account = a}
OfDay(S, d)    == {e \in S : entry[e].day = d}
Fresh          == {e \in Entries : entry[e].state = "none"}
Starts         == {k \in Keys : k.kind = "start"}

TypeOK ==
  /\ StoreTypeOK /\ DayTypeOK
  /\ queue \in Seq({k \in Keys : status[k] # "absent"})
  /\ entry \in [Entries -> [state : EntryState, account : Accounts \cup {"none"},
                            day : Days \cup {0}, cmd : Keys \cup {NoKey}]]
  /\ reading \subseteq Keys
  /\ toSubmit \in [{"client", "runner"} -> Seq(Keys)]
  /\ phase \in Phases /\ batch \subseteq Keys
  /\ cmd \in Keys \cup {NoKey} /\ (cmd # NoKey <=> phase \in Handling)
  /\ placing \in Entries \cup {NoEntry} /\ (placing # NoEntry <=> phase \in {"fill", "enter"})
  /\ todo \subseteq Entries /\ failed \in BOOLEAN /\ book \subseteq Entries
  /\ blocked \in BOOLEAN /\ recovered \in BOOLEAN /\ bound \in BOOLEAN
  /\ recovery \in [Jobs -> Stages]
  /\ loaded \in [Jobs -> SUBSET Entries]
  /\ loose \subseteq Starts /\ missed \subseteq Keys /\ paused \in BOOLEAN /\ ghosts \subseteq Entries
  /\ crashes \in Nat /\ faults \in Nat

(* A fresh process next to an empty database.                              *)
Init ==
  /\ StoreInit /\ DayInit
  /\ queue = <<>>
  /\ entry = [e \in Entries |-> Blank]
  /\ reading = {} /\ toSubmit = [c \in {"client", "runner"} |-> <<>>]
  /\ phase = "rest" /\ batch = {} /\ cmd = NoKey /\ placing = NoEntry
  /\ todo = {} /\ failed = FALSE
  /\ book = {} /\ blocked = TRUE /\ recovered = FALSE /\ bound = FALSE
  /\ recovery = [j \in Jobs |-> "due"] /\ loaded = [j \in Jobs |-> {}]
  /\ loose = {} /\ missed = {} /\ paused = FALSE /\ ghosts = {}
  /\ crashes = 0 /\ faults = 0

-----------------------------------------------------------------------------
(* PaperTradingService, called by clients and by the rollover.             *)

(* submit_command: see CommandQueue for its own races.                     *)
Submit(k) ==
  /\ InsertRow(k)
  /\ queue' = Append(queue, k)
  /\ loose' = loose \cup {j \in Starts : j = k /\ status[FinishKey(k.day)] # "absent"}

(* start_day: the day row in one transaction, then two submissions.        *)
BeginDay(c, d) ==
  /\ toSubmit[c] = <<>>
  /\ CreateDayRow(d)
  /\ toSubmit' = [toSubmit EXCEPT ![c] = << StartKey(d, "manual"), StartKey(d, "auto") >>]
  /\ UNCHANGED << rowVars, entry, reading >>

SubmitStart(c) ==
  /\ toSubmit[c] # <<>>
  /\ Submit(Head(toSubmit[c]))
  /\ toSubmit' = [toSubmit EXCEPT ![c] = Tail(@)]
  /\ UNCHANGED << dayVars, entry, reading >>

(* finish_day, pause_auto, resume_auto, close_all_positions: the active    *)
(* day only names the command.                                             *)
SubmitControl(k) ==
  /\ k.kind \in {"finish", "pause", "resume", "close_all"}
  /\ k.day \in Incomplete
  /\ Submit(k)
  /\ UNCHANGED << dayVars, entry, clientVars >>

(* submit_manual_order reads the active day and checks that it is running. *)
ReadDay(k) ==
  /\ k.kind = "order" /\ k \notin reading
  /\ status[k] = "absent"
  /\ dayState[k.day] = "running"
  /\ reading' = reading \cup {k}
  /\ UNCHANGED << rowVars, dayVars, entry, toSubmit >>

SubmitOrder(k) ==
  /\ k \in reading
  /\ Submit(k)
  /\ reading' = reading \ {k}
  /\ UNCHANGED << dayVars, entry, toSubmit >>

(* close_position: the account and the day are those of the position row,  *)
(* open or not.                                                            *)
SubmitClose(k) ==
  /\ k.kind = "close"
  /\ entry[k.n].state \in {"open", "closed"}
  /\ entry[k.n].account = k.account /\ entry[k.n].day = k.day
  /\ Submit(k)
  /\ UNCHANGED << dayVars, entry, clientVars >>

ClientStep ==
  /\ \/ \E d \in Days : BeginDay("client", d)
     \/ SubmitStart("client")
     \/ \E k \in Keys : SubmitControl(k) \/ ReadDay(k) \/ SubmitOrder(k) \/ SubmitClose(k)
  /\ UNCHANGED << flowVars, memVars, jobVars, history, bounds >>

-----------------------------------------------------------------------------
(* recover(), run by the cycle and by the start-up jobs, await by await.   *)
(* A call that fails is logged and its answer taken for an empty one.      *)
RecoverStep(j, from, to) ==
  /\ recovery[j] = from
  /\ recovery' = [recovery EXCEPT ![j] = to]
  /\ UNCHANGED << dayVars, entry, clientVars, batch, cmd, placing, todo, failed, crashes >>

(* Blocks entries and releases the stale rows.                             *)
RecoverBegin(j, released) ==
  /\ phase # "down"
  /\ j = "cycle" => phase = "rest" /\ ~ recovered
  /\ RecoverStep(j, "due", "asked")
  /\ blocked' = TRUE
  /\ IF released THEN RequeueStaleRows ELSE UNCHANGED storeVars
  /\ loose' = loose \cup (Starts \cap (aged \ aged'))
  /\ missed' = IF released THEN {k \in Keys \ (aged \cup {cmd}) : status[k] = "processing"}
                            ELSE missed
  /\ phase' = IF j = "cycle" THEN "recovering" ELSE phase
  /\ UNCHANGED << queue, book, recovered, bound, loaded, history >>

(* Reads the open positions.                                               *)
RecoverRead(j, S) ==
  /\ RecoverStep(j, "asked", "read")
  /\ loaded' = [loaded EXCEPT ![j] = S]
  /\ UNCHANGED << rowVars, missed, phase, memVars, history >>

(* Seeded defect: what was read replaces the book.                         *)
RecoverMergeReplaces(j, accounts) ==
  /\ RecoverStep(j, "read", IF accounts = {} THEN "none" ELSE "one")
  /\ book' = loaded[j]
  /\ ghosts' = ghosts \cup (loaded[j] \ Open)
  /\ loaded' = [loaded EXCEPT ![j] = {}]
  /\ UNCHANGED << rowVars, missed, phase, blocked, recovered, bound, paused >>

(* Merges them into the book, and reads the auto account of the days in    *)
(* flight.                                                                 *)
RecoverMerge(j, accounts) ==
  /\ RecoverStep(j, "read", IF accounts = {} THEN "none" ELSE "one")
  /\ book' = book \cup loaded[j]
  /\ ghosts' = ghosts \cup (loaded[j] \ Open)
  /\ loaded' = [loaded EXCEPT ![j] = {}]
  /\ UNCHANGED << rowVars, missed, phase, blocked, recovered, bound, paused >>

(* Binds the account, or none.                                             *)
RecoverBind(j) ==
  /\ \/ RecoverStep(j, "one", "bound")
     \/ RecoverStep(j, "none", "hold")
  /\ bound' = (recovery[j] = "one")
  /\ UNCHANGED << rowVars, missed, phase, book, blocked, recovered, loaded, history >>

(* Reconciles the ledger of what the book holds, and reads whether the day *)
(* is being closed: entries are unblocked when neither says no.            *)
RecoverCheck(j, clean) ==
  /\ clean \/ book # {}
  /\ RecoverStep(j, "bound",
       IF clean /\ \A d \in Days : dayState[d] \notin {"closing", "settlement_pending"}
         THEN "lift" ELSE "hold")
  /\ UNCHANGED << rowVars, missed, phase, memVars, loaded, history >>

RecoverEnd(j) ==
  /\ recovery[j] \in {"lift", "hold"}
  /\ RecoverStep(j, recovery[j], "over")
  /\ recovered' = TRUE
  /\ blocked' = (recovery[j] = "hold")
  /\ paused' = (paused /\ recovery[j] = "hold")
  /\ phase' = IF j = "cycle" THEN "rest" ELSE phase
  /\ UNCHANGED << rowVars, missed, book, bound, loaded, ghosts >>

RecoverJob(j) ==
  /\ \/ RecoverBegin(j, TRUE)
     \/ RecoverRead(j, Open)
     \/ RecoverMerge(j, {d \in Days : dayState[d] \in InFlight})
     \/ RecoverBind(j)
     \/ \E clean \in BOOLEAN : RecoverCheck(j, clean)
     \/ RecoverEnd(j)
  /\ UNCHANGED faults

Recover == \E j \in Jobs : RecoverJob(j)

-----------------------------------------------------------------------------
(* The cycle before its command pass.                                      *)

Goto(p) == /\ phase' = p
           /\ UNCHANGED << batch, cmd, placing, todo, failed >>

(* _maybe_start_next_day: the last day is closed and none is open.         *)
RollDue == /\ Rollover
           /\ Incomplete = {}
           /\ \E d \in Days : dayState[d] = "closed"
           /\ \E d \in Days : dayState[d] = "none"

(* A recovered runner begins a cycle with _auto_finish_expired_days: a     *)
(* finish command for every day that needs one, unless its key was used.   *)
DriveClosure ==
  /\ phase = "rest" /\ recovered
  /\ Goto(IF RollDue THEN "roll" ELSE "guard")
  /\ \/ \E d \in NeedsClosure : Submit(FinishKey(d))
     \/ /\ \A d \in NeedsClosure : status[FinishKey(d)] # "absent"
        /\ UNCHANGED rowVars
  /\ UNCHANGED << dayVars, entry, clientVars, memVars >>

StartNextDay ==
  /\ phase = "roll"
  /\ \/ RollDue /\ \E d \in Days : BeginDay("runner", d)
     \/ SubmitStart("runner")
  /\ UNCHANGED << flowVars, memVars >>

EndRollover ==
  /\ phase = "roll"
  /\ toSubmit["runner"] = <<>> /\ ~ RollDue
  /\ Goto("guard")
  /\ UNCHANGED << rowVars, dayVars, entry, clientVars, memVars >>

(* Seeded defect: the copy is kept after the commit.                       *)
CloseCopyKept(e) ==
  /\ entry' = IF e \in Open THEN [entry EXCEPT ![e].state = "closed"] ELSE entry
  /\ book' = IF e \in Open THEN book ELSE book

(* _execute_position_close on the runner's copy of the position: the       *)
(* commit refuses one that is no longer open, and the copy stays.          *)
CloseCopy(e) ==
  /\ entry' = IF e \in Open THEN [entry EXCEPT ![e].state = "closed"] ELSE entry
  /\ book' = IF e \in Open THEN book \ {e} ELSE book

(* _check_sl_tp: a stop or target of a position in the book was hit.       *)
Protect(e) ==
  /\ phase = "guard"
  /\ e \in book \cap Open
  /\ CloseCopy(e)
  /\ UNCHANGED << rowVars, dayVars, clientVars, flowVars, blocked, recovered, bound >>

(* The poll: the accepted rows, to be taken in created_at order.           *)
Poll ==
  /\ phase = "guard"
  /\ batch' = {k \in Keys : status[k] = "accepted"}
  /\ phase' = "claim"
  /\ UNCHANGED << rowVars, dayVars, entry, clientVars, cmd, placing, todo, failed, memVars >>

(* Row k was not created after row j.                                      *)
NotAfter(k, j) == \E i, m \in DOMAIN queue : i <= m /\ queue[i] = k /\ queue[m] = j

(* Seeded defect: the rows are taken in any order.                         *)
ClaimAnyOrder ==
  /\ phase = "claim"
  /\ \E k \in batch :
       /\ IF status[k] = "accepted"
            THEN ClaimRow(k) /\ cmd' = k /\ phase' = k.kind
            ELSE UNCHANGED << storeVars, cmd, phase >>
       /\ batch' = batch \ {k}
  /\ UNCHANGED << queue, loose, dayVars, entry, clientVars, placing, todo, failed, memVars >>

(* The claim wins the row, or finds that it has been taken and drops it.   *)
Claim ==
  /\ phase = "claim"
  /\ \E k \in batch :
       /\ \A j \in batch : NotAfter(k, j)
       /\ IF status[k] = "accepted"
            THEN ClaimRow(k) /\ cmd' = k /\ phase' = k.kind
            ELSE UNCHANGED << storeVars, cmd, phase >>
       /\ batch' = batch \ {k}
  /\ UNCHANGED << queue, loose, dayVars, entry, clientVars, placing, todo, failed, memVars >>

(* Seeded defect: the block is not looked at.                              *)
EndPassBlind ==
  /\ phase = "claim" /\ batch = {}
  /\ Goto("signal")
  /\ UNCHANGED << rowVars, dayVars, entry, clientVars, memVars >>

(* Signals are looked at only when entries are not blocked.                *)
EndPass ==
  /\ phase = "claim" /\ batch = {}
  /\ Goto(IF blocked THEN "rest" ELSE "signal")
  /\ UNCHANGED << rowVars, dayVars, entry, clientVars, memVars >>

CycleStep ==
  /\ \/ DriveClosure \/ StartNextDay \/ EndRollover
     \/ (\E e \in Entries : Protect(e)) \/ Poll \/ Claim \/ EndPass
  /\ UNCHANGED << jobVars, history, bounds >>

-----------------------------------------------------------------------------
(* Handlers of _execute_command.                                           *)

(* Seeded defect: a start that comes after end_utc is dropped as too late. *)
StartDayInTime ==
  /\ phase = "start"
  /\ IF cmd.day \in expired THEN UNCHANGED dayVars ELSE SetDayState(cmd.day, "running")
  /\ Goto("settle")
  /\ bound' = (bound \/ cmd.account = "auto")
  /\ blocked' = (blocked /\ cmd.account # "auto")
  /\ paused' = (paused /\ cmd.account # "auto")
  /\ UNCHANGED << rowVars, entry, book, recovered >>

(* _handle_start_day: idle or not, the day is set running; the auto        *)
(* account's start also binds the account and lifts the block.             *)
StartDay ==
  /\ phase = "start"
  /\ SetDayState(cmd.day, "running")
  /\ Goto("settle")
  /\ bound' = (bound \/ cmd.account = "auto")
  /\ blocked' = (blocked /\ cmd.account # "auto")
  /\ paused' = (paused /\ cmd.account # "auto")
  /\ UNCHANGED << rowVars, entry, book, recovered >>

(* The index refuses, and the handler asks for another try.                *)
StartRefused ==
  /\ phase = "start"
  /\ ~ Allowed(cmd.day, "running")
  /\ Goto("requeue")
  /\ UNCHANGED << rowVars, dayVars, entry, memVars, paused >>

(* _handle_finish_day: block, then mark the day closing.                   *)
FinishMark ==
  /\ phase = "finish"
  /\ blocked' = TRUE
  /\ IF Allowed(cmd.day, "closing")
       THEN SetDayState(cmd.day, "closing") /\ Goto("unfilled")
       ELSE UNCHANGED dayVars /\ Goto("requeue")
  /\ UNCHANGED << rowVars, entry, book, recovered, bound, paused >>

(* The handler sets out on a loop over S, or goes on with its next item.   *)
Loop(S, next) == /\ todo' = S /\ phase' = next
                 /\ UNCHANGED << batch, cmd, placing >>

(* Its unfilled orders are read, and cancelled one by one.                 *)
Unfilled == {e \in Entries : entry[e].state = "pending" /\ entry[e].day = cmd.day}

FinishUnfilled(S) ==
  /\ phase = "unfilled"
  /\ Loop(S, "cancel")
  /\ UNCHANGED << rowVars, dayVars, entry, failed, memVars, paused >>

FinishCancel(e) ==
  /\ phase = "cancel"
  /\ e \in todo
  /\ entry' = [entry EXCEPT ![e].state = "cancelled"]
  /\ Loop(todo \ {e}, "cancel")
  /\ UNCHANGED << rowVars, dayVars, failed, memVars, paused >>

FinishCancelled ==
  /\ phase = "cancel" /\ todo = {}
  /\ Goto("load")
  /\ UNCHANGED << rowVars, dayVars, entry, memVars, paused >>

(* Its open positions are read and merged into the book.                   *)
FinishLoad(S) ==
  /\ phase = "load"
  /\ book' = book \cup S
  /\ Goto("quote")
  /\ UNCHANGED << rowVars, dayVars, entry, blocked, recovered, bound, paused >>

(* The list to close is made once the quote is there; with something to    *)
(* close and no quote the day is deferred.                                 *)
FinishQuote(quote) ==
  /\ phase = "quote"
  /\ LET S == OfDay(book, cmd.day) IN
       IF quote \/ S = {} THEN Loop(S, "flatten") ELSE Loop({}, "defer")
  /\ UNCHANGED << rowVars, dayVars, entry, failed, memVars, paused >>

FinishClose(e) ==
  /\ phase = "flatten"
  /\ e \in todo
  /\ CloseCopy(e)
  /\ failed' = (failed \/ e \notin Open)
  /\ Loop(todo \ {e}, "flatten")
  /\ UNCHANGED << rowVars, dayVars, blocked, recovered, bound, paused >>

(* Seeded defect: a close that failed does not hold the day back.          *)
FinishFlatAnyway ==
  /\ phase = "flatten" /\ todo = {}
  /\ Goto("end")
  /\ UNCHANGED << rowVars, dayVars, entry, memVars, paused >>

(* A close that failed puts the day off, and so does a position the book   *)
(* still holds.                                                            *)
FinishFlat ==
  /\ phase = "flatten" /\ todo = {}
  /\ Goto(IF failed \/ OfDay(book, cmd.day) # {} THEN "defer" ELSE "end")
  /\ UNCHANGED << rowVars, dayVars, entry, memVars, paused >>

(* settlement_pending and another try, or closed.                          *)
FinishWrite(at, s, next) ==
  /\ phase = at
  /\ SetDayState(cmd.day, s)
  /\ Goto(next)
  /\ UNCHANGED << rowVars, entry, memVars, paused >>
FinishDefer == FinishWrite("defer", "settlement_pending", "requeue")
FinishEnd   == FinishWrite("end", "closed", "settle")

(* A pending order row, and the order in hand.                             *)
Place(e, a, d, k, next) ==
  /\ e \in Fresh
  /\ entry' = [entry EXCEPT ![e] = [state |-> "pending", account |-> a, day |-> d, cmd |-> k]]
  /\ placing' = e
  /\ phase' = next
  /\ UNCHANGED << rowVars, dayVars, batch, cmd, todo, failed, memVars, paused >>

(* Seeded defect: the copy is left out of the book.                        *)
FillUnwatched(next) ==
  /\ OpenOn(entry[placing].account) = {}
  /\ entry' = [entry EXCEPT ![placing].state = "open"]
  /\ placing' = NoEntry
  /\ phase' = next
  /\ UNCHANGED << rowVars, dayVars, batch, cmd, todo, failed, memVars, paused >>

(* commit_open_fill: the position, and its copy in the book.               *)
Fill(next) ==
  /\ OpenOn(entry[placing].account) = {}
  /\ entry' = [entry EXCEPT ![placing].state = "open"]
  /\ book' = book \cup {placing}
  /\ placing' = NoEntry
  /\ phase' = next
  /\ UNCHANGED << rowVars, dayVars, batch, cmd, todo, failed, blocked, recovered, bound, paused >>

(* The order in hand comes to nothing and its row ends in state s.         *)
Drop(s, next) ==
  /\ entry' = [entry EXCEPT ![placing].state = s]
  /\ placing' = NoEntry
  /\ phase' = next
  /\ UNCHANGED << rowVars, dayVars, batch, cmd, todo, failed, memVars, paused >>

(* Seeded defect: a filled order is put back.                              *)
FillOrderPutBack == phase = "fill" /\ Fill("requeue")

(* _handle_submit_order: the day's state is not looked at.  Without a      *)
(* quote or an order row it is put back, without liquidity acknowledged;   *)
(* a commit the balance or the index refuses is put back too.              *)
PlaceOrder(e) == phase = "order" /\ Place(e, cmd.account, cmd.day, cmd, "fill")
FillOrder     == phase = "fill" /\ Fill("settle")
OrderPutBack  == phase = "fill" /\ Drop("pending", "requeue")
OrderNotPlaced(next) ==
  /\ phase = "order"
  /\ Goto(next)
  /\ UNCHANGED << rowVars, dayVars, entry, memVars, paused >>

PauseAuto ==
  /\ phase = "pause"
  /\ Goto("settle")
  /\ blocked' = TRUE /\ paused' = TRUE
  /\ UNCHANGED << rowVars, dayVars, entry, book, recovered, bound >>

ResumeAuto ==
  /\ phase = "resume"
  /\ Goto("settle")
  /\ blocked' = (blocked /\ ~ recovered) /\ paused' = FALSE
  /\ UNCHANGED << rowVars, dayVars, entry, book, recovered, bound >>

(* close_all: block, list what the book holds of the auto account, close   *)
(* it; a close that fails is logged and the command counts as done.        *)
OnAuto(S) == {e \in S : entry[e].account = "auto"}

CloseList(at, S, quote) ==
  /\ phase = at
  /\ IF S = {} THEN Loop({}, "settle") ELSE IF quote THEN Loop(S, "sweep") ELSE Loop({}, "requeue")
  /\ UNCHANGED << rowVars, dayVars, entry, failed, book, recovered, bound, paused >>

CloseAll(quote) == CloseList("close_all", OnAuto(book), quote) /\ blocked' = TRUE

(* close_position: a position that is not in the book is acknowledged, and *)
(* so is one whose close failed.                                           *)
ClosePosition(quote) == CloseList("close", {cmd.n} \cap book, quote) /\ UNCHANGED blocked

Sweep(e) ==
  /\ phase = "sweep"
  /\ e \in todo
  /\ CloseCopy(e)
  /\ Loop(todo \ {e}, "sweep")
  /\ UNCHANGED << rowVars, dayVars, failed, blocked, recovered, bound, paused >>

SweepEnd ==
  /\ phase = "sweep" /\ todo = {}
  /\ Goto("settle")
  /\ UNCHANGED << rowVars, dayVars, entry, memVars, paused >>

(* The command leaves the runner's hands.                                  *)
Release == /\ cmd' = NoKey /\ phase' = "claim" /\ failed' = FALSE
           /\ UNCHANGED << queue, dayVars, entry, batch, placing, todo, memVars, paused >>
Settle  == phase = "settle" /\ CompleteRow(cmd) /\ Release /\ UNCHANGED loose
Requeue == phase = "requeue" /\ RequeueRow(cmd) /\ Release /\ loose' = loose \cup (Starts \cap {cmd})

(* Seeded defect: the day's state is not looked at.                        *)
MayEnterAnyDay(d) == bound /\ d \in Incomplete /\ OpenOn("auto") = {}

(* _evaluate_signals: a signal on a new bar, the bound account, its        *)
(* owner's active day running, and no open position.                       *)
MayEnter(d) == bound /\ d \in Incomplete /\ dayState[d] = "running" /\ OpenOn("auto") = {}

EnterOrder(e, d) ==
  /\ phase = "signal"
  /\ MayEnter(d)
  /\ Place(e, "auto", d, NoKey, "enter")
EnterFill == phase = "enter" /\ Fill("rest")
(* Rejected by the second look, or a commit that failed and is only logged.*)
EnterDrop == phase = "enter" /\ \E s \in {"rejected", "pending"} : Drop(s, "rest")
NoSignal ==
  /\ phase = "signal"
  /\ Goto("rest")
  /\ UNCHANGED << rowVars, dayVars, entry, memVars, paused >>

HandlerStep ==
  /\ \/ StartDay \/ StartRefused
     \/ FinishMark \/ FinishUnfilled(Unfilled) \/ FinishCancelled
     \/ FinishLoad(OfDay(Open, cmd.day))
     \/ FinishFlat \/ FinishDefer \/ FinishEnd
     \/ \E e \in Entries : FinishCancel(e) \/ FinishClose(e) \/ Sweep(e) \/ PlaceOrder(e)
     \/ \E quote \in BOOLEAN : FinishQuote(quote) \/ CloseAll(quote) \/ ClosePosition(quote)
     \/ FillOrder \/ OrderPutBack
     \/ \E next \in {"requeue", "settle"} : OrderNotPlaced(next)
     \/ PauseAuto \/ ResumeAuto \/ SweepEnd
     \/ (\E e \in Entries, d \in Days : EnterOrder(e, d)) \/ EnterFill \/ EnterDrop \/ NoSignal
     \/ Settle \/ Requeue
  /\ UNCHANGED << clientVars, jobVars, ghosts, bounds >>

-----------------------------------------------------------------------------
(* Failures: one database call raises, and had no effect.                  *)

(* recover(): each failure is logged; an unread day counts as closing.     *)
RecoverBlind ==
  \E j \in Jobs :
    \/ RecoverBegin(j, FALSE)
    \/ RecoverRead(j, {})
    \/ RecoverMerge(j, {})
    \/ /\ RecoverStep(j, "bound", "hold")
       /\ UNCHANGED << rowVars, missed, phase, memVars, loaded, history >>

(* The days to close are not read, or the queue is not.                    *)
CycleBlind ==
  /\ \/ phase = "rest" /\ recovered /\ phase' = "guard" /\ UNCHANGED batch
     \/ phase = "guard" /\ phase' = "claim" /\ batch' = {}
  /\ UNCHANGED << rowVars, dayVars, entry, cmd, placing, todo, failed, memVars, history >>

(* A claim fails: the command waits for the next pass.                     *)
ClaimFails ==
  /\ phase = "claim"
  /\ \E k \in batch : batch' = batch \ {k} /\ loose' = loose \cup (Starts \cap {k})
  /\ UNCHANGED << storeVars, queue, dayVars, entry, phase, cmd, placing, todo, failed, memVars, history >>

(* What the handler reads first fails: start_day without its account is    *)
(* acknowledged, finish_day goes on with no order or no position.          *)
HandlerBlind ==
  /\ \/ phase = "start" /\ Goto("settle")
           /\ UNCHANGED << rowVars, dayVars, entry, memVars, paused >>
     \/ FinishUnfilled({}) \/ FinishLoad({})
  /\ UNCHANGED ghosts

(* A write of the handler fails and the handler asks for another try.      *)
WriteFails ==
  /\ phase \in {"start", "finish", "end"}
  /\ blocked' = (blocked \/ phase = "finish")
  /\ Goto("requeue")
  /\ UNCHANGED << rowVars, dayVars, entry, book, recovered, bound, history >>

(* A cancel or a closing commit of a loop fails; the loop goes on.         *)
ItemFails(e) ==
  /\ e \in todo
  /\ Loop(todo \ {e}, phase)
  /\ failed' = (failed \/ phase = "flatten")
  /\ UNCHANGED << rowVars, dayVars, entry, memVars, history >>

(* The outcome is not written: the row stays processing.                   *)
OutcomeLost == phase \in {"settle", "requeue"} /\ Release /\ UNCHANGED << storeVars, loose, ghosts >>

(* Writing settlement_pending is not guarded: the exception ends the cycle.*)
Escape ==
  /\ phase = "defer"
  /\ phase' = "rest" /\ cmd' = NoKey /\ failed' = FALSE /\ batch' = {}
  /\ UNCHANGED << rowVars, dayVars, entry, placing, todo, memVars, history >>

Fault ==
  /\ faults < MaxFaults
  /\ faults' = faults + 1
  /\ \/ RecoverBlind
     \/ /\ \/ CycleBlind \/ ClaimFails \/ HandlerBlind \/ WriteFails \/ OutcomeLost \/ Escape
           \/ \E e \in Entries : ItemFails(e)
        /\ UNCHANGED << clientVars, jobVars, crashes >>

(* The process dies and forgets.                                           *)
Crash ==
  /\ phase # "down"
  /\ crashes < MaxCrashes
  /\ crashes' = crashes + 1
  /\ phase' = "down" /\ batch' = {} /\ cmd' = NoKey /\ placing' = NoEntry
  /\ todo' = {} /\ failed' = FALSE
  /\ book' = {} /\ blocked' = TRUE /\ recovered' = FALSE /\ bound' = FALSE
  /\ recovery' = [j \in Jobs |-> "over"] /\ loaded' = [j \in Jobs |-> {}]
  /\ toSubmit' = [toSubmit EXCEPT !["runner"] = <<>>]
  /\ ghosts' = {}
  /\ UNCHANGED << rowVars, dayVars, entry, reading, missed, paused, faults >>

(* The container restarts it at once, or when it can.                      *)
Restart ==
  /\ phase = "down"
  /\ phase' = "rest"
  /\ recovery' = [j \in Jobs |-> "due"]
  /\ UNCHANGED << rowVars, dayVars, entry, clientVars, batch, cmd, placing, todo, failed, memVars,
                  loaded, missed, history, bounds >>

(* Time: a row nobody holds outlives the window, a day outlives its end.   *)
Age(k) ==
  /\ k # cmd
  /\ AgeRow(k)
  /\ UNCHANGED << queue, loose, dayVars, entry, clientVars, flowVars, memVars, jobVars, history, bounds >>

Expire(d) ==
  /\ ExpireDay(d)
  /\ UNCHANGED << rowVars, entry, clientVars, flowVars, memVars, jobVars, history, bounds >>

RunnerStep == Recover \/ CycleStep \/ HandlerStep

Next ==
  \/ ClientStep
  \/ RunnerStep
  \/ Fault
  \/ Crash \/ Restart
  \/ \E k \in Keys : Age(k)
  \/ \E d \in Days : Expire(d)

Spec == Init /\ [][Next]_vars

(***************************************************************************)
(* Fairness.  The scheduler runs the cycle every two seconds and one pass  *)
(* takes every polled command in turn, so a runner that can step steps,    *)
(* and so does a start-up job; a quote that is missing comes back (strong  *)
(* fairness on the list that is made with one); the container is restarted *)
(* and clocks advance.  A client that began start_day ends it.  No order,  *)
(* signal, fault, crash or other client call is owed, and nothing is said  *)
(* of how soon the process is back.                                        *)
(***************************************************************************)
QuotedList == FinishQuote(TRUE) /\ UNCHANGED << clientVars, jobVars, ghosts, bounds >>
ClientGoesOn == SubmitStart("client") /\ UNCHANGED << flowVars, memVars, jobVars, history, bounds >>

Fairness ==
  /\ WF_vars(RunnerStep)
  /\ \A j \in StartupJobs : WF_vars(RecoverJob(j))
  /\ SF_vars(QuotedList)
  /\ WF_vars(Restart)
  /\ WF_vars(ClientGoesOn)
  /\ \A k \in Keys : WF_vars(Age(k))
  /\ \A d \in Days : WF_vars(Expire(d))

FairSpec == Spec /\ Fairness

-----------------------------------------------------------------------------
(* Properties.                                                             *)

(* _handle_finish_day: a day is declared closed only when no position of   *)
(* it, manual or automatic, is open in the database -- whatever the        *)
(* runner's own book had forgotten or not yet learned.                     *)
ClosesFlat ==
  [][\A d \in Days : dayState[d] # "closed" /\ dayState'[d] = "closed"
                       => OfDay(Open, d)' = {}]_vars

(* The auto account opens positions only for a day that is running at that *)
(* very moment, and never for one that was closed before.                  *)
AutoEntersRunningDay ==
  [][\A e \in Entries : entry'[e].account = "auto" /\ e \notin Open /\ e \in Open'
                       => dayState[entry'[e].day] = "running"]_vars

(* A recovered runner knows every open position: none is missing from the  *)
(* book its stop-loss watch goes through, over crashes and recoveries that *)
(* overlap, as long as no database call failed.                            *)
OpenIsWatched == recovered /\ faults = 0 => Open \subseteq book

(* What finish_day says when it puts the closing off -- that one or more   *)
(* positions remain open -- is so in the database, or a recovery that read *)
(* before the position was closed and merged after put its copy back.      *)
DeferralIsHonest ==
  [][\A d \in Days : dayState[d] = "closing" /\ dayState'[d] = "settlement_pending"
                       => OfDay(Open \cup ghosts, d) # {}]_vars

(* A submit_order command opens one position, and at most one more for     *)
(* every crash or failed database call, which may have it executed again.  *)
FillsOf(k) == {e \in Entries : entry[e].cmd = k /\ entry[e].state \in {"open", "closed"}}
OneFillPerCommand == \A k \in Keys : Cardinality(FillsOf(k)) <= 1 + crashes + faults

(* The runner looks a position up in its book only, and acknowledges a     *)
(* close_position for one it does not find there.  As long as no database  *)
(* call failed, a completed close_position means that position is closed.  *)
CompletedCloseIsClosed ==
  faults = 0 => \A k \in Keys : k.kind = "close" /\ status[k] = "completed"
                                   => entry[k.n].state = "closed"

(* The days with a start command that may come after their finish.         *)
Leftover == {k.day : k \in loose}

(* A closed day runs again only by such a start: commands that never went  *)
(* back to the queue are executed in the order they were submitted.        *)
ClosedNeverRuns ==
  [][\A d \in Days : dayState[d] = "closed" /\ dayState'[d] = "running"
                       => cmd \in loose]_vars

(* What the owner is promised: see TradingDays.  Every transaction of the  *)
(* runner is a step of it or is not seen in it: days follow one another,   *)
(* each is closed flat, none runs a second time but by a start that was    *)
(* left over, and an account holds one position at a time.                 *)
DayNow(d) == IF dayState[d] \in {"closing", "settlement_pending"} THEN "ending" ELSE dayState[d]
Held(e)   == [id |-> e, day |-> entry[e].day, account |-> entry[e].account]

Promised == INSTANCE TradingDays WITH
  Positions <- Entries,
  day <- [d \in Days |-> DayNow(d)],
  held <- {Held(e) : e \in Open},
  leftover <- Leftover

KeepsDays == Promised!Spec

(* After a pause was executed the auto account opens no position until a   *)
(* resume, the start of a day, or a recovery that unblocks entries.        *)
PauseHolds ==
  [][paused /\ paused' => OpenOn("auto")' \subseteq OpenOn("auto")]_vars

(* A crash leaves a command processing, and the last recovery since came   *)
(* before its row had aged: nobody will touch it again.                    *)
Stranded(k) == status[k] = "processing" /\ k \in missed

(* start_day's commands are not lost: a created day starts, unless crashes *)
(* left both its start commands processing for good.                       *)
IdleDayStarts ==
  \A d \in Days : \/ dayState[d] = "idle" ~> dayState[d] # "idle"
                  \/ <>[](\A a \in Accounts : Stranded(StartKey(d, a)))

(* _auto_finish_expired_days drives the closure until it succeeds: a day   *)
(* that is running comes to an end, unless a crash left its finish command *)
(* processing for good, a start was left over to run it again, or a        *)
(* position that is not open any more is still in the book.                *)
EveryDayEnds ==
  \A d \in Days : \/ dayState[d] = "running" ~> dayState[d] = "closed"
                  \/ <>[](Stranded(FinishKey(d)) \/ d \in Leftover \/ OfDay(ghosts, d) # {})

(* The docstring of _auto_finish_expired_days: the persisted command makes *)
(* closure crash-recoverable, so a day that is being closed is closed, or  *)
(* run again by a start that was left over.  It is neither when a runner   *)
(* that died is back before its finish command has aged.                   *)
ClosureIsCrashRecoverable ==
  \A d \in Days : dayState[d] = "closing" ~> dayState[d] = "closed" \/ d \in Leftover
=============================================================================
