------------------------- MODULE PaperRunner_proofs -------------------------
(***************************************************************************)
(* The safety of the paper trading runner for any number of days, orders,  *)
(* commands, crashes and failed calls.  First what one step may do to each *)
(* part of the state, then the type invariant, then the invariants that    *)
(* rest on it.                                                             *)
(***************************************************************************)
EXTENDS PaperRunner, FiniteSetTheorems, TLAPS

USE RunnerAssumption, KeysAssumption, LastDayAssumption

-----------------------------------------------------------------------------
(* What a step does to the command rows, and whose command it leaves in    *)
(* the runner's hands: one transaction of the store, or none.  Only a      *)
(* failure drops a command without writing its row.                        *)
Traded  == {"open", "closed"}
Callers == {"client", "runner"}

(* What lets a command be submitted, by its kind.                          *)
Sends(k) ==
  /\ Submit(k)
  /\ UNCHANGED << cmd, batch, entry, dayVars >>
  /\ k.kind = "close" => entry[k.n].state \in Traded
  /\ k.kind = "order" => k \in reading

Drops == \/ crashes' = crashes + 1 /\ batch' = {}
         \/ faults' = faults + 1 /\ batch' \in {batch, {}}

RowStep ==
  \/ UNCHANGED << rowVars, cmd >>
  \/ UNCHANGED rowVars /\ cmd' = NoKey /\ Drops
  \/ \E k \in batch : /\ UNCHANGED << storeVars, queue, cmd >> /\ batch' = batch \ {k}
                      /\ loose' = loose \cup (Starts \cap {k})
                      /\ UNCHANGED << entry, dayVars >>
  \/ \E k \in Keys : Sends(k)
  \/ /\ RequeueStaleRows /\ loose' = loose \cup (Starts \cap aged)
     /\ UNCHANGED << queue, cmd, batch, entry, dayVars >>
  \/ \E k \in batch : /\ phase = "claim" /\ (\A j \in batch : NotAfter(k, j))
                      /\ ClaimRow(k) /\ cmd' = k /\ batch' = batch \ {k}
                      /\ UNCHANGED << queue, loose, dayVars >>
  \/ phase = "settle" /\ CompleteRow(cmd) /\ cmd' = NoKey /\ UNCHANGED << queue, loose, batch >>
  \/ /\ phase = "requeue" /\ RequeueRow(cmd) /\ cmd' = NoKey
     /\ loose' = loose \cup (Starts \cap {cmd}) /\ UNCHANGED << queue, batch, entry, dayVars >>
  \/ \E k \in Keys : k # cmd /\ AgeRow(k) /\ UNCHANGED << queue, loose, cmd, batch >>

(* What a client has yet to submit are orders and starts.                  *)
ClientsOK == /\ reading \subseteq {k \in Keys : k.kind = "order"}
             /\ toSubmit \in [Callers -> Seq(Starts)]

LEMMA HeadIsStart ==
  ASSUME ClientsOK, NEW c \in Callers, toSubmit[c] # <<>>
  PROVE  Head(toSubmit[c]) \in Starts
<1>1. toSubmit[c] \in Seq(Starts)
  BY DEF ClientsOK
<1> QED BY <1>1

LEMMA ClientRows == ASSUME ClientsOK, ClientStep PROVE RowStep
<1>1. UNCHANGED << cmd, batch >>
  BY DEF ClientStep, flowVars
<1>2. ASSUME NEW d \in Days, BeginDay("client", d) PROVE RowStep
  BY <1>1, <1>2 DEF BeginDay, RowStep
<1>3. CASE SubmitStart("client")
  BY <1>1, <1>3, HeadIsStart DEF SubmitStart, RowStep, Sends, Callers, Starts
<1>4. ASSUME NEW k \in Keys, SubmitControl(k) \/ SubmitOrder(k) \/ SubmitClose(k)
      PROVE  RowStep
  BY <1>1, <1>4 DEF SubmitControl, SubmitOrder, SubmitClose, RowStep, Sends, ClientsOK, Traded
<1>5. ASSUME NEW k \in Keys, ReadDay(k) PROVE RowStep
  BY <1>1, <1>5 DEF ReadDay, RowStep
<1> QED BY <1>2, <1>3, <1>4, <1>5 DEF ClientStep

LEMMA RecoverRows == ASSUME TypeOK, Recover \/ (Fault /\ RecoverBlind) PROVE RowStep
<1>1. ASSUME NEW j \in Jobs, NEW released \in BOOLEAN, RecoverBegin(j, released) PROVE RowStep
  <2>1. aged \subseteq Keys /\ Starts \subseteq Keys /\ loose \subseteq Starts
    BY DEF TypeOK, StoreTypeOK, Starts
  <2>2. CASE released
    <3>1. aged \ aged' = aged
      BY <1>1, <2>2 DEF RecoverBegin, RequeueStaleRows
    <3> QED BY <1>1, <2>2, <3>1 DEF RecoverBegin, RecoverStep, RowStep
  <2>3. CASE ~ released
    <3>1. loose' = loose /\ UNCHANGED storeVars
      BY <1>1, <2>3 DEF RecoverBegin, storeVars
    <3> QED BY <1>1, <3>1 DEF RecoverBegin, RecoverStep, RowStep, rowVars, storeVars
  <2> QED BY <2>2, <2>3
<1>2. ASSUME NEW j \in Jobs,
             \/ \E S : RecoverRead(j, S) \/ RecoverMerge(j, S) \/ RecoverCheck(j, S)
             \/ RecoverBind(j) \/ RecoverEnd(j)
             \/ RecoverStep(j, "bound", "hold") /\ UNCHANGED rowVars
      PROVE  RowStep
  BY <1>2 DEF RecoverRead, RecoverMerge, RecoverCheck, RecoverBind, RecoverEnd, RecoverStep,
              RowStep
<1> QED BY <1>1, <1>2 DEF Recover, RecoverJob, RecoverBlind

LEMMA CycleRows == ASSUME TypeOK, ClientsOK, CycleStep PROVE RowStep
<1>1. CASE DriveClosure
  <2>1. UNCHANGED << cmd, batch, entry, dayVars >>
    BY <1>1 DEF DriveClosure, Goto
  <2>2. \A d \in NeedsClosure : d \in Days
    BY DEF NeedsClosure
  <2> QED BY <1>1, <2>1, <2>2 DEF DriveClosure, RowStep, Sends, FinishKey, Command
<1>2. CASE StartNextDay
  <2>1. UNCHANGED << cmd, batch >>
    BY <1>2 DEF StartNextDay, flowVars
  <2> QED
    BY <1>2, <2>1, HeadIsStart
    DEF StartNextDay, BeginDay, SubmitStart, RowStep, Sends, Callers, Starts
<1>3. CASE EndRollover \/ Poll \/ EndPass
  BY <1>3 DEF EndRollover, Poll, EndPass, Goto, RowStep
<1>4. ASSUME NEW e \in Entries, Protect(e) PROVE RowStep
  BY <1>4 DEF Protect, flowVars, RowStep
<1>5. CASE Claim
  BY <1>5 DEF Claim, RowStep, TypeOK, rowVars, storeVars
<1> QED BY <1>1, <1>2, <1>3, <1>4, <1>5 DEF CycleStep

LEMMA HandlerRows == ASSUME HandlerStep PROVE RowStep
<1>1. CASE Settle \/ Requeue
  BY <1>1 DEF Settle, Requeue, Release, RowStep
<1>2. CASE ~ (Settle \/ Requeue)
  <2>1. UNCHANGED << rowVars, cmd >>
    BY <1>2
    DEF HandlerStep, StartDay, StartRefused, FinishMark, FinishUnfilled, FinishCancelled,
        FinishLoad, FinishFlat, FinishDefer, FinishEnd, FinishWrite, FinishCancel, FinishClose,
        Sweep, PlaceOrder, Place, FinishQuote, CloseAll, ClosePosition, CloseList, FillOrder,
        OrderPutBack, OrderNotPlaced, PauseAuto, ResumeAuto, SweepEnd, EnterOrder, EnterFill,
        EnterDrop, Fill, Drop, NoSignal, Goto, Loop
  <2> QED BY <2>1 DEF RowStep
<1> QED BY <1>1, <1>2

LEMMA RowSteps == ASSUME TypeOK, ClientsOK, [Next]_vars PROVE RowStep
<1>1. CASE Fault /\ ~ RecoverBlind
  <2>1. CASE CycleBlind \/ HandlerBlind \/ WriteFails
    BY <2>1 DEF CycleBlind, HandlerBlind, WriteFails, FinishUnfilled, FinishLoad, Goto, Loop,
                RowStep
  <2>2. CASE ClaimFails
    BY <2>2 DEF ClaimFails, RowStep
  <2>3. CASE OutcomeLost \/ Escape
    BY <1>1, <2>3 DEF Fault, OutcomeLost, Escape, Release, RowStep, Drops, rowVars, storeVars
  <2>4. ASSUME NEW e \in Entries, ItemFails(e) PROVE RowStep
    BY <2>4 DEF ItemFails, Loop, RowStep
  <2> QED BY <1>1, <2>1, <2>2, <2>3, <2>4 DEF Fault
<1>2. CASE Crash \/ Restart
  BY <1>2 DEF Crash, Restart, RowStep, Drops
<1>3. ASSUME NEW k \in Keys, Age(k) PROVE RowStep
  BY <1>3 DEF Age, flowVars, RowStep
<1>4. ASSUME NEW d \in Days, Expire(d) PROVE RowStep
  BY <1>4 DEF Expire, flowVars, RowStep
<1>5. CASE UNCHANGED vars
  BY <1>5 DEF vars, flowVars, RowStep
<1>6. CASE ClientStep \/ Recover \/ CycleStep \/ HandlerStep \/ (Fault /\ RecoverBlind)
  BY <1>6, ClientRows, RecoverRows, CycleRows, HandlerRows
<1> QED BY <1>1, <1>2, <1>3, <1>4, <1>5, <1>6 DEF Next, RunnerStep

-----------------------------------------------------------------------------
(* What a step does to the day rows: the runner writes a day's state in    *)
(* the phases of start_day and finish_day only.                            *)
DayStep ==
  \/ UNCHANGED dayVars
  \/ \E d \in Days : CreateDayRow(d) /\ UNCHANGED << rowVars, entry, phase, cmd, placing >>
  \/ \E d \in Days : ExpireDay(d) /\ UNCHANGED << rowVars, entry, phase, cmd, placing >>
  \/ /\ UNCHANGED << rowVars, entry, cmd >>
     /\ \/ phase = "start" /\ SetDayState(cmd.day, "running") /\ phase' = "settle"
        \/ phase = "finish" /\ SetDayState(cmd.day, "closing") /\ phase' = "unfilled"
        \/ phase = "defer" /\ SetDayState(cmd.day, "settlement_pending") /\ phase' = "requeue"
        \/ phase = "end" /\ SetDayState(cmd.day, "closed") /\ phase' = "settle"

LEMMA DaySteps == ASSUME [Next]_vars PROVE DayStep
<1>1. CASE ClientStep
  BY <1>1 DEF ClientStep, BeginDay, SubmitStart, SubmitControl, ReadDay, SubmitOrder,
              SubmitClose, flowVars, DayStep
<1>2. CASE Recover \/ RecoverBlind
  BY <1>2 DEF Recover, RecoverBlind, RecoverJob, RecoverBegin, RecoverRead, RecoverMerge,
              RecoverBind, RecoverCheck, RecoverEnd, RecoverStep, DayStep
<1>3. CASE CycleStep
  <2>1. CASE StartNextDay
    BY <2>1 DEF StartNextDay, BeginDay, SubmitStart, flowVars, DayStep
  <2>2. CASE ~ StartNextDay
    BY <1>3, <2>2
    DEF CycleStep, DriveClosure, EndRollover, Protect, Poll, Claim, EndPass, DayStep
  <2> QED BY <2>1, <2>2
<1>4. CASE HandlerStep
  <2>1. CASE StartDay \/ FinishDefer \/ FinishEnd
    BY <2>1 DEF StartDay, FinishDefer, FinishEnd, FinishWrite, Goto, DayStep
  <2>2. CASE FinishMark
    BY <2>2 DEF FinishMark, Goto, DayStep
  <2>3. CASE ~ (StartDay \/ FinishDefer \/ FinishEnd \/ FinishMark)
    <3>1. UNCHANGED dayVars
      BY <1>4, <2>3
      DEF HandlerStep, StartRefused, FinishUnfilled, FinishCancelled, FinishLoad, FinishFlat,
          FinishCancel, FinishClose, Sweep, PlaceOrder, Place, FinishQuote, CloseAll,
          ClosePosition, CloseList, FillOrder, OrderPutBack, OrderNotPlaced, PauseAuto,
          ResumeAuto, SweepEnd, EnterOrder, EnterFill, EnterDrop, Fill, Drop, NoSignal,
          Settle, Requeue, Release
    <3> QED BY <3>1 DEF DayStep
  <2> QED BY <2>1, <2>2, <2>3
<1>5. CASE Fault /\ ~ RecoverBlind
  BY <1>5 DEF Fault, CycleBlind, ClaimFails, HandlerBlind, FinishUnfilled, FinishLoad,
              WriteFails, ItemFails, OutcomeLost, Release, Escape, DayStep
<1>6. CASE Crash \/ Restart
  BY <1>6 DEF Crash, Restart, DayStep
<1>7. CASE \/ \E k \in Keys : Age(k)
           \/ \E d \in Days : Expire(d)
           \/ UNCHANGED vars
  BY <1>7 DEF Age, Expire, vars, flowVars, DayStep
<1> QED BY <1>1, <1>2, <1>3, <1>4, <1>5, <1>6, <1>7 DEF Next, RunnerStep, Fault

-----------------------------------------------------------------------------
(* How the runner gets from one phase to the next, with what it has in     *)
(* hand, the positions, and its book of them.                              *)
Rested   == {"down", "rest", "recovering"}
Round    == Rested \cup {"roll", "guard", "claim", "signal"}
InFinish == {"unfilled", "cancel", "load", "quote", "flatten", "defer", "end"}

(* A recovery merges what it has read.                                     *)
Merges == \/ UNCHANGED << book, ghosts >>
          \/ \E j \in Jobs : /\ recovery[j] = "read"
                             /\ book' = book \cup loaded[j]
                             /\ ghosts' = ghosts \cup (loaded[j] \ Open)

(* The cycle goes round between its commands.                              *)
Turn == /\ phase \in Round /\ phase' \in Round \ {"down"}
        /\ phase \in Rested /\ phase' \notin Rested => recovered
        /\ UNCHANGED recovery => "recovering" \notin {phase, phase'}
        /\ phase' = "signal" => ~ blocked
        /\ UNCHANGED << cmd, placing, todo, failed, entry, book, ghosts >>

(* A handler comes to its answer.                                          *)
Answers == /\ phase \in {"start", "finish", "defer", "end", "order", "pause", "resume"}
           /\ phase' \in {"settle", "requeue"}
           /\ phase' = "settle" => phase \notin {"finish", "defer"}
           /\ UNCHANGED << cmd, placing, todo, failed, entry, book >>

Handles ==
  \/ \E e \in book \cap Open : /\ phase = "guard" /\ CloseCopy(e)
                               /\ UNCHANGED << phase, cmd, placing, todo, failed >>
  \/ \E k \in batch : /\ phase = "claim" /\ phase' = k.kind /\ cmd' = k
                      /\ UNCHANGED << placing, todo, failed, entry, book >>
  \/ Answers
  \/ /\ phase = "finish" /\ phase' = "unfilled" /\ SetDayState(cmd.day, "closing")
     /\ UNCHANGED << cmd, placing, todo, failed, entry, book >>
  \/ FinishUnfilled(Unfilled) \/ FinishUnfilled({}) \/ FinishCancelled
  \/ \E e \in Entries : FinishCancel(e)
  \/ FinishLoad(OfDay(Open, cmd.day))
  \/ FinishLoad({}) /\ faults < MaxFaults /\ faults' = faults + 1
  \/ \E quote \in BOOLEAN : FinishQuote(quote)
  \/ \E e \in Entries : FinishClose(e)
  \/ FinishFlat
  \/ \E e \in Entries : ItemFails(e) /\ faults' = faults + 1
  \/ \E quote \in BOOLEAN : CloseAll(quote) \/ ClosePosition(quote)
  \/ \E e \in Entries : Sweep(e)
  \/ SweepEnd
  \/ \E e \in Entries : phase = "order" /\ Place(e, cmd.account, cmd.day, cmd, "fill")
  \/ \E e \in Entries, d \in Days :
        phase = "signal" /\ MayEnter(d) /\ Place(e, "auto", d, NoKey, "enter")
  \/ phase = "fill" /\ Fill("settle")
  \/ phase = "enter" /\ Fill("rest")
  \/ phase = "fill" /\ Drop("pending", "requeue")
  \/ \E s \in {"rejected", "pending"} : phase = "enter" /\ Drop(s, "rest")
  \/ phase \in {"settle", "requeue"} /\ Release
  \/ Escape

FlowStep ==
  \/ UNCHANGED << phase, cmd, placing, todo, failed, entry >> /\ Merges
  \/ Turn
  \/ Crash
  \/ Handles /\ UNCHANGED << recovery, loaded, recovered, ghosts >>

(* The cycle's recovery is under way exactly while the cycle waits for it. *)
Midway     == {"asked", "read", "one", "none", "bound", "lift", "hold"}
Recovering == recovery["cycle"] \in Midway <=> phase = "recovering"

LEMMA RecoverFlow ==
  ASSUME TypeOK, Recovering, Recover \/ (Fault /\ RecoverBlind)
  PROVE  FlowStep
<1>0. "cycle" \in Jobs /\ recovery \in [Jobs -> Stages]
  BY DEF Jobs, TypeOK
<1>1. ASSUME NEW j \in Jobs, NEW released, RecoverBegin(j, released) PROVE FlowStep
  <2>1. UNCHANGED << cmd, placing, todo, failed, entry, book, ghosts >>
    BY <1>1 DEF RecoverBegin, RecoverStep, history
  <2>2. CASE j = "cycle"
    <3>1. phase = "rest" /\ phase' = "recovering" /\ recovery' # recovery
      BY <1>0, <1>1, <2>2 DEF RecoverBegin, RecoverStep
    <3> QED BY <2>1, <3>1 DEF FlowStep, Turn, Round, Rested
  <2>3. CASE j # "cycle"
    BY <1>1, <2>1, <2>3 DEF RecoverBegin, FlowStep, Merges
  <2> QED BY <2>2, <2>3
<1>2. ASSUME NEW j \in Jobs, NEW A, RecoverMerge(j, A) PROVE FlowStep
  BY <1>2 DEF RecoverMerge, RecoverStep, FlowStep, Merges
<1>3. ASSUME NEW j \in Jobs, RecoverEnd(j) PROVE FlowStep
  <2>1. UNCHANGED << cmd, placing, todo, failed, entry, book, ghosts >>
    BY <1>3 DEF RecoverEnd, RecoverStep
  <2>2. CASE j = "cycle"
    <3>1. phase = "recovering" /\ phase' = "rest" /\ recovery' # recovery
      BY <1>0, <1>3, <2>2 DEF RecoverEnd, RecoverStep, Recovering, Midway
    <3> QED BY <2>1, <3>1 DEF FlowStep, Turn, Round, Rested
  <2>3. CASE j # "cycle"
    BY <1>3, <2>1, <2>3 DEF RecoverEnd, FlowStep, Merges
  <2> QED BY <2>2, <2>3
<1>4. ASSUME NEW j \in Jobs,
             \/ \E S : RecoverRead(j, S) \/ RecoverCheck(j, S)
             \/ RecoverBind(j)
             \/ RecoverStep(j, "bound", "hold") /\ UNCHANGED << phase, memVars, history >>
      PROVE  FlowStep
  <2>1. UNCHANGED << phase, cmd, placing, todo, failed, entry, book, ghosts >>
    BY <1>4 DEF RecoverRead, RecoverCheck, RecoverBind, RecoverStep, memVars, history
  <2> QED BY <2>1 DEF FlowStep, Merges
<1> QED BY <1>1, <1>2, <1>3, <1>4 DEF Recover, RecoverJob, RecoverBlind

LEMMA CycleFlow == ASSUME TypeOK, Recovering, CycleStep PROVE FlowStep
<1>1. UNCHANGED << recovery, loaded, ghosts >>
  BY DEF CycleStep, jobVars, history
<1>2. CASE DriveClosure \/ EndRollover \/ Poll \/ EndPass
  <2>1. UNCHANGED << cmd, placing, todo, failed, entry, book >>
    BY <1>2 DEF DriveClosure, EndRollover, Poll, EndPass, Goto, memVars
  <2>2. /\ phase \in {"rest", "roll", "guard", "claim"}
        /\ phase' \in {"roll", "guard", "claim", "rest", "signal"}
        /\ phase = "rest" => recovered
        /\ phase' = "signal" => ~ blocked
    BY <1>2 DEF DriveClosure, EndRollover, Poll, EndPass, Goto
  <2> QED BY <1>1, <2>1, <2>2 DEF FlowStep, Turn, Round, Rested
<1>3. CASE StartNextDay
  BY <1>1, <1>3 DEF StartNextDay, BeginDay, SubmitStart, flowVars, memVars, FlowStep, Merges
<1>4. ASSUME NEW e \in Entries, Protect(e) PROVE FlowStep
  BY <1>1, <1>4 DEF Protect, flowVars, FlowStep, Handles
<1>5. CASE Claim
  BY <1>1, <1>5 DEF Claim, memVars, FlowStep, Handles, Merges
<1> QED BY <1>2, <1>3, <1>4, <1>5 DEF CycleStep

LEMMA HandlerFlow == ASSUME HandlerStep PROVE FlowStep
<1>1. UNCHANGED << recovery, loaded, ghosts >>
  BY DEF HandlerStep, jobVars
<1>2. UNCHANGED recovered
  BY DEF HandlerStep, StartDay, StartRefused, FinishMark, FinishUnfilled, FinishCancelled,
         FinishLoad, FinishFlat, FinishDefer, FinishEnd, FinishWrite, FinishCancel,
         FinishClose, Sweep, PlaceOrder, Place, FinishQuote, CloseAll, ClosePosition,
         CloseList, FillOrder, OrderPutBack, OrderNotPlaced, PauseAuto, ResumeAuto, SweepEnd,
         EnterOrder, EnterFill, EnterDrop, Fill, Drop, NoSignal, Settle, Requeue, Release,
         memVars
<1>3. CASE NoSignal
  BY <1>1, <1>3 DEF NoSignal, Goto, memVars, FlowStep, Turn, Round, Rested
<1>4. CASE StartDay \/ StartRefused \/ FinishDefer \/ FinishEnd \/ PauseAuto \/ ResumeAuto
           \/ \E next \in {"requeue", "settle"} : OrderNotPlaced(next)
  <2>1. Answers
    BY <1>4 DEF StartDay, StartRefused, FinishDefer, FinishEnd, FinishWrite, PauseAuto,
                ResumeAuto, OrderNotPlaced, Goto, memVars, Answers
  <2> QED BY <1>1, <1>2, <2>1 DEF FlowStep, Handles
<1>5. CASE FinishMark
  BY <1>1, <1>2, <1>5 DEF FinishMark, Goto, Answers, FlowStep, Handles
<1>6. CASE ~ (NoSignal \/ StartDay \/ StartRefused \/ FinishDefer \/ FinishEnd \/ PauseAuto
              \/ ResumeAuto \/ FinishMark
              \/ \E next \in {"requeue", "settle"} : OrderNotPlaced(next))
  <2>1. Handles
    BY <1>6 DEF HandlerStep, PlaceOrder, FillOrder, OrderPutBack, EnterOrder, EnterFill,
                EnterDrop, Settle, Requeue, Handles
  <2> QED BY <1>1, <1>2, <2>1 DEF FlowStep
<1> QED BY <1>3, <1>4, <1>5, <1>6

LEMMA FaultFlow == ASSUME TypeOK, Fault, ~ RecoverBlind PROVE FlowStep
<1>1. /\ UNCHANGED << recovery, loaded >>
      /\ faults < MaxFaults /\ faults' = faults + 1
  BY DEF Fault, jobVars
<1>2. UNCHANGED << recovered, ghosts >>
  BY DEF Fault, CycleBlind, ClaimFails, HandlerBlind, FinishUnfilled, FinishLoad, WriteFails,
         ItemFails, OutcomeLost, Release, Escape, memVars, history
<1>3. CASE CycleBlind
  BY <1>1, <1>3 DEF CycleBlind, memVars, history, FlowStep, Turn, Round, Rested
<1>4. CASE ClaimFails
  BY <1>1, <1>4 DEF ClaimFails, memVars, history, FlowStep, Merges
<1>5. CASE WriteFails \/ (HandlerBlind /\ phase = "start")
  <2>1. Answers
    BY <1>5 DEF WriteFails, HandlerBlind, FinishUnfilled, FinishLoad, Goto, memVars, Answers
  <2> QED BY <1>1, <1>2, <2>1 DEF FlowStep, Handles
<1>6. CASE HandlerBlind /\ phase # "start"
  <2>1. FinishUnfilled({}) \/ FinishLoad({})
    BY <1>6 DEF HandlerBlind
  <2> QED BY <1>1, <1>2, <2>1 DEF FlowStep, Handles
<1>7. CASE OutcomeLost \/ Escape
  BY <1>1, <1>2, <1>7 DEF OutcomeLost, FlowStep, Handles
<1>8. ASSUME NEW e \in Entries, ItemFails(e) PROVE FlowStep
  BY <1>1, <1>2, <1>8 DEF FlowStep, Handles
<1> QED BY <1>3, <1>4, <1>5, <1>6, <1>7, <1>8 DEF Fault

LEMMA FlowSteps == ASSUME TypeOK, Recovering, [Next]_vars PROVE FlowStep
<1>1. CASE \/ ClientStep \/ UNCHANGED vars
           \/ \E k \in Keys : Age(k)
           \/ \E d \in Days : Expire(d)
  <2>1. UNCHANGED << phase, cmd, placing, todo, failed, entry, book, ghosts >>
    BY <1>1 DEF ClientStep, BeginDay, SubmitStart, SubmitControl, ReadDay, SubmitOrder,
                SubmitClose, Age, Expire, vars, flowVars, memVars, history
  <2> QED BY <2>1 DEF FlowStep, Merges
<1>2. CASE Restart
  BY <1>2 DEF Restart, memVars, history, FlowStep, Turn, Round, Rested
<1>3. CASE Crash
  BY <1>3 DEF FlowStep
<1>4. CASE Recover \/ CycleStep \/ HandlerStep \/ Fault
  BY <1>4, RecoverFlow, CycleFlow, HandlerFlow, FaultFlow
<1> QED BY <1>1, <1>2, <1>3, <1>4 DEF Next, RunnerStep

-----------------------------------------------------------------------------
(* Who writes the recoveries, the flags and the counters.                  *)
JobStep ==
  \/ UNCHANGED << recovery, loaded, recovered >>
  \/ \E j \in Jobs : RecoverJob(j)
  \/ RecoverBlind /\ faults < MaxFaults /\ faults' = faults + 1
  \/ Crash
  \/ Restart

LEMMA JobSteps == ASSUME [Next]_vars PROVE JobStep
<1>1. CASE ClientStep \/ CycleStep \/ HandlerStep \/ (Fault /\ ~ RecoverBlind) \/ UNCHANGED vars
           \/ \E k \in Keys : Age(k)
           \/ \E d \in Days : Expire(d)
  <2>1. UNCHANGED << recovery, loaded >>
    BY <1>1 DEF ClientStep, CycleStep, HandlerStep, Fault, Age, Expire, vars, jobVars
  <2>2. CASE CycleStep
    BY <2>1, <2>2 DEF CycleStep, DriveClosure, StartNextDay, EndRollover, Protect, Poll, Claim,
                      EndPass, memVars, JobStep
  <2>3. CASE HandlerStep
    <3>1. UNCHANGED recovered
      BY <2>3
      DEF HandlerStep, StartDay, StartRefused, FinishMark, FinishUnfilled, FinishCancelled,
          FinishLoad, FinishFlat, FinishDefer, FinishEnd, FinishWrite, FinishCancel,
          FinishClose, Sweep, PlaceOrder, Place, FinishQuote, CloseAll, ClosePosition,
          CloseList, FillOrder, OrderPutBack, OrderNotPlaced, PauseAuto, ResumeAuto, SweepEnd,
          EnterOrder, EnterFill, EnterDrop, Fill, Drop, NoSignal, Settle, Requeue, Release,
          memVars
    <3> QED BY <2>1, <3>1 DEF JobStep
  <2>4. CASE Fault /\ ~ RecoverBlind
    BY <2>1, <2>4
    DEF Fault, CycleBlind, ClaimFails, HandlerBlind, FinishUnfilled, FinishLoad, WriteFails,
        ItemFails, OutcomeLost, Release, Escape, memVars, JobStep
  <2>5. CASE \/ ClientStep \/ UNCHANGED vars
             \/ \E k \in Keys : Age(k)
             \/ \E d \in Days : Expire(d)
    BY <2>1, <2>5 DEF ClientStep, Age, Expire, vars, memVars, JobStep
  <2> QED BY <1>1, <2>2, <2>3, <2>4, <2>5
<1>2. CASE Recover \/ Crash \/ Restart \/ (Fault /\ RecoverBlind)
  BY <1>2 DEF Recover, Fault, JobStep
<1> QED BY <1>1, <1>2 DEF Next, RunnerStep

(* Failed calls and crashes are counted one by one.                        *)
LEMMA CountersStep ==
  ASSUME faults \in Nat, crashes \in Nat, [Next]_vars
  PROVE  /\ faults' \in Nat /\ crashes' \in Nat
         /\ faults' = faults \/ (faults < MaxFaults /\ faults' = faults + 1)
         /\ crashes' = crashes \/ crashes' = crashes + 1
<1>1. CASE Fault
  <2>1. UNCHANGED crashes
    BY <1>1 DEF Fault, RecoverBlind, RecoverBegin, RecoverRead, RecoverMerge, RecoverStep
  <2> QED BY <1>1, <2>1 DEF Fault
<1>2. CASE Recover
  BY <1>2 DEF Recover, RecoverJob, RecoverBegin, RecoverRead, RecoverMerge, RecoverBind,
              RecoverCheck, RecoverEnd, RecoverStep
<1>3. CASE \/ ClientStep \/ CycleStep \/ HandlerStep \/ Crash \/ Restart \/ UNCHANGED vars
           \/ \E k \in Keys : Age(k)
           \/ \E d \in Days : Expire(d)
  BY <1>3 DEF ClientStep, CycleStep, HandlerStep, Crash, Restart, Age, Expire, vars, bounds
<1> QED BY <1>1, <1>2, <1>3 DEF Next, RunnerStep

(* Whoever lifts the block ends the pause, and only pause_auto begins it.  *)
FlagStep == /\ blocked' \in BOOLEAN /\ bound' \in BOOLEAN /\ paused' \in BOOLEAN
            /\ paused' => /\ blocked => blocked'
                          /\ paused \/ (phase' = "settle" /\ blocked')

LEMMA FlagSteps == ASSUME TypeOK, [Next]_vars PROVE FlagStep
<1>0. blocked \in BOOLEAN /\ bound \in BOOLEAN /\ paused \in BOOLEAN /\ recovered \in BOOLEAN
  BY DEF TypeOK
<1>1. ASSUME UNCHANGED << blocked, bound, paused >> PROVE FlagStep
  BY <1>0, <1>1 DEF FlagStep
<1>2. CASE Recover \/ RecoverBlind
  <2>1. ASSUME NEW j \in Jobs, NEW released, RecoverBegin(j, released) PROVE FlagStep
    BY <1>0, <2>1 DEF RecoverBegin, FlagStep, history
  <2>2. ASSUME NEW j \in Jobs, RecoverBind(j) PROVE FlagStep
    BY <1>0, <2>2 DEF RecoverBind, FlagStep, history
  <2>3. ASSUME NEW j \in Jobs, RecoverEnd(j) PROVE FlagStep
    BY <1>0, <2>3, Zenon DEF RecoverEnd, FlagStep
  <2>4. ASSUME NEW j \in Jobs,
               \/ \E S : RecoverRead(j, S) \/ RecoverMerge(j, S) \/ RecoverCheck(j, S)
               \/ RecoverStep(j, "bound", "hold") /\ UNCHANGED << memVars, history >>
        PROVE  UNCHANGED << blocked, bound, paused >>
    BY <2>4 DEF RecoverRead, RecoverMerge, RecoverCheck, memVars, history
  <2> QED BY <1>1, <1>2, <2>1, <2>2, <2>3, <2>4 DEF Recover, RecoverJob, RecoverBlind
<1>3. CASE HandlerStep
  <2>1. CASE StartDay
    BY <1>0, <2>1 DEF StartDay, FlagStep
  <2>2. CASE FinishMark \/ PauseAuto \/ ResumeAuto \/ \E quote \in BOOLEAN : CloseAll(quote)
    <3>1. CASE ResumeAuto
      BY <1>0, <3>1, Zenon DEF ResumeAuto, FlagStep
    <3>2. CASE FinishMark \/ \E quote \in BOOLEAN : CloseAll(quote)
      <4>1. blocked' = TRUE /\ UNCHANGED << bound, paused >>
        BY <3>2 DEF FinishMark, CloseAll, CloseList
      <4> QED BY <1>0, <4>1 DEF FlagStep
    <3>3. CASE PauseAuto
      BY <1>0, <3>3 DEF PauseAuto, Goto, FlagStep
    <3> QED BY <2>2, <3>1, <3>2, <3>3
  <2>3. CASE ~ (StartDay \/ FinishMark \/ PauseAuto \/ ResumeAuto
                \/ \E quote \in BOOLEAN : CloseAll(quote))
    <3>1. UNCHANGED << blocked, bound, paused >>
      BY <1>3, <2>3
      DEF HandlerStep, StartRefused, FinishUnfilled, FinishCancelled, FinishLoad, FinishFlat,
          FinishDefer, FinishEnd, FinishWrite, FinishCancel, FinishClose, Sweep, PlaceOrder,
          Place, FinishQuote, ClosePosition, CloseList, FillOrder, OrderPutBack,
          OrderNotPlaced, SweepEnd, EnterOrder, EnterFill, EnterDrop, Fill, Drop, NoSignal,
          Settle, Requeue, Release, memVars
    <3> QED BY <1>1, <3>1
  <2> QED BY <2>1, <2>2, <2>3
<1>4. CASE Fault /\ ~ RecoverBlind
  <2>1. CASE WriteFails
    BY <1>0, <2>1 DEF WriteFails, FlagStep, history
  <2>2. CASE ~ WriteFails
    <3>1. UNCHANGED << blocked, bound, paused >>
      BY <1>4, <2>2 DEF Fault, CycleBlind, ClaimFails, HandlerBlind, FinishUnfilled, FinishLoad,
                  ItemFails, OutcomeLost, Release, Escape, memVars, history
    <3> QED BY <1>1, <3>1
  <2> QED BY <2>1, <2>2
<1>5. CASE Crash
  BY <1>0, <1>5 DEF Crash, FlagStep
<1>6. CASE \/ ClientStep \/ CycleStep \/ Restart \/ UNCHANGED vars
           \/ \E k \in Keys : Age(k)
           \/ \E d \in Days : Expire(d)
  <2>1. UNCHANGED << blocked, bound, paused >>
    BY <1>6 DEF ClientStep, CycleStep, DriveClosure, StartNextDay, EndRollover, Protect, Poll,
                Claim, EndPass, Restart, Age, Expire, vars, memVars, history
  <2> QED BY <1>1, <2>1
<1> QED BY <1>2, <1>3, <1>4, <1>5, <1>6 DEF Next, RunnerStep, Fault

(* The clients: only a running day lets submit_manual_order go on.         *)
LEMMA ClientsSteps ==
  ASSUME ClientsOK, [Next]_vars
  PROVE  /\ ClientsOK'
         /\ \A k \in reading' : k \in reading \/ dayState[k.day] = "running"
<1>1. /\ reading \subseteq {k \in Keys : k.kind = "order"}
      /\ toSubmit \in [Callers -> Seq(Starts)]
  BY DEF ClientsOK
<1> DEFINE Goal == /\ ClientsOK'
                   /\ \A k \in reading' : k \in reading \/ dayState[k.day] = "running"
<1>2. ASSUME NEW c \in Callers, NEW d \in Days, BeginDay(c, d) PROVE Goal
  <2>1. << StartKey(d, "manual"), StartKey(d, "auto") >> \in Seq(Starts)
    BY DEF Accounts, StartKey, Command, Starts
  <2> QED BY <1>1, <1>2, <2>1 DEF BeginDay, ClientsOK
<1>3. ASSUME NEW c \in Callers, SubmitStart(c) PROVE Goal
  <2>1. Tail(toSubmit[c]) \in Seq(Starts)
    <3>1. toSubmit[c] \in Seq(Starts) /\ toSubmit[c] # <<>>
      BY <1>1, <1>3 DEF SubmitStart
    <3> QED BY <3>1
  <2> QED BY <1>1, <1>3, <2>1 DEF SubmitStart, ClientsOK
<1>4. ASSUME NEW k \in Keys,
             SubmitControl(k) \/ ReadDay(k) \/ SubmitOrder(k) \/ SubmitClose(k)
      PROVE  Goal
  BY <1>1, <1>4 DEF SubmitControl, ReadDay, SubmitOrder, SubmitClose, clientVars, ClientsOK
<1>5. CASE ClientStep
  BY <1>2, <1>3, <1>4, <1>5 DEF ClientStep, Callers
<1>6. CASE CycleStep
  <2>1. CASE StartNextDay
    BY <1>2, <1>3, <2>1 DEF StartNextDay, Callers
  <2>2. CASE ~ StartNextDay
    BY <1>1, <1>6, <2>2
    DEF CycleStep, DriveClosure, EndRollover, Protect, Poll, Claim, EndPass, clientVars, ClientsOK
  <2> QED BY <2>1, <2>2
<1>7. CASE Crash
  <2>1. <<>> \in Seq(Starts)
    OBVIOUS
  <2> QED BY <1>1, <1>7, <2>1 DEF Crash, ClientsOK
<1>8. CASE \/ Recover \/ HandlerStep \/ Fault \/ Restart \/ UNCHANGED vars
           \/ \E k \in Keys : Age(k)
           \/ \E d \in Days : Expire(d)
  <2>1. UNCHANGED << reading, toSubmit >>
    BY <1>8 DEF Recover, RecoverJob, RecoverBlind, RecoverBegin, RecoverRead, RecoverMerge,
                RecoverBind, RecoverCheck, RecoverEnd, RecoverStep, HandlerStep, Fault, Restart,
                Age, Expire, vars, clientVars
  <2> QED BY <1>1, <2>1 DEF ClientsOK
<1> QED BY <1>5, <1>6, <1>7, <1>8 DEF Next, RunnerStep

-----------------------------------------------------------------------------
(* What a step does to the list of a pass: a poll makes it, a claim that   *)
(* wins, loses or fails takes one row off, and a failure drops it all.     *)
BatchStep ==
  \/ batch' = batch
  \/ batch' = {}
  \/ \E k \in batch : /\ batch' = batch \ {k}
                      /\ status'[k] # "accepted" \/ k \notin Starts \/ k \in loose'
  \/ batch' = {k \in Keys : status[k] = "accepted"} /\ UNCHANGED << rowVars, cmd, dayVars >>

LEMMA BatchSteps == ASSUME TypeOK, [Next]_vars PROVE BatchStep
<1>1. CASE CycleStep
  <2>1. CASE Poll
    BY <2>1 DEF Poll, BatchStep
  <2>2. CASE Claim
    <3>1. status \in [Keys -> RowStatus] /\ batch \subseteq Keys
      BY DEF TypeOK, StoreTypeOK
    <3> QED BY <2>2, <3>1 DEF Claim, ClaimRow, SetStatus, storeVars, BatchStep
  <2>3. CASE DriveClosure \/ StartNextDay \/ EndRollover \/ EndPass \/ \E e \in Entries : Protect(e)
    BY <2>3 DEF DriveClosure, StartNextDay, EndRollover, EndPass, Protect, Goto, flowVars,
                BatchStep
  <2> QED BY <1>1, <2>1, <2>2, <2>3 DEF CycleStep
<1>2. CASE HandlerStep
  BY <1>2
  DEF HandlerStep, StartDay, StartRefused, FinishMark, FinishUnfilled, FinishCancelled,
      FinishLoad, FinishFlat, FinishDefer, FinishEnd, FinishWrite, FinishCancel, FinishClose,
      Sweep, PlaceOrder, Place, FinishQuote, CloseAll, ClosePosition, CloseList, FillOrder,
      OrderPutBack, OrderNotPlaced, PauseAuto, ResumeAuto, SweepEnd, EnterOrder, EnterFill,
      EnterDrop, Fill, Drop, NoSignal, Goto, Loop, Settle, Requeue, Release, BatchStep
<1>3. CASE Fault /\ ~ RecoverBlind
  <2>1. CASE ClaimFails
    BY <2>1 DEF ClaimFails, BatchStep
  <2>2. CASE ~ ClaimFails
    BY <1>3, <2>2 DEF Fault, CycleBlind, HandlerBlind, FinishUnfilled, FinishLoad, WriteFails,
                      ItemFails, OutcomeLost, Release, Escape, Goto, Loop, BatchStep
  <2> QED BY <2>1, <2>2
<1>4. CASE Recover \/ RecoverBlind
  BY <1>4 DEF Recover, RecoverBlind, RecoverJob, RecoverBegin, RecoverRead, RecoverMerge,
              RecoverBind, RecoverCheck, RecoverEnd, RecoverStep, BatchStep
<1>5. CASE \/ ClientStep \/ Crash \/ Restart \/ UNCHANGED vars
           \/ \E k \in Keys : Age(k)
           \/ \E d \in Days : Expire(d)
  BY <1>5 DEF ClientStep, Crash, Restart, Age, Expire, vars, flowVars, BatchStep
<1> QED BY <1>1, <1>2, <1>3, <1>4, <1>5 DEF Next, RunnerStep, Fault

LEMMA MissedType == ASSUME TypeOK, [Next]_vars PROVE missed' \subseteq Keys
<1>1. missed \subseteq Keys
  BY DEF TypeOK
<1>2. ASSUME NEW j \in Jobs, NEW released, RecoverBegin(j, released) PROVE missed' \subseteq Keys
  BY <1>1, <1>2 DEF RecoverBegin
<1>3. CASE \/ ClientStep \/ CycleStep \/ HandlerStep \/ (Fault /\ ~ RecoverBlind)
           \/ Crash \/ Restart \/ UNCHANGED vars
           \/ \E k \in Keys : Age(k)
           \/ \E d \in Days : Expire(d)
  BY <1>1, <1>3 DEF ClientStep, CycleStep, HandlerStep, Fault, Crash, Restart, Age, Expire,
                    vars, jobVars
<1>4. CASE Recover \/ RecoverBlind
  <2>1. UNCHANGED missed \/ \E j \in Jobs, released \in BOOLEAN : RecoverBegin(j, released)
    BY <1>4 DEF Recover, RecoverBlind, RecoverJob, RecoverRead, RecoverMerge, RecoverBind,
                RecoverCheck, RecoverEnd
  <2> QED BY <1>1, <1>2, <2>1
<1> QED BY <1>3, <1>4 DEF Next, RunnerStep, Fault

-----------------------------------------------------------------------------
(* The type invariant, one part of the state at a time.  The phase tells   *)
(* the kind of the claimed command; a failed close is remembered within    *)
(* finish_day only, and a list within its loop.                            *)

CmdOK ==
  /\ phase = "start" => cmd.kind = "start"
  /\ phase \in {"finish"} \cup InFinish => cmd.kind = "finish"
  /\ phase \in {"order", "fill"} => cmd.kind = "order"
  /\ phase \in {"close_all", "close", "pause", "resume"} => cmd.kind = phase
  /\ phase = "sweep" => cmd.kind \in {"close_all", "close"}
  /\ failed => phase \in {"flatten", "defer", "requeue"}
  /\ todo # {} => phase \in {"cancel", "flatten", "sweep"}

TInv == TypeOK /\ CmdOK /\ Recovering /\ ClientsOK

EntryRow == [state : EntryState, account : Accounts \cup {"none"},
             day : Days \cup {0}, cmd : Keys \cup {NoKey}]

RowsOK    == /\ StoreTypeOK
             /\ queue \in Seq({k \in Keys : status[k] # "absent"})
             /\ loose \subseteq Starts
FlowOK    == /\ phase \in Phases
             /\ cmd \in Keys \cup {NoKey} /\ (cmd # NoKey <=> phase \in Handling)
             /\ placing \in Entries \cup {NoEntry}
             /\ placing # NoEntry <=> phase \in {"fill", "enter"}
             /\ todo \subseteq Entries /\ failed \in BOOLEAN
             /\ book \subseteq Entries /\ ghosts \subseteq Entries
MemoryOK  == /\ batch \subseteq Keys /\ missed \subseteq Keys
             /\ blocked \in BOOLEAN /\ bound \in BOOLEAN /\ paused \in BOOLEAN
             /\ crashes \in Nat /\ faults \in Nat
JobsOK    == /\ recovered \in BOOLEAN
             /\ recovery \in [Jobs -> Stages]
             /\ loaded \in [Jobs -> SUBSET Entries]

LEMMA TypeParts ==
  /\ TypeOK => /\ RowsOK /\ DayTypeOK /\ entry \in [Entries -> EntryRow]
               /\ FlowOK /\ MemoryOK /\ JobsOK
  /\ RowsOK /\ DayTypeOK /\ entry \in [Entries -> EntryRow] /\ ClientsOK
       /\ FlowOK /\ MemoryOK /\ JobsOK => TypeOK
<1>1. ClientsOK => toSubmit \in [{"client", "runner"} -> Seq(Keys)]
  BY DEF ClientsOK, Callers, Starts
<1> QED BY <1>1 DEF TypeOK, RowsOK, EntryRow, ClientsOK, FlowOK, MemoryOK, JobsOK

(* A row once submitted stays, and so does a start that is behind.         *)
LEMMA RowsType ==
  ASSUME TypeOK, RowStep
  PROVE  /\ RowsOK'
         /\ \A k \in Keys : status[k] # "absent" => status'[k] # "absent"
<1>1. /\ status \in [Keys -> RowStatus]
      /\ aged \subseteq {k \in Keys : status[k] = "processing"}
      /\ queue \in Seq({k \in Keys : status[k] # "absent"})
      /\ cmd \in Keys \cup {NoKey} /\ batch \subseteq Keys /\ loose \subseteq Starts
  BY DEF TypeOK, StoreTypeOK
<1>2. phase \in {"settle", "requeue"} => cmd \in Keys
  BY DEF TypeOK, Handling
<1> DEFINE Good == /\ StoreTypeOK'
                   /\ \A k \in Keys : status[k] # "absent" => status'[k] # "absent"
<1>3. Good
  <2>1. ASSUME NEW k \in Keys, NEW s \in RowStatus \ {"absent"}, SetStatus(k, s)
        PROVE  Good
    BY <1>1, <2>1 DEF SetStatus, StoreTypeOK
  <2>2. CASE RequeueStaleRows
    BY <1>1, <2>2 DEF RequeueStaleRows, StoreTypeOK, RowStatus
  <2>3. ASSUME NEW k \in Keys, AgeRow(k) PROVE Good
    BY <1>1, <2>3 DEF AgeRow, StoreTypeOK
  <2>4. CASE UNCHANGED storeVars
    BY <1>1, <2>4 DEF storeVars, StoreTypeOK
  <2>5. ASSUME NEW k \in Keys, InsertRow(k) \/ ClaimRow(k) \/ CompleteRow(k) \/ RequeueRow(k)
        PROVE  Good
    BY <2>1, <2>4, <2>5
    DEF InsertRow, ClaimRow, CompleteRow, RequeueRow, RowStatus, Terminal
  <2>6. CASE UNCHANGED rowVars
    BY <2>4, <2>6 DEF rowVars, storeVars
  <2> HIDE DEF Good
  <2> QED
    BY <1>1, <1>2, <2>2, <2>3, <2>4, <2>5, <2>6 DEF RowStep, Sends, Submit
<1>4. queue' \in Seq({k \in Keys : status'[k] # "absent"})
  <2>1. CASE UNCHANGED queue
    BY <1>1, <1>3, <2>1
  <2>2. ASSUME NEW k \in Keys, Submit(k) PROVE <1>4
    <3>1. status'[k] # "absent"
      BY <1>1, <2>2 DEF Submit, InsertRow, SetStatus
    <3>2. queue \in Seq({x \in Keys : status'[x] # "absent"})
      BY <1>1, <1>3
    <3> QED BY <2>2, <3>1, <3>2 DEF Submit
  <2> QED BY <2>1, <2>2 DEF RowStep, Sends, rowVars
<1>5. loose' \subseteq Starts
  BY <1>1 DEF RowStep, Sends, Submit, rowVars
<1> QED BY <1>3, <1>4, <1>5 DEF RowsOK

LEMMA DaysType == ASSUME TypeOK, DayStep PROVE DayTypeOK'
<1>1. /\ dayState \in [Days -> DayState] /\ expired \subseteq Days
      /\ phase \in {"start", "finish", "defer", "end"} => cmd.day \in Days
  BY DEF TypeOK, DayTypeOK, Handling
<1>2. ASSUME NEW d \in Days, NEW s \in DayState, SetDayState(d, s) PROVE DayTypeOK'
  BY <1>1, <1>2 DEF SetDayState, DayTypeOK
<1>3. ASSUME NEW d \in Days, CreateDayRow(d) \/ ExpireDay(d) PROVE DayTypeOK'
  BY <1>1, <1>3 DEF CreateDayRow, ExpireDay, DayTypeOK, DayState
<1>4. CASE UNCHANGED dayVars
  BY <1>1, <1>4 DEF dayVars, DayTypeOK
<1> QED BY <1>1, <1>2, <1>3, <1>4 DEF DayStep, DayState, InFlight

LEMMA EntryType == ASSUME TInv, FlowStep PROVE (entry \in [Entries -> EntryRow])'
<1>1. /\ entry \in [Entries -> EntryRow] /\ book \subseteq Entries /\ todo \subseteq Entries
      /\ phase \in {"fill", "enter"} => placing \in Entries
      /\ phase = "order" => cmd \in Keys /\ cmd.day \in Days /\ cmd.account = "manual"
  BY DEF TInv, CmdOK, TypeOK, EntryRow, Handling
<1>2. ASSUME NEW e \in Entries, NEW s \in EntryState,
             entry' = [entry EXCEPT ![e].state = s]
      PROVE  (entry \in [Entries -> EntryRow])'
  BY <1>1, <1>2 DEF EntryRow
<1>3. ASSUME NEW e \in Entries, NEW a \in Accounts, NEW d \in Days,
             NEW k \in Keys \cup {NoKey}, NEW next, Place(e, a, d, k, next)
      PROVE  (entry \in [Entries -> EntryRow])'
  BY <1>1, <1>3 DEF Place, EntryRow, EntryState
<1>4. ASSUME NEW e \in Entries, CloseCopy(e) PROVE (entry \in [Entries -> EntryRow])'
  BY <1>1, <1>2, <1>4 DEF CloseCopy, EntryState
<1>5. ASSUME NEW next, Fill(next), phase \in {"fill", "enter"}
      PROVE  (entry \in [Entries -> EntryRow])'
  BY <1>1, <1>2, <1>5 DEF Fill, EntryState
<1>6. ASSUME NEW next, NEW s \in {"rejected", "pending"}, Drop(s, next),
             phase \in {"fill", "enter"}
      PROVE  (entry \in [Entries -> EntryRow])'
  BY <1>1, <1>2, <1>6 DEF Drop, EntryState
<1>7. CASE UNCHANGED entry
  BY <1>1, <1>7
<1>8. CASE Handles
  <2>1. CASE \/ \E e \in Entries : FinishCancel(e) \/ FinishClose(e) \/ Sweep(e)
             \/ \E e \in book \cap Open : CloseCopy(e)
    BY <1>1, <1>2, <1>4, <2>1 DEF FinishCancel, FinishClose, Sweep, EntryState
  <2>2. CASE \/ \E e \in Entries : phase = "order" /\ Place(e, cmd.account, cmd.day, cmd, "fill")
             \/ \E e \in Entries, d \in Days : Place(e, "auto", d, NoKey, "enter")
    BY <1>1, <1>3, <2>2 DEF Accounts
  <2>3. CASE \/ phase = "fill" /\ Fill("settle")
             \/ phase = "enter" /\ Fill("rest")
             \/ phase = "fill" /\ Drop("pending", "requeue")
             \/ \E s \in {"rejected", "pending"} : phase = "enter" /\ Drop(s, "rest")
    BY <1>5, <1>6, <2>3
  <2>4. CASE UNCHANGED entry
    BY <1>7, <2>4
  <2> QED
    BY <1>8, <2>1, <2>2, <2>3, <2>4
    DEF Handles, Answers, FinishUnfilled, FinishCancelled, FinishLoad, FinishQuote, FinishFlat,
        ItemFails, CloseAll, ClosePosition, CloseList, SweepEnd, Release, Escape
<1> QED BY <1>7, <1>8 DEF FlowStep, Turn, Crash

(* The phase, the command, and what is in hand.                            *)
LEMMA HandlesType == ASSUME TInv, Handles, UNCHANGED ghosts PROVE FlowOK' /\ CmdOK'
<1>1. FlowOK /\ CmdOK
  BY TypeParts DEF TInv
<1>2. CASE \/ \E e \in book \cap Open : /\ phase = "guard" /\ CloseCopy(e)
                                        /\ UNCHANGED << phase, cmd, placing, todo, failed >>
           \/ Answers
           \/ /\ phase = "finish" /\ phase' = "unfilled"
              /\ UNCHANGED << cmd, placing, todo, failed, entry, book >>
  BY <1>1, <1>2 DEF Answers, CloseCopy, FlowOK, CmdOK, Handling, Phases, InFinish
<1>3. ASSUME NEW k \in batch, phase = "claim", phase' = k.kind, cmd' = k,
             UNCHANGED << placing, todo, failed, entry, book >>
      PROVE  FlowOK' /\ CmdOK'
  <2>1. k \in Keys /\ k.kind \in Kinds /\ k # NoKey
    BY DEF TInv, TypeOK
  <2> QED BY <1>1, <1>3, <2>1 DEF FlowOK, CmdOK, Handling, Phases, InFinish, Kinds
<1>4. CASE \/ FinishUnfilled(Unfilled) \/ FinishUnfilled({}) \/ FinishCancelled
           \/ \E e \in Entries : FinishCancel(e)
           \/ FinishLoad(OfDay(Open, cmd.day)) \/ FinishLoad({})
           \/ \E quote \in BOOLEAN : FinishQuote(quote)
  BY <1>1, <1>4 DEF FinishUnfilled, Unfilled, FinishCancelled, FinishCancel, FinishLoad, OfDay,
                    Open, FinishQuote, Goto, Loop, memVars, FlowOK, CmdOK, Handling, Phases,
                    InFinish
<1>5. CASE \/ \E e \in Entries : FinishClose(e) \/ Sweep(e) \/ ItemFails(e)
           \/ FinishFlat \/ SweepEnd
  <2>1. ASSUME NEW e \in Entries, ItemFails(e) PROVE FlowOK' /\ CmdOK'
    <3>1. failed' \in BOOLEAN /\ (failed' => failed \/ phase = "flatten")
      BY <1>1, <2>1, Zenon DEF ItemFails, FlowOK
    <3> QED BY <1>1, <2>1, <3>1 DEF ItemFails, Loop, memVars, FlowOK, CmdOK, Handling, Phases
  <2>2. ASSUME NEW e \in Entries, FinishClose(e) PROVE FlowOK' /\ CmdOK'
    <3>1. failed' \in BOOLEAN
      BY <1>1, <2>2, Zenon DEF FinishClose, FlowOK
    <3> QED BY <1>1, <2>2, <3>1 DEF FinishClose, CloseCopy, Loop, FlowOK, CmdOK, Handling,
                                    Phases, InFinish
  <2>3. ASSUME NEW e \in Entries, Sweep(e) PROVE FlowOK' /\ CmdOK'
    BY <1>1, <2>3 DEF Sweep, CloseCopy, Loop, FlowOK, CmdOK, Handling, Phases, InFinish
  <2>4. CASE FinishFlat \/ SweepEnd
    BY <1>1, <2>4 DEF FinishFlat, SweepEnd, Goto, memVars, FlowOK, CmdOK, Handling, Phases,
                      InFinish
  <2> QED BY <1>5, <2>1, <2>2, <2>3, <2>4
<1>6. CASE \E quote \in BOOLEAN : CloseAll(quote) \/ ClosePosition(quote)
  <2>1. OnAuto(book) \subseteq Entries /\ ({cmd.n} \cap book) \subseteq Entries
    BY <1>1 DEF FlowOK, OnAuto
  <2> QED BY <1>1, <1>6, <2>1 DEF CloseAll, ClosePosition, CloseList, Loop, FlowOK, CmdOK,
                                  Handling, Phases, InFinish
<1>7. CASE \/ \E e \in Entries : phase = "order" /\ Place(e, cmd.account, cmd.day, cmd, "fill")
           \/ \E e \in Entries, d \in Days : phase = "signal" /\ Place(e, "auto", d, NoKey, "enter")
           \/ phase = "fill" /\ Fill("settle")
           \/ phase = "enter" /\ Fill("rest")
           \/ phase = "fill" /\ Drop("pending", "requeue")
           \/ \E s \in {"rejected", "pending"} : phase = "enter" /\ Drop(s, "rest")
  BY <1>1, <1>7 DEF Place, Fill, Drop, memVars, FlowOK, CmdOK, Handling, Phases, InFinish
<1>8. CASE (phase \in {"settle", "requeue"} /\ Release) \/ Escape
  BY <1>1, <1>8 DEF Release, Escape, memVars, FlowOK, CmdOK, Handling, Phases, InFinish
<1> QED BY <1>2, <1>3, <1>4, <1>5, <1>6, <1>7, <1>8 DEF Handles

LEMMA FlowType == ASSUME TInv, FlowStep PROVE FlowOK' /\ CmdOK'
<1>1. FlowOK /\ CmdOK /\ JobsOK /\ Open \subseteq Entries
  BY TypeParts DEF TInv, Open
<1>2. CASE UNCHANGED << phase, cmd, placing, todo, failed, entry >> /\ Merges
  <2>1. book' \subseteq Entries /\ ghosts' \subseteq Entries
    BY <1>1, <1>2 DEF Merges, JobsOK, FlowOK
  <2> QED BY <1>1, <1>2, <2>1 DEF FlowOK, CmdOK
<1>3. CASE Turn
  BY <1>1, <1>3 DEF Turn, Round, Rested, FlowOK, CmdOK, Handling, Phases, InFinish
<1>4. CASE Crash
  BY <1>1, <1>4 DEF Crash, FlowOK, CmdOK, Handling, Phases, InFinish
<1> QED BY <1>2, <1>3, <1>4, HandlesType DEF FlowStep

(* One stage of one recovery, with what it does to the phase.              *)
RecoverStages(j) ==
  \/ \E released \in BOOLEAN : RecoverBegin(j, released)
  \/ \E S \in SUBSET Entries : RecoverRead(j, S)
  \/ \E A : RecoverMerge(j, A)
  \/ RecoverBind(j)
  \/ \E clean \in BOOLEAN : RecoverCheck(j, clean)
  \/ RecoverStep(j, "bound", "hold") /\ UNCHANGED << phase, memVars, loaded, history >>
  \/ RecoverEnd(j)

LEMMA JobStages ==
  ASSUME JobStep
  PROVE  \/ UNCHANGED << recovery, loaded, recovered >>
         \/ \E j \in Jobs : RecoverStages(j)
         \/ Crash \/ Restart
<1>1. Open \in SUBSET Entries /\ {} \in SUBSET Entries
  BY DEF Open
<1> QED BY <1>1 DEF JobStep, RecoverJob, RecoverBlind, RecoverStages

LEMMA JobsType == ASSUME TypeOK, JobStep PROVE JobsOK'
<1>1. JobsOK
  BY TypeParts
<1>2. ASSUME NEW j \in Jobs, RecoverStages(j) PROVE JobsOK'
  <2>1. /\ recovery' \in [Jobs -> Stages]
    BY <1>1, <1>2 DEF RecoverStages, RecoverBegin, RecoverRead, RecoverMerge, RecoverBind,
                      RecoverCheck, RecoverEnd, RecoverStep, JobsOK, Stages
  <2>2. loaded' \in [Jobs -> SUBSET Entries] /\ recovered' \in BOOLEAN
    BY <1>1, <1>2 DEF RecoverStages, RecoverBegin, RecoverRead, RecoverMerge, RecoverBind,
                      RecoverCheck, RecoverEnd, memVars, JobsOK
  <2> QED BY <2>1, <2>2 DEF JobsOK
<1>3. CASE UNCHANGED << recovery, loaded, recovered >>
  BY <1>1, <1>3 DEF JobsOK
<1>4. CASE Crash \/ Restart
  BY <1>1, <1>4 DEF Crash, Restart, memVars, JobsOK, Stages
<1> QED BY <1>2, <1>3, <1>4, JobStages

LEMMA RecoveringStep == ASSUME TInv, FlowStep, JobStep PROVE Recovering'
<1>0. "cycle" \in Jobs /\ recovery \in [Jobs -> Stages] /\ Recovering
  BY DEF TInv, Jobs, TypeOK
<1>1. CASE UNCHANGED << recovery, loaded, recovered >>
  <2>1. CASE Handles
    <3>1. \A k \in batch : k.kind \in Kinds
      BY DEF TInv, TypeOK
    <3>2. \A e \in todo : phase \in {"cancel", "flatten", "sweep"}
      BY DEF TInv, CmdOK
    <3>3. phase # "recovering" /\ phase' # "recovering"
      BY <2>1, <3>1, <3>2
      DEF Handles, Answers, Kinds, FinishUnfilled, FinishCancelled, FinishCancel, FinishLoad,
          FinishQuote, FinishClose, FinishFlat, ItemFails, CloseAll, ClosePosition, CloseList,
          Sweep, SweepEnd, Place, Fill, Drop, Release, Escape, Goto, Loop
    <3> QED BY <1>0, <1>1, <3>3 DEF Recovering
  <2>2. CASE UNCHANGED phase
    BY <1>0, <1>1, <2>2 DEF Recovering
  <2>3. CASE Turn
    BY <1>0, <1>1, <2>3 DEF Turn, Recovering
  <2>4. CASE Crash
    BY <1>0, <2>4 DEF Crash, Recovering, Midway
  <2> QED BY <2>1, <2>2, <2>3, <2>4 DEF FlowStep
<1>2. ASSUME NEW j \in Jobs, RecoverStages(j) PROVE Recovering'
  <2>1. CASE j = "cycle"
    BY <1>0, <1>2, <2>1 DEF RecoverStages, RecoverBegin, RecoverRead, RecoverMerge, RecoverBind,
                            RecoverCheck, RecoverEnd, RecoverStep, Recovering, Midway
  <2>2. CASE j # "cycle"
    BY <1>0, <1>2, <2>2 DEF RecoverStages, RecoverBegin, RecoverRead, RecoverMerge, RecoverBind,
                            RecoverCheck, RecoverEnd, RecoverStep, Recovering
  <2> QED BY <2>1, <2>2
<1>3. CASE Crash \/ Restart
  BY <1>0, <1>3 DEF Crash, Restart, Recovering, Midway
<1> QED BY <1>1, <1>2, <1>3, JobStages

(* Every step is all of these.                                             *)
Steps == /\ RowStep /\ DayStep /\ FlowStep /\ JobStep /\ BatchStep /\ FlagStep
         /\ faults' \in Nat /\ crashes' \in Nat
         /\ faults' = faults \/ (faults < MaxFaults /\ faults' = faults + 1)
         /\ crashes' = crashes \/ crashes' = crashes + 1

LEMMA AllSteps == ASSUME TInv, [Next]_vars PROVE Steps
<1>1. TypeOK /\ Recovering /\ ClientsOK /\ faults \in Nat /\ crashes \in Nat
  BY DEF TInv, TypeOK
<1> QED BY <1>1, RowSteps, DaySteps, FlowSteps, JobSteps, BatchSteps, FlagSteps, CountersStep
        DEF Steps

LEMMA TypesStep == ASSUME TInv, [Next]_vars PROVE TInv'
<1>1. Steps /\ TypeOK /\ ClientsOK
  BY AllSteps DEF TInv
<1>2. RowsOK' /\ DayTypeOK' /\ (entry \in [Entries -> EntryRow])' /\ FlowOK' /\ CmdOK'
  BY <1>1, RowsType, DaysType, EntryType, FlowType DEF Steps
<1>3. ClientsOK' /\ JobsOK' /\ Recovering'
  BY <1>1, ClientsSteps, JobsType, RecoveringStep DEF Steps
<1>4. MemoryOK'
  <2>1. batch' \subseteq Keys
    BY <1>1 DEF Steps, BatchStep, TypeOK
  <2> QED BY <1>1, <2>1, MissedType DEF Steps, FlagStep, MemoryOK
<1>5. TypeOK'
  <2>1. ClientsOK' => (toSubmit \in [{"client", "runner"} -> Seq(Keys)])'
    BY DEF ClientsOK, Callers, Starts
  <2> QED
    BY <1>2, <1>3, <1>4, <2>1
    DEF TypeOK, RowsOK, EntryRow, ClientsOK, FlowOK, MemoryOK, JobsOK
<1> QED BY <1>2, <1>3, <1>5 DEF TInv

LEMMA InitTypes == Init => TInv
<1> SUFFICES ASSUME Init PROVE TInv
  OBVIOUS
<1>1. RowsOK /\ DayTypeOK
  BY DEF Init, StoreInit, DayInit, RowsOK, StoreTypeOK, RowStatus, DayTypeOK, DayState
<1>2. entry \in [Entries -> EntryRow]
  BY DEF Init, Blank, EntryRow, EntryState
<1>3. ClientsOK /\ FlowOK
  <2>1. <<>> \in Seq(Starts)
    OBVIOUS
  <2>2. ClientsOK
    BY <2>1 DEF Init, ClientsOK, Callers
  <2>3. FlowOK
    BY DEF Init, FlowOK, Phases, Handling
  <2> QED BY <2>2, <2>3
<1>4. MemoryOK /\ JobsOK /\ CmdOK /\ Recovering
  BY DEF Init, MemoryOK, JobsOK, Stages, CmdOK, InFinish, Recovering, Midway, Handling, Jobs
<1> QED BY <1>1, <1>2, <1>3, <1>4, TypeParts DEF TInv

LEMMA TypesInductive == Spec => []TInv
BY InitTypes, TypesStep, PTL DEF Spec

(* Every reachable state is well typed: the runner has a command exactly   *)
(* while it handles one and an order in hand exactly while it fills one.   *)
THEOREM RunnerTypeCorrect == Spec => []TypeOK
BY TypesInductive, PTL DEF TInv

-----------------------------------------------------------------------------
(* The claimed row and the order in hand belong to the runner: no start-up *)
(* recovery, client or clock takes them away.                              *)

HeldOK == cmd # NoKey => status[cmd] = "processing" /\ cmd \notin aged

PlacingOK ==
  /\ placing # NoEntry => entry[placing].state = "pending"
  /\ phase = "cancel" => \A e \in todo : entry[e].state = "pending"
  /\ phase = "fill"   => /\ entry[placing].cmd = cmd /\ entry[placing].day = cmd.day
                         /\ entry[placing].account = "manual"
  /\ phase = "enter"  => /\ entry[placing].cmd = NoKey
                         /\ entry[placing].account = "auto"
                         /\ entry[placing].day \in Days
                         /\ dayState[entry[placing].day] = "running"

LEMMA HeldStep == ASSUME TInv, HeldOK, RowStep PROVE HeldOK'
<1>1. /\ status \in [Keys -> RowStatus] /\ cmd \in Keys \cup {NoKey} /\ batch \subseteq Keys
      /\ phase = "claim" => cmd = NoKey
  BY DEF TInv, TypeOK, StoreTypeOK, Handling
<1>2. ASSUME NEW k \in Keys, Submit(k), UNCHANGED cmd PROVE HeldOK'
  BY <1>1, <1>2 DEF Submit, InsertRow, SetStatus, HeldOK
<1>3. ASSUME RequeueStaleRows, UNCHANGED cmd PROVE HeldOK'
  BY <1>1, <1>3 DEF RequeueStaleRows, HeldOK
<1>4. ASSUME NEW k \in Keys, ClaimRow(k), cmd' = k PROVE HeldOK'
  BY <1>1, <1>4 DEF ClaimRow, SetStatus, HeldOK
<1>5. ASSUME NEW k \in Keys, k # cmd, AgeRow(k), UNCHANGED cmd PROVE HeldOK'
  BY <1>1, <1>5 DEF AgeRow, HeldOK
<1>6. CASE cmd' = NoKey
  BY <1>6 DEF HeldOK
<1>7. CASE UNCHANGED storeVars /\ cmd' = cmd
  BY <1>7 DEF storeVars, HeldOK
<1>8. UNCHANGED rowVars => UNCHANGED storeVars
  BY DEF rowVars, storeVars
<1> QED BY <1>1, <1>2, <1>3, <1>4, <1>5, <1>6, <1>7, <1>8 DEF RowStep, Sends

(* An order is in hand, or listed to be cancelled, because it was just     *)
(* placed or read, or still is.                                            *)
LEMMA InHand ==
  ASSUME TInv, Handles
  PROVE  \/ phase' \notin {"fill", "enter", "cancel"}
         \/ \E e \in Entries : phase = "order" /\ Place(e, cmd.account, cmd.day, cmd, "fill")
         \/ \E e \in Entries, d \in Days :
               phase = "signal" /\ MayEnter(d) /\ Place(e, "auto", d, NoKey, "enter")
         \/ FinishUnfilled(Unfilled) \/ FinishUnfilled({})
         \/ \E e \in Entries : FinishCancel(e)
         \/ \E e \in Entries : phase = "cancel" /\ ItemFails(e)
<1>1. ASSUME NEW k \in batch, phase' = k.kind PROVE phase' \notin {"fill", "enter", "cancel"}
  BY <1>1 DEF TInv, TypeOK, Kinds
<1>2. ASSUME NEW e \in book \cap Open, phase = "guard", UNCHANGED phase
      PROVE  phase' \notin {"fill", "enter", "cancel"}
  BY <1>2
<1>3. \A e \in todo : phase \in {"cancel", "flatten", "sweep"}
  BY DEF TInv, CmdOK
<1> QED
  BY <1>1, <1>2, <1>3
  DEF Handles, Answers, FinishCancelled, FinishLoad, FinishQuote, FinishClose, FinishFlat,
      ItemFails, CloseAll, ClosePosition, CloseList, Sweep, SweepEnd, Fill, Drop, Release,
      Escape, Goto, Loop

LEMMA PlacingStep == ASSUME TInv, PlacingOK, FlowStep, DayStep, TInv' PROVE PlacingOK'
<1>0. /\ entry \in [Entries -> EntryRow] /\ dayState \in [Days -> DayState]
      /\ placing # NoEntry <=> phase \in {"fill", "enter"}
      /\ placing' # NoEntry <=> phase' \in {"fill", "enter"}
      /\ placing \in Entries \cup {NoEntry} /\ todo \subseteq Entries
  BY DEF TInv, TypeOK, DayTypeOK, EntryRow
<1>1. CASE phase' \notin {"fill", "enter", "cancel"}
  BY <1>0, <1>1 DEF PlacingOK
<1>2. ASSUME NEW e \in Entries, phase = "order",
             Place(e, cmd.account, cmd.day, cmd, "fill")
      PROVE  PlacingOK'
  <2>1. cmd.account = "manual"
    BY <1>2 DEF TInv, CmdOK, TypeOK, Handling
  <2> QED BY <1>0, <1>2, <2>1 DEF Place, PlacingOK
<1>3. ASSUME NEW e \in Entries, NEW d \in Days, MayEnter(d),
             Place(e, "auto", d, NoKey, "enter")
      PROVE  PlacingOK'
  BY <1>0, <1>3 DEF Place, MayEnter, PlacingOK, dayVars
<1>4. CASE FinishUnfilled(Unfilled) \/ FinishUnfilled({})
  BY <1>0, <1>4 DEF FinishUnfilled, Unfilled, Loop, PlacingOK
<1>5. ASSUME NEW e \in Entries, FinishCancel(e) PROVE PlacingOK'
  BY <1>0, <1>5 DEF FinishCancel, Loop, PlacingOK, EntryRow
<1>6. ASSUME NEW e \in Entries, phase = "cancel", ItemFails(e) PROVE PlacingOK'
  BY <1>0, <1>6 DEF ItemFails, Loop, PlacingOK
<1>7. CASE UNCHANGED << phase, cmd, placing, todo, failed, entry >>
  <2>1. phase = "enter" => dayState'[entry[placing].day] = "running"
    <3>1. SUFFICES ASSUME phase = "enter", NEW c \in Days, CreateDayRow(c)
                   PROVE  dayState'[entry[placing].day] = "running"
      BY <1>7 DEF DayStep, PlacingOK, dayVars, ExpireDay
    <3> QED BY <1>0, <3>1 DEF CreateDayRow, PlacingOK, DayState, InFlight
  <2> QED BY <1>7, <2>1 DEF PlacingOK
<1>8. CASE Turn \/ Crash
  <2>1. phase' \in Round
    BY <1>8 DEF Turn, Crash, Round, Rested
  <2> QED BY <1>1, <2>1 DEF Round, Rested
<1> QED BY <1>1, <1>2, <1>3, <1>4, <1>5, <1>6, <1>7, <1>8, InHand DEF FlowStep

-----------------------------------------------------------------------------
(* What may become of one position: a trade keeps its owner, an open one   *)
(* that is closed leaves the book, and a new one is the order in hand and  *)
(* enters it.                                                              *)

Closes(e) == /\ phase \in {"guard", "flatten", "sweep"}
             /\ entry[e].state = "open" /\ entry'[e] = [entry[e] EXCEPT !.state = "closed"]
             /\ book' = book \ {e}
Opens(e)  == /\ e = placing /\ phase \in {"fill", "enter"}
             /\ phase' = IF phase = "fill" THEN "settle" ELSE "rest"
             /\ OpenOn(entry[e].account) = {}
             /\ entry[e].state = "pending" /\ entry'[e] = [entry[e] EXCEPT !.state = "open"]
             /\ book' = book \cup {e}
             /\ UNCHANGED << status, cmd, dayState, loaded, recovery, recovered >>

Same(e)  == entry'[e] = entry[e]
Still(e) == entry[e].state \notin Traded /\ entry'[e].state \notin Traded

LEMMA Moves ==
  ASSUME TInv, PlacingOK, FlowStep, NEW e \in Entries
  PROVE  Same(e) \/ Still(e) \/ Closes(e) \/ Opens(e)
<1>0. /\ entry \in [Entries -> EntryRow] /\ book \subseteq Entries /\ todo \subseteq Entries
      /\ placing # NoEntry <=> phase \in {"fill", "enter"}
      /\ placing \in Entries \cup {NoEntry}
  BY DEF TInv, TypeOK, EntryRow
<1>1. ASSUME NEW x \in Entries, CloseCopy(x), phase \in {"guard", "flatten", "sweep"}
      PROVE  Same(e) \/ Closes(e)
  BY <1>0, <1>1 DEF CloseCopy, Open, Same, Closes
<1>2. ASSUME NEW x \in Entries, FinishCancel(x) PROVE Same(e) \/ Still(e)
  BY <1>0, <1>2 DEF FinishCancel, PlacingOK, EntryRow, Traded, Same, Still
<1>3. ASSUME NEW x, NEW a, NEW d, NEW k, NEW next, Place(x, a, d, k, next)
      PROVE  Same(e) \/ Still(e)
  BY <1>0, <1>3 DEF Place, Fresh, EntryRow, Traded, Same, Still
<1>4. ASSUME Fill(IF phase = "fill" THEN "settle" ELSE "rest"), phase \in {"fill", "enter"},
             UNCHANGED << recovery, loaded, recovered >>
      PROVE  Same(e) \/ Opens(e)
  BY <1>0, <1>4 DEF Fill, PlacingOK, Same, Opens, dayVars, rowVars
<1>5. ASSUME NEW s \in {"pending", "rejected"}, NEW next, Drop(s, next),
             phase \in {"fill", "enter"}
      PROVE  Same(e) \/ Still(e)
  BY <1>0, <1>5 DEF Drop, PlacingOK, EntryRow, Traded, Same, Still
<1>6. CASE UNCHANGED entry
  BY <1>6 DEF Same
<1>7. CASE Handles /\ UNCHANGED << recovery, loaded, recovered >>
  <2>1. CASE \/ \E x \in Entries : FinishCancel(x) \/ FinishClose(x) \/ Sweep(x)
             \/ \E x \in book \cap Open : phase = "guard" /\ CloseCopy(x)
    BY <1>0, <1>1, <1>2, <2>1 DEF FinishClose, Sweep
  <2>2. CASE \/ \E x \in Entries : phase = "order" /\ Place(x, cmd.account, cmd.day, cmd, "fill")
             \/ \E x \in Entries, d \in Days : Place(x, "auto", d, NoKey, "enter")
    BY <1>3, <2>2
  <2>3. CASE \/ phase = "fill" /\ Fill("settle")
             \/ phase = "enter" /\ Fill("rest")
    BY <1>4, <1>7, <2>3
  <2>4. CASE \/ phase = "fill" /\ Drop("pending", "requeue")
             \/ \E s \in {"rejected", "pending"} : phase = "enter" /\ Drop(s, "rest")
    BY <1>5, <2>4
  <2>5. CASE UNCHANGED entry
    BY <1>6, <2>5
  <2> QED
    BY <1>7, <2>1, <2>2, <2>3, <2>4, <2>5
    DEF Handles, Answers, FinishUnfilled, FinishCancelled, FinishLoad, FinishQuote, FinishFlat,
        ItemFails, CloseAll, ClosePosition, CloseList, SweepEnd, Release, Escape
<1> QED BY <1>6, <1>7 DEF FlowStep, Turn, Crash

(* A copy leaves the book when its position is closed, or in a crash.      *)
LEMMA BookSteps ==
  ASSUME FlowStep
  PROVE  \/ book \subseteq book'
         \/ \E e \in Entries : e \in Open /\ CloseCopy(e)
         \/ Crash
<1>1. Open \subseteq Entries
  BY DEF Open
<1>2. CASE Handles
  <2>1. CASE \/ \E e \in book \cap Open : CloseCopy(e)
             \/ \E e \in Entries : FinishClose(e) \/ Sweep(e)
    BY <1>1, <2>1 DEF FinishClose, Sweep, CloseCopy
  <2>2. CASE book \subseteq book'
    BY <2>2
  <2> QED
    BY <1>2, <2>1, <2>2
    DEF Handles, Answers, FinishUnfilled, FinishCancel, FinishCancelled, FinishLoad,
        FinishQuote, FinishFlat, ItemFails, CloseAll, ClosePosition, CloseList, SweepEnd, Place,
        Fill, Drop, Release, Escape, memVars
<1> QED BY <1>2 DEF FlowStep, Merges, Turn

LEMMA OpenStays ==
  ASSUME TInv, PlacingOK, FlowStep, ~ Crash
  PROVE  \A e \in Open' : \/ e \in Open /\ (e \in book => e \in book')
                          \/ e \in book' /\ UNCHANGED << loaded, recovery, recovered >>
<1> SUFFICES ASSUME NEW e \in Entries, entry'[e].state = "open"
             PROVE  \/ e \in Open /\ (e \in book => e \in book')
                    \/ e \in book' /\ UNCHANGED << loaded, recovery, recovered >>
  BY DEF Open
<1>0. entry[e] \in EntryRow /\ entry \in [Entries -> EntryRow]
  BY DEF TInv, TypeOK, EntryRow
<1>1. CASE Opens(e)
  BY <1>1 DEF Opens
<1>2. CASE ~ Opens(e)
  <2>1. ~ Closes(e)
    BY <1>0 DEF Closes, EntryRow
  <2>2. entry[e].state = "open"
    BY <1>2, <2>1, Moves DEF Same, Still, Traded
  <2>3. ASSUME NEW x \in Entries, x \in Open, CloseCopy(x), e \in book PROVE e \in book'
    BY <1>0, <2>3 DEF CloseCopy, EntryRow, Open
  <2> QED BY <2>2, <2>3, BookSteps DEF Open
<1> QED BY <1>1, <1>2

-----------------------------------------------------------------------------
(* The book.  What a recovery has read, with what the book has gained      *)
(* since, covers every open position until it is merged, and the book does *)
(* from then on: nothing leaves it but what the runner itself closes, and  *)
(* nothing opens outside it.                                               *)

BookCovers ==
  faults = 0 =>
    /\ recovered => Open \subseteq book
    /\ \A j \in Jobs :
         /\ recovery[j] = "read" => Open \subseteq loaded[j] \cup book
         /\ recovery[j] \in {"one", "none", "bound", "lift", "hold"} => Open \subseteq book

WatchInv == TInv /\ PlacingOK /\ BookCovers

LEMMA CoversStep == ASSUME WatchInv, Steps PROVE BookCovers'
<1>0. /\ recovery \in [Jobs -> Stages]
      /\ loaded \in [Jobs -> SUBSET Entries] /\ Open \subseteq Entries
  BY DEF WatchInv, TInv, TypeOK, Open
<1>1. faults \in Nat /\ (faults' = 0 => faults = 0)
  BY DEF Steps, WatchInv, TInv, TypeOK
<1>2. CASE Crash
  BY <1>0, <1>2 DEF Crash, BookCovers
<1>3. CASE Restart
  BY <1>0, <1>1, <1>3 DEF Restart, memVars, bounds, BookCovers, WatchInv, Open
<1>4. ASSUME NEW j \in Jobs, RecoverJob(j) PROVE BookCovers'
  <2>0. faults' = faults /\ Open' = Open
    BY <1>4 DEF RecoverJob, RecoverBegin, RecoverRead, RecoverMerge, RecoverBind, RecoverCheck,
                RecoverEnd, RecoverStep, Open
  <2>1. CASE RecoverBegin(j, TRUE)
    BY <1>0, <2>0, <2>1 DEF RecoverBegin, RecoverStep, BookCovers, WatchInv
  <2>2. CASE RecoverRead(j, Open)
    BY <1>0, <2>0, <2>2 DEF RecoverRead, RecoverStep, memVars, BookCovers, WatchInv
  <2>3. CASE RecoverMerge(j, {d \in Days : dayState[d] \in InFlight})
    BY <1>0, <2>0, <2>3 DEF RecoverMerge, RecoverStep, BookCovers, WatchInv
  <2>4. CASE RecoverBind(j) \/ \E clean \in BOOLEAN : RecoverCheck(j, clean)
    BY <1>0, <2>0, <2>4 DEF RecoverBind, RecoverCheck, RecoverStep, memVars, BookCovers,
                            WatchInv
  <2>5. CASE RecoverEnd(j)
    BY <1>0, <2>0, <2>5 DEF RecoverEnd, RecoverStep, BookCovers, WatchInv
  <2> QED BY <1>4, <2>1, <2>2, <2>3, <2>4, <2>5 DEF RecoverJob
<1>5. CASE faults' = faults + 1
  BY <1>1, <1>5 DEF BookCovers
<1>6. CASE UNCHANGED << recovery, loaded, recovered >> /\ ~ Crash
  BY <1>1, <1>6, OpenStays DEF BookCovers, WatchInv, Steps
<1> QED BY <1>2, <1>3, <1>4, <1>5, <1>6 DEF Steps, JobStep

LEMMA WatchStep == ASSUME WatchInv, [Next]_vars PROVE WatchInv' /\ Steps
<1>1. TInv' /\ Steps
  BY TypesStep, AllSteps DEF WatchInv
<1> QED BY <1>1, PlacingStep, CoversStep DEF WatchInv, Steps

LEMMA WatchInductive == Spec => []WatchInv
<1>1. Init => WatchInv
  BY InitTypes DEF Init, WatchInv, PlacingOK, BookCovers, Open, Blank
<1> QED BY <1>1, WatchStep, PTL DEF Spec

(* A recovered runner has every open position in its book as long as no    *)
(* database call failed, however often it crashed and however its          *)
(* recoveries overlapped.                                                  *)
THEOREM RunnerOpenIsWatched == Spec => []OpenIsWatched
<1>1. WatchInv => OpenIsWatched
  BY DEF WatchInv, BookCovers, OpenIsWatched
<1> QED BY <1>1, WatchInductive, PTL

-----------------------------------------------------------------------------
(* A completed close_position.  The command is acknowledged when its       *)
(* position is not in the book, and after a close that did not take it out *)
(* of the way, so what makes the answer true is that a runner handling     *)
(* commands has recovered and its book covers what is open.                *)

RecoveredOK == phase \notin Rested => recovered

LEMMA RecoveredStep == ASSUME TInv, RecoveredOK, Steps PROVE RecoveredOK'
<1>0. /\ "cycle" \in Jobs /\ recovery \in [Jobs -> Stages]
      /\ \A e \in todo : phase \in {"cancel", "flatten", "sweep"}
  BY DEF TInv, TypeOK, CmdOK, Jobs
<1>1. CASE phase' \in Rested
  BY <1>1 DEF RecoveredOK
<1>2. CASE phase' \notin Rested
  <2>1. recovered
    <3>1. CASE phase \notin Rested
      BY <3>1 DEF RecoveredOK
    <3>2. CASE phase \in Rested
      <4>1. CASE Handles
        BY <1>0, <3>2, <4>1
        DEF Handles, Answers, FinishUnfilled, FinishCancel, FinishCancelled, FinishLoad,
            FinishQuote, FinishClose, FinishFlat, ItemFails, CloseAll, ClosePosition, CloseList,
            Sweep, SweepEnd, Escape, Rested
      <4>2. CASE UNCHANGED phase \/ Turn \/ Crash
        BY <1>2, <3>2, <4>2 DEF Turn, Crash, Rested
      <4> QED BY <4>1, <4>2 DEF Steps, FlowStep
    <3> QED BY <3>1, <3>2
  <2>2. ~ Crash /\ ~ Restart
    BY <1>2 DEF Crash, Restart, Rested
  <2>3. recovered' = recovered \/ recovered' = TRUE
    BY <2>2, JobStages
    DEF Steps, RecoverStages, RecoverBegin, RecoverRead, RecoverMerge, RecoverBind,
        RecoverCheck, RecoverEnd, memVars
  <2> QED BY <2>1, <2>3 DEF RecoveredOK
<1> QED BY <1>1, <1>2

CloseNamesTrade ==
  \A k \in Keys : k.kind = "close" /\ status[k] # "absent" => entry[k.n].state \in Traded

CloseOK ==
  faults = 0 => /\ phase = "sweep" /\ cmd.kind = "close" => cmd.n \in todo \/ cmd.n \notin Open
                /\ phase = "settle" /\ cmd.kind = "close" => entry[cmd.n].state = "closed"

CloseInv == /\ WatchInv /\ HeldOK /\ RecoveredOK
            /\ CloseNamesTrade /\ CloseOK /\ CompletedCloseIsClosed

(* A trade stays one, and a closed position stays closed.                  *)
LEMMA TradeStays ==
  ASSUME TInv, PlacingOK, FlowStep, NEW e \in Entries, entry[e].state \in Traded
  PROVE  /\ entry'[e].state \in Traded
         /\ entry[e].state = "closed" => entry'[e].state = "closed"
<1>1. entry[e] \in EntryRow
  BY DEF TInv, TypeOK, EntryRow
<1> QED BY <1>1, Moves DEF Same, Still, Closes, Opens, Traded, EntryRow

(* Nothing opens but in the phases that fill an order.                     *)
LEMMA NoneOpens ==
  ASSUME TInv, PlacingOK, FlowStep, phase \notin {"fill", "enter"}
  PROVE  Open' \subseteq Open
<1> SUFFICES ASSUME NEW e \in Entries, entry'[e].state = "open" PROVE entry[e].state = "open"
  BY DEF Open
<1>1. entry[e] \in EntryRow
  BY DEF TInv, TypeOK, EntryRow
<1> QED BY <1>1, Moves DEF Same, Still, Closes, Opens, Traded, EntryRow

LEMMA NamesStep == ASSUME CloseInv, Steps PROVE CloseNamesTrade'
<1> SUFFICES ASSUME NEW k \in Keys, k.kind = "close", status'[k] # "absent"
             PROVE  entry'[k.n].state \in Traded
  BY DEF CloseNamesTrade
<1>1. /\ k.n \in Entries /\ status \in [Keys -> RowStatus] /\ cmd \in Keys \cup {NoKey}
      /\ batch \subseteq Keys
  BY DEF CloseInv, WatchInv, TInv, TypeOK, StoreTypeOK
<1>2. CASE entry[k.n].state \in Traded
  BY <1>1, <1>2, TradeStays DEF CloseInv, WatchInv, Steps
<1>3. CASE entry[k.n].state \notin Traded
  <2>1. status[k] = "absent"
    BY <1>3 DEF CloseInv, CloseNamesTrade
  <2>2. phase \in {"settle", "requeue"} => cmd \in Keys /\ status[cmd] = "processing"
    BY <1>1 DEF CloseInv, HeldOK, WatchInv, TInv, TypeOK, Handling
  <2>3. \E x \in Keys : Submit(x) /\ (x.kind = "close" => entry[x.n].state \in Traded)
    <3>1. ~ UNCHANGED status
      BY <2>1
    <3>2. aged \subseteq {x \in Keys : status[x] = "processing"}
      BY DEF CloseInv, WatchInv, TInv, TypeOK, StoreTypeOK
    <3> QED
      BY <1>1, <2>1, <2>2, <3>1, <3>2
      DEF Steps, RowStep, Sends, rowVars, storeVars, RequeueStaleRows, ClaimRow, CompleteRow,
          RequeueRow, AgeRow, SetStatus
  <2>4. PICK x \in Keys : Submit(x) /\ (x.kind = "close" => entry[x.n].state \in Traded)
    BY <2>3
  <2>5. x = k
    BY <1>1, <2>1, <2>4 DEF Submit, InsertRow, SetStatus
  <2> QED BY <1>3, <2>4, <2>5
<1> QED BY <1>2, <1>3

(* The list of a close_position is its position, if it is in the book, and *)
(* it leaves the list when it is closed or was not open.                   *)
LEMMA ToSweep ==
  ASSUME TInv, FlowStep, phase' = "sweep", cmd' \in Keys, cmd'.kind = "close"
  PROVE  \/ UNCHANGED << phase, cmd >> /\ UNCHANGED todo
         \/ \E e \in Entries : UNCHANGED << phase, cmd >> /\ Sweep(e)
         \/ Handles /\ faults' = faults + 1
         \/ cmd' = cmd /\ cmd.n \in todo'
<1>1. \A k \in batch : k.kind \in Kinds
  BY DEF TInv, TypeOK
<1>2. CASE Handles
  <2>1. CASE \E quote \in BOOLEAN : CloseAll(quote) \/ ClosePosition(quote)
    <3>1. CASE \E quote \in BOOLEAN : ClosePosition(quote)
      BY <3>1 DEF ClosePosition, CloseList, Loop
    <3>2. CASE \E quote \in BOOLEAN : CloseAll(quote)
      BY <3>2 DEF CloseAll, CloseList, Loop, TInv, CmdOK
    <3> QED BY <2>1, <3>1, <3>2
  <2>2. CASE \E e \in Entries : Sweep(e)
    BY <2>2 DEF Sweep, Loop
  <2>3. CASE \E e \in Entries : ItemFails(e) /\ faults' = faults + 1
    BY <1>2, <2>3
  <2>4. CASE phase' # "sweep" \/ UNCHANGED << phase, cmd, todo >>
    BY <2>4
  <2> HIDE DEF Handles
  <2> QED
    BY <1>1, <1>2, <2>1, <2>2, <2>3, <2>4
    DEF Handles, Answers, Kinds, FinishUnfilled, FinishCancel, FinishCancelled, FinishLoad,
        FinishQuote, FinishClose, FinishFlat, SweepEnd, Place, Fill, Drop, Release, Escape,
        Goto, Loop
<1>3. CASE \/ UNCHANGED << phase, cmd, placing, todo, failed, entry >>
           \/ Turn \/ Crash
  BY <1>3 DEF Turn, Crash, Round, Rested
<1> QED BY <1>2, <1>3 DEF FlowStep

(* A handler goes to the settling of its command, or is there already.     *)
LEMMA ToSettle ==
  ASSUME TInv, FlowStep, phase' = "settle"
  PROVE  \/ phase = "settle" /\ UNCHANGED << cmd, entry >>
         \/ phase = "sweep" /\ SweepEnd
         \/ \E quote \in BOOLEAN : ClosePosition(quote) /\ {cmd.n} \cap book = {}
         \/ cmd \in Keys /\ cmd' = cmd /\ cmd.kind # "close"
<1>0. /\ phase \in Handling => cmd \in Keys
      /\ \A e \in todo : phase \in {"cancel", "flatten", "sweep"}
      /\ \A k \in batch : k.kind \in Kinds
  BY DEF TInv, TypeOK, CmdOK
<1>1. CASE Handles
  <2>1. CASE Answers \/ (phase = "fill" /\ Fill("settle"))
    BY <1>0, <2>1 DEF Answers, Fill, TInv, CmdOK, InFinish, Handling
  <2>2. CASE SweepEnd
    BY <2>2 DEF SweepEnd
  <2>3. CASE \E quote \in BOOLEAN : CloseAll(quote) \/ ClosePosition(quote)
    <3>1. CASE \E quote \in BOOLEAN : ClosePosition(quote)
      BY <3>1 DEF ClosePosition, CloseList, Loop
    <3>2. CASE \E quote \in BOOLEAN : CloseAll(quote)
      BY <1>0, <3>2 DEF CloseAll, CloseList, Loop, TInv, CmdOK, Handling
    <3> QED BY <2>3, <3>1, <3>2
  <2> QED
    BY <1>0, <1>1, <2>1, <2>2, <2>3
    DEF Handles, Kinds, FinishUnfilled, FinishCancel, FinishCancelled, FinishLoad,
        FinishQuote, FinishClose, FinishFlat, Sweep, ItemFails, Place, Fill, Drop, Release,
        Escape, Goto, Loop
<1>2. CASE \/ UNCHANGED << phase, cmd, placing, todo, failed, entry >>
           \/ Turn \/ Crash
  BY <1>2 DEF Turn, Crash, Round, Rested
<1> QED BY <1>1, <1>2 DEF FlowStep

LEMMA CloseStep == ASSUME CloseInv, Steps, TInv' PROVE CloseOK'
<1>0. /\ TInv /\ PlacingOK /\ faults \in Nat /\ FlowStep
      /\ phase \in Handling => cmd \in Keys
      /\ phase' \in Handling => cmd' \in Keys
      /\ \A k \in Keys : k.kind = "close" => k.n \in Entries
      /\ entry \in [Entries -> EntryRow]
  BY DEF CloseInv, WatchInv, TInv, TypeOK, Steps, EntryRow
<1> SUFFICES ASSUME faults' = 0
             PROVE  /\ phase' = "sweep" /\ cmd'.kind = "close"
                         => cmd'.n \in todo' \/ cmd'.n \notin Open'
                    /\ phase' = "settle" /\ cmd'.kind = "close"
                         => entry'[cmd'.n].state = "closed"
  BY DEF CloseOK
<1>1. faults = 0
  BY <1>0 DEF Steps
<1>2. ASSUME phase' = "sweep", cmd'.kind = "close"
      PROVE  cmd'.n \in todo' \/ cmd'.n \notin Open'
  <2>0. cmd' \in Keys /\ cmd'.n \in Entries
    BY <1>0, <1>2 DEF Handling
  <2>1. CASE UNCHANGED << phase, cmd >> /\ UNCHANGED todo
    <3>1. Open' \subseteq Open
      BY <1>0, <1>2, <2>1, NoneOpens
    <3> QED BY <1>1, <1>2, <2>1, <3>1 DEF CloseInv, CloseOK
  <2>2. ASSUME NEW e \in Entries, UNCHANGED << phase, cmd >>, Sweep(e)
        PROVE  cmd'.n \in todo' \/ cmd'.n \notin Open'
    <3>1. Open' \subseteq Open
      BY <1>0, <1>2, <2>2, NoneOpens
    <3>2. e \notin Open'
      BY <1>0, <2>2 DEF Sweep, CloseCopy, Open, EntryRow
    <3>3. cmd.n \in todo \/ cmd.n \notin Open
      BY <1>1, <1>2, <2>2 DEF CloseInv, CloseOK
    <3> QED BY <2>2, <3>1, <3>2, <3>3 DEF Sweep, Loop
  <2>3. CASE faults' = faults + 1
    BY <1>0, <2>3
  <2> QED BY <1>0, <1>2, <2>0, <2>1, <2>2, <2>3, ToSweep
<1>3. ASSUME phase' = "settle", cmd'.kind = "close" PROVE entry'[cmd'.n].state = "closed"
  <2>1. CASE phase = "settle" /\ UNCHANGED << cmd, entry >>
    BY <1>1, <1>3, <2>1 DEF CloseInv, CloseOK
  <2>2. CASE /\ cmd \in Keys /\ cmd.kind = "close" /\ UNCHANGED << cmd, entry >>
             /\ cmd.n \notin Open
    <3>1. entry[cmd.n].state \in Traded /\ cmd.n \in Entries
      BY <1>0, <2>2 DEF CloseInv, CloseNamesTrade, HeldOK
    <3> QED BY <2>2, <3>1 DEF Open, Traded
  <2>3. CASE phase = "sweep" /\ SweepEnd
    <3>1. cmd \in Keys /\ UNCHANGED << cmd, entry >> /\ todo = {}
      BY <1>0, <2>3 DEF SweepEnd, Goto, Handling
    <3>2. cmd.n \notin Open
      BY <1>1, <1>3, <2>3, <3>1 DEF CloseInv, CloseOK
    <3> QED BY <1>3, <2>2, <3>1, <3>2
  <2>4. ASSUME NEW quote \in BOOLEAN, ClosePosition(quote), {cmd.n} \cap book = {}
        PROVE  entry'[cmd'.n].state = "closed"
    <3>1. cmd \in Keys /\ UNCHANGED << cmd, entry >> /\ phase = "close"
      BY <1>0, <2>4 DEF ClosePosition, CloseList, Loop, Handling
    <3>2. recovered
      BY <3>1 DEF CloseInv, RecoveredOK, Rested
    <3>3. Open \subseteq book
      BY <1>1, <3>2 DEF CloseInv, WatchInv, BookCovers
    <3> QED BY <1>3, <2>2, <2>4, <3>1, <3>3
  <2> QED BY <1>0, <1>3, <2>1, <2>3, <2>4, ToSettle
<1> QED BY <1>2, <1>3

LEMMA CompletedStep == ASSUME CloseInv, Steps PROVE CompletedCloseIsClosed'
<1>0. /\ TInv /\ PlacingOK /\ faults \in Nat /\ FlowStep
      /\ status \in [Keys -> RowStatus] /\ cmd \in Keys \cup {NoKey} /\ batch \subseteq Keys
      /\ aged \subseteq {x \in Keys : status[x] = "processing"}
      /\ phase \in {"settle", "requeue"} => cmd \in Keys
  BY DEF CloseInv, WatchInv, TInv, TypeOK, StoreTypeOK, Handling, Steps
<1> SUFFICES ASSUME faults' = 0, NEW k \in Keys, k.kind = "close", status'[k] = "completed"
             PROVE  entry'[k.n].state = "closed"
  BY DEF CompletedCloseIsClosed
<1>1. faults = 0 /\ k.n \in Entries
  BY <1>0 DEF Steps
<1>2. status[k] = "completed" \/ (k = cmd /\ phase = "settle")
  BY <1>0
  DEF Steps, RowStep, Sends, rowVars, storeVars, Submit, InsertRow, RequeueStaleRows, ClaimRow,
      CompleteRow, RequeueRow, AgeRow, SetStatus
<1>3. entry[k.n].state = "closed"
  BY <1>1, <1>2 DEF CloseInv, CompletedCloseIsClosed, CloseOK
<1> QED BY <1>0, <1>1, <1>3, TradeStays DEF Traded

LEMMA CloseInductive == Spec => []CloseInv
<1>1. Init => CloseInv
  <2> SUFFICES ASSUME Init PROVE CloseInv
    OBVIOUS
  <2>1. WatchInv
    BY InitTypes DEF Init, WatchInv, PlacingOK, BookCovers, Open, Blank
  <2>2. HeldOK /\ RecoveredOK /\ CloseOK
    BY DEF Init, HeldOK, RecoveredOK, Rested, CloseOK
  <2>3. CloseNamesTrade /\ CompletedCloseIsClosed
    BY DEF Init, StoreInit, CloseNamesTrade, CompletedCloseIsClosed
  <2> QED BY <2>1, <2>2, <2>3 DEF CloseInv
<1>2. ASSUME CloseInv, [Next]_vars PROVE CloseInv'
  <2>1. WatchInv' /\ Steps /\ TInv /\ TInv'
    BY <1>2, WatchStep DEF CloseInv, WatchInv
  <2> QED
    BY <1>2, <2>1, HeldStep, RecoveredStep, NamesStep, CloseStep, CompletedStep
    DEF CloseInv, Steps
<1> QED BY <1>1, <1>2, PTL DEF Spec

(* A close_position that the runner completed names a position that is     *)
(* closed, as long as no database call failed: through crashes, redone     *)
(* commands and recoveries beside the cycle.                               *)
THEOREM RunnerCompletedCloseIsClosed == Spec => []CompletedCloseIsClosed
BY CloseInductive, PTL DEF CloseInv

-----------------------------------------------------------------------------
(* One fill per command.  A command that may still be filled has one of    *)
(* its fills to spare; filling it takes the command to its settlement, and *)
(* only a crash or a failed call there has it executed again.              *)

MayFill(k) == /\ status[k] \in {"absent", "accepted", "processing"}
              /\ ~ (k = cmd /\ phase = "settle")

Spare(k) == IF MayFill(k) THEN 1 ELSE 0

FillsBound ==
  \A k \in Keys : /\ IsFiniteSet(FillsOf(k))
                  /\ Cardinality(FillsOf(k)) + Spare(k) <= 1 + crashes + faults

FillInv == TInv /\ PlacingOK /\ HeldOK /\ FillsBound

(* A command's fills are what they were, or gain the order in hand.        *)
LEMMA FillsStep ==
  ASSUME TInv, PlacingOK, FlowStep, NEW k \in Keys
  PROVE  \/ FillsOf(k)' \subseteq FillsOf(k)
         \/ /\ phase = "fill" /\ k = cmd /\ FillsOf(k)' \subseteq FillsOf(k) \cup {placing}
            /\ phase' = "settle" /\ cmd' = cmd
<1>0. entry \in [Entries -> EntryRow] /\ (cmd # NoKey <=> phase \in Handling)
  BY DEF TInv, TypeOK, EntryRow
<1>1. ASSUME NEW e \in Entries, entry'[e].cmd = k, entry'[e].state \in Traded
      PROVE  \/ e \in FillsOf(k)
             \/ e = placing /\ phase = "fill" /\ k = cmd /\ phase' = "settle" /\ cmd' = cmd
  <2>1. entry[e] \in EntryRow
    BY <1>0
  <2>2. CASE Opens(e)
    BY <1>0, <1>1, <2>1, <2>2 DEF Opens, PlacingOK, EntryRow
  <2>3. CASE ~ Opens(e)
    BY <1>1, <2>1, <2>3, Moves DEF Same, Still, Closes, Traded, FillsOf, EntryRow
  <2> QED BY <2>2, <2>3
<1>2. FillsOf(k)' = {e \in Entries : entry'[e].cmd = k /\ entry'[e].state \in Traded}
  BY DEF FillsOf, Traded
<1> QED BY <1>1, <1>2

(* A command in settlement stays there, or leaves the runner's hands.      *)
LEMMA FromSettle ==
  ASSUME TInv, FlowStep, phase = "settle"
  PROVE  (phase' = "settle" /\ cmd' = cmd) \/ cmd' = NoKey
<1>1. \A e \in todo : FALSE
  BY DEF TInv, CmdOK
<1>2. CASE Handles
  BY <1>1, <1>2
  DEF Handles, Answers, FinishUnfilled, FinishCancel, FinishCancelled, FinishLoad, FinishQuote,
      FinishClose, FinishFlat, ItemFails, CloseAll, ClosePosition, CloseList, Sweep, SweepEnd,
      Release, Escape
<1>3. CASE Turn
  BY <1>3 DEF Turn, Round, Rested
<1> QED BY <1>2, <1>3 DEF FlowStep, Crash

LEMMA Counted ==
  ASSUME crashes \in Nat, faults \in Nat, crashes' \in Nat, faults' \in Nat,
         crashes' = crashes \/ crashes' = crashes + 1,
         faults' = faults \/ faults' = faults + 1
  PROVE  /\ 1 + crashes + faults \in Nat /\ 1 + crashes' + faults' \in Nat
         /\ 1 + crashes + faults <= 1 + crashes' + faults'
         /\ crashes' = crashes + 1 \/ faults' = faults + 1
              => 1 + crashes + faults < 1 + crashes' + faults'
<1>1. ASSUME NEW a \in Nat, NEW b \in Nat, NEW c \in Nat, NEW d \in Nat,
             c = a \/ c = a + 1, d = b \/ d = b + 1
      PROVE  /\ 1 + a + b \in Nat /\ 1 + c + d \in Nat /\ 1 + a + b <= 1 + c + d
             /\ c = a + 1 \/ d = b + 1 => 1 + a + b < 1 + c + d
  BY <1>1
<1> QED BY <1>1

(* A row that is settled is not executed again, and one in settlement only *)
(* when the runner dies or a call fails.                                   *)
LEMMA SpareStep ==
  ASSUME TInv, HeldOK, Steps, NEW k \in Keys, MayFill(k)'
  PROVE  MayFill(k) \/ 1 + crashes + faults < 1 + crashes' + faults'
<1>0. /\ status \in [Keys -> RowStatus] /\ cmd \in Keys \cup {NoKey} /\ batch \subseteq Keys
      /\ aged \subseteq {x \in Keys : status[x] = "processing"}
      /\ phase \in {"settle", "requeue"} => cmd \in Keys /\ status[cmd] = "processing"
      /\ cmd # NoKey => status[cmd] = "processing"
      /\ Steps
  BY DEF HeldOK, TInv, TypeOK, StoreTypeOK, Handling
<1> DEFINE b == 1 + crashes + faults
           c == 1 + crashes' + faults'
<1>00. Drops => b < c
  BY Counted DEF Drops, TInv, TypeOK, Steps
<1>1. status[k] \notin Terminal
  BY <1>0 DEF Steps, RowStep, Sends, rowVars, storeVars, Submit, InsertRow, RequeueStaleRows,
              ClaimRow, CompleteRow, RequeueRow, AgeRow, SetStatus, Terminal, MayFill
<1>2. CASE k = cmd /\ phase = "settle"
  <2>1. cmd' = NoKey
    BY <1>2, FromSettle DEF MayFill, Steps
  <2>2. CASE Drops
    BY <1>00, <2>2
  <2>3. CASE CompleteRow(cmd)
    BY <1>0, <1>2, <2>3 DEF CompleteRow, SetStatus, MayFill
  <2> QED
    BY <1>0, <1>2, <2>1, <2>2, <2>3 DEF Steps, RowStep, Sends
<1>3. CASE ~ (k = cmd /\ phase = "settle")
  BY <1>0, <1>1, <1>3 DEF MayFill, RowStatus
<1> QED BY <1>2, <1>3

LEMMA OneMore ==
  ASSUME NEW S, NEW T, NEW x, IsFiniteSet(S), T \subseteq S \cup {x}
  PROVE  /\ IsFiniteSet(T) /\ Cardinality(T) \in Nat /\ Cardinality(S) \in Nat
         /\ Cardinality(T) <= Cardinality(S) + 1
         /\ T \subseteq S => Cardinality(T) <= Cardinality(S)
<1>1. IsFiniteSet(S \cup {x}) /\ Cardinality(S \cup {x}) \in {Cardinality(S), Cardinality(S) + 1}
  BY FS_AddElement
<1>2. IsFiniteSet(T) /\ Cardinality(T) <= Cardinality(S \cup {x})
  BY <1>1, FS_Subset
<1>3. T \subseteq S => Cardinality(T) <= Cardinality(S)
  BY FS_Subset
<1>4. Cardinality(T) \in Nat /\ Cardinality(S) \in Nat
  BY <1>2, FS_CardinalityType
<1> QED BY <1>1, <1>2, <1>3, <1>4

LEMMA FillsBoundStep == ASSUME FillInv, Steps, TInv' PROVE FillsBound'
<1> SUFFICES ASSUME NEW k \in Keys
             PROVE  /\ IsFiniteSet(FillsOf(k)')
                    /\ Cardinality(FillsOf(k)') + Spare(k)' <= 1 + crashes' + faults'
  BY DEF FillsBound
<1>0. /\ TInv /\ PlacingOK /\ HeldOK /\ FlowStep
      /\ crashes \in Nat /\ faults \in Nat /\ crashes' \in Nat /\ faults' \in Nat
      /\ crashes' = crashes \/ crashes' = crashes + 1
      /\ faults' = faults \/ faults' = faults + 1
  BY DEF FillInv, Steps, TInv, TypeOK
<1>6. Steps
  OBVIOUS
<1>1. /\ IsFiniteSet(FillsOf(k))
      /\ Cardinality(FillsOf(k)) + Spare(k) <= 1 + crashes + faults
  BY DEF FillInv, FillsBound
<1> DEFINE S == FillsOf(k)
           T == FillsOf(k)'
           b == 1 + crashes + faults
           c == 1 + crashes' + faults'
<1>2. b \in Nat /\ c \in Nat /\ b <= c
  BY <1>0, Counted
<1>3. Spare(k) \in {0, 1} /\ Spare(k)' \in {0, 1}
  BY DEF Spare
<1>4. CASE T \subseteq S
  <2>1. IsFiniteSet(T) /\ Cardinality(T) \in Nat /\ Cardinality(S) \in Nat
        /\ Cardinality(T) <= Cardinality(S)
    <3>1. T \subseteq S \cup {NoEntry}
      BY <1>4
    <3> HIDE DEF S, T
    <3> QED BY <1>1, <1>4, <3>1, OneMore DEF S
  <2>2. Spare(k)' = 0 \/ Spare(k) = 1 \/ b < c
    <3>1. MayFill(k)' => MayFill(k) \/ 1 + crashes + faults < 1 + crashes' + faults'
      BY <1>0, <1>6, SpareStep
    <3> QED BY <3>1 DEF Spare
  <2> HIDE DEF b, c
  <2> QED BY <1>1, <1>2, <1>3, <2>1, <2>2 DEF b, c
<1>5. CASE /\ phase = "fill" /\ k = cmd /\ T \subseteq S \cup {placing}
           /\ phase' = "settle" /\ cmd' = cmd
  <2>1. Spare(k) = 1 /\ Spare(k)' = 0
    <3>1. status[k] = "processing"
      BY <1>0, <1>5 DEF HeldOK, TInv, TypeOK, Handling
    <3> QED BY <1>5, <3>1 DEF Spare, MayFill
  <2>2. IsFiniteSet(T) /\ Cardinality(T) \in Nat /\ Cardinality(S) \in Nat
        /\ Cardinality(T) <= Cardinality(S) + 1
    <3> HIDE DEF S, T
    <3> QED BY <1>1, <1>5, OneMore DEF S
  <2> QED BY <1>1, <1>2, <2>1, <2>2
<1> QED BY <1>0, <1>4, <1>5, FillsStep

(* A submit_order command opens at most one position, and one more for     *)
(* every crash or failed call, however often it is put back for want of a  *)
(* quote or of balance and however long the run.                           *)
THEOREM RunnerOneFillPerCommand == Spec => []OneFillPerCommand
<1>1. Init => FillInv
  <2> SUFFICES ASSUME Init PROVE FillInv
    OBVIOUS
  <2>1. \A k \in Keys : FillsOf(k) = {}
    BY DEF Init, FillsOf, Blank
  <2>2. IsFiniteSet({}) /\ Cardinality({}) = 0 /\ crashes = 0 /\ faults = 0
    BY FS_EmptySet DEF Init
  <2>3. FillsBound
    <3>1. \A k \in Keys : Spare(k) \in {0, 1}
      BY DEF Spare
    <3>2. \A k \in Keys : Cardinality(FillsOf(k)) = 0
      BY <2>1, <2>2
    <3>3. \A n \in {0, 1} : 0 + n <= 1 + 0 + 0
      OBVIOUS
    <3> QED BY <2>1, <2>2, <3>1, <3>2, <3>3 DEF FillsBound
  <2> QED BY <2>3, InitTypes DEF Init, FillInv, PlacingOK, HeldOK
<1>2. ASSUME FillInv, [Next]_vars PROVE FillInv'
  <2>1. TInv' /\ Steps
    BY <1>2, TypesStep, AllSteps DEF FillInv
  <2> QED BY <1>2, <2>1, PlacingStep, HeldStep, FillsBoundStep DEF FillInv, Steps
<1>3. FillInv => OneFillPerCommand
  <2> SUFFICES ASSUME FillInv, NEW k \in Keys
               PROVE  Cardinality(FillsOf(k)) <= 1 + crashes + faults
    BY DEF OneFillPerCommand
  <2>1. /\ IsFiniteSet(FillsOf(k)) /\ Cardinality(FillsOf(k)) \in Nat
        /\ Cardinality(FillsOf(k)) + Spare(k) <= 1 + crashes + faults
        /\ Spare(k) \in {0, 1} /\ crashes \in Nat /\ faults \in Nat
    BY FS_CardinalityType DEF FillInv, FillsBound, Spare, TInv, TypeOK
  <2> QED BY <2>1
<1> QED BY <1>1, <1>2, <1>3, PTL DEF Spec

-----------------------------------------------------------------------------
(* What an entry is for.                                                   *)

(* An open position was open before, with the same owner, or was just      *)
(* opened from the order in hand.                                          *)
LEMMA OpenWas ==
  ASSUME TInv, PlacingOK, FlowStep, NEW e \in Open'
  PROVE  /\ e \in Entries /\ entry'[e].day = entry[e].day /\ entry'[e].account = entry[e].account
         /\ e \in Open \/ Opens(e)
<1>1. e \in Entries /\ entry'[e].state = "open" /\ entry[e] \in EntryRow
  BY DEF Open, TInv, TypeOK, EntryRow
<1>2. Opens(e) => entry'[e].day = entry[e].day /\ entry'[e].account = entry[e].account
  BY <1>1 DEF Opens, EntryRow
<1>3. ~ Closes(e)
  BY <1>1 DEF Closes, EntryRow
<1> QED BY <1>1, <1>2, <1>3, Moves DEF Same, Still, Traded, Open

(* _evaluate_signals: the auto account enters for a day that is running at *)
(* that moment, although the day was read before the order was placed.     *)
THEOREM RunnerAutoEntersRunningDay == Spec => AutoEntersRunningDay
<1>1. ASSUME WatchInv, [Next]_vars
      PROVE  [\A e \in Entries : entry'[e].account = "auto" /\ e \notin Open /\ e \in Open'
                                   => dayState[entry'[e].day] = "running"]_vars
  <2> SUFFICES ASSUME NEW e \in Entries,
                      entry'[e].account = "auto", e \notin Open, e \in Open'
               PROVE  dayState[entry'[e].day] = "running"
    OBVIOUS
  <2>1. TInv /\ PlacingOK /\ FlowStep
    BY <1>1, WatchStep DEF WatchInv, Steps
  <2>2. /\ Opens(e) /\ entry'[e].day = entry[e].day
        /\ entry[e].account = "auto"
    BY <2>1, OpenWas
  <2> QED BY <2>1, <2>2 DEF Opens, PlacingOK
<1> QED BY <1>1, WatchInductive, PTL DEF Spec, AutoEntersRunningDay

-----------------------------------------------------------------------------
(* Closing a day.  While finish_day closes its positions the book covers   *)
(* the day's open ones: it has just been merged with what the database     *)
(* said, or, when that one read failed, the recovery's book is whole.      *)

(* How finish_day comes to its later steps.                                *)
LEMMA FinishFlow ==
  ASSUME TInv, FlowStep, phase' \in {"quote", "flatten", "defer", "end"}
  PROVE  \/ UNCHANGED << phase, cmd, placing, todo, failed, entry >> /\ Merges
         \/ \E e \in Entries : FinishClose(e) /\ UNCHANGED ghosts
         \/ \E e \in Entries : phase = "flatten" /\ ItemFails(e)
         \/ FinishLoad(OfDay(Open, cmd.day))
         \/ FinishLoad({}) /\ faults < MaxFaults /\ faults' = faults + 1
         \/ \E quote \in BOOLEAN : FinishQuote(quote) /\ UNCHANGED ghosts
         \/ FinishFlat /\ UNCHANGED ghosts
<1>0. /\ \A e \in todo : phase \in {"cancel", "flatten", "sweep"}
      /\ \A k \in batch : k.kind \in Kinds
  BY DEF TInv, TypeOK, CmdOK
<1>1. CASE Handles /\ UNCHANGED ghosts
  <2>1. ASSUME NEW k \in batch, phase' = k.kind PROVE FALSE
    BY <1>0, <2>1 DEF Kinds
  <2> QED
    BY <1>0, <1>1, <2>1
    DEF Handles, Answers, FinishUnfilled, FinishCancel, FinishCancelled, CloseAll,
        ClosePosition, CloseList, Sweep, SweepEnd, ItemFails, Place, Fill, Drop, Release,
        Escape, Goto, Loop
<1>2. CASE Turn \/ Crash
  BY <1>2 DEF Turn, Crash, Round, Rested
<1> QED BY <1>1, <1>2 DEF FlowStep

FlatOK ==
  /\ phase \in {"quote", "flatten"} => OfDay(Open, cmd.day) \subseteq book
  /\ phase = "end" => OfDay(Open, cmd.day) = {}

FlatInv == WatchInv /\ RecoveredOK /\ FlatOK

LEMMA FlatStep == ASSUME MaxFaults <= 1, FlatInv, Steps PROVE FlatOK'
<1> SUFFICES ASSUME phase' \in {"quote", "flatten", "end"}
             PROVE  /\ phase' \in {"quote", "flatten"} => OfDay(Open, cmd.day)' \subseteq book'
                    /\ phase' = "end" => OfDay(Open, cmd.day)' = {}
  BY DEF FlatOK
<1>0. TInv /\ PlacingOK /\ ~ Crash /\ FlatOK /\ faults \in Nat /\ FlowStep
  BY DEF FlatInv, WatchInv, Crash, TInv, TypeOK, Steps
<1>1. ASSUME NEW e \in OfDay(Open, cmd.day)', cmd' = cmd, phase \notin {"fill", "enter"}
      PROVE  e \in OfDay(Open, cmd.day) /\ (e \in book => e \in book')
  <2>1. e \in Open' /\ entry'[e].day = cmd.day
    BY <1>1 DEF OfDay
  <2>2. e \in Open /\ entry[e].day = cmd.day
    BY <1>0, <1>1, <2>1, OpenWas DEF Opens
  <2>3. e \in book => e \in book'
    <3>1. ASSUME NEW x \in Entries, x \in Open, CloseCopy(x), e \in book PROVE e \in book'
      BY <1>0, <2>1, <3>1 DEF CloseCopy, Open, TInv, TypeOK
    <3> QED BY <1>0, <3>1, BookSteps
  <2> QED BY <2>2, <2>3 DEF OfDay
<1>2. CASE /\ UNCHANGED cmd /\ phase \in {"quote", "flatten", "end"}
           /\ phase' = "end" => phase = "end"
  <2>1. CASE phase = "end"
    <3>1. phase' = "end"
      BY <1>0, <2>1, FinishFlow
      DEF FinishClose, ItemFails, FinishLoad, FinishQuote, FinishFlat
    <3> QED BY <1>0, <1>1, <1>2, <2>1, <3>1 DEF FlatOK
  <2> QED BY <1>0, <1>1, <1>2, <2>1 DEF FlatOK
<1>3. ASSUME NEW S, FinishLoad(S), OfDay(Open, cmd.day) \subseteq book \cup S
      PROVE  /\ phase' \in {"quote", "flatten"} => OfDay(Open, cmd.day)' \subseteq book'
             /\ phase' = "end" => OfDay(Open, cmd.day)' = {}
  <2>1. book' = book \cup S /\ cmd' = cmd /\ phase = "load" /\ phase' = "quote"
    BY <1>3 DEF FinishLoad, Goto
  <2> QED BY <1>1, <1>3, <2>1
<1>4. CASE FinishLoad({}) /\ faults < MaxFaults /\ faults' = faults + 1
  <2>1. faults = 0 /\ recovered
    BY <1>0, <1>4 DEF FinishLoad, FlatInv, RecoveredOK, Rested
  <2>2. OfDay(Open, cmd.day) \subseteq book
    BY <2>1 DEF FlatInv, WatchInv, BookCovers, OfDay
  <2> QED BY <1>3, <1>4, <2>2
<1>5. CASE FinishFlat
  <2>1. /\ phase = "flatten" /\ cmd' = cmd
        /\ OfDay(book, cmd.day) = {}
    BY <1>5 DEF FinishFlat, Goto
  <2>2. phase' = "end"
    BY <1>5 DEF FinishFlat, Goto
  <2> QED BY <1>0, <1>1, <2>1, <2>2 DEF FlatOK, OfDay
<1>6. CASE \/ UNCHANGED << phase, cmd, placing, todo, failed, entry >>
           \/ \E e \in Entries : FinishClose(e)
           \/ \E e \in Entries : phase = "flatten" /\ ItemFails(e)
           \/ \E quote \in BOOLEAN : FinishQuote(quote)
  BY <1>2, <1>6 DEF FinishClose, ItemFails, FinishQuote, Loop
<1> QED BY <1>0, <1>3, <1>4, <1>5, <1>6, FinishFlow

(* A day is declared closed only when none of its positions is open in the *)
(* database, whatever the runner's book had forgotten or not yet learned,  *)
(* if at most one database call fails: the day's reading of its positions  *)
(* and the recovery's are two chances.                                     *)
THEOREM RunnerClosesFlat ==
  ASSUME MaxFaults <= 1
  PROVE  Spec => ClosesFlat
<1>1. Init => FlatInv
  BY InitTypes DEF Init, FlatInv, WatchInv, PlacingOK, BookCovers, Open, Blank, RecoveredOK,
                   Rested, FlatOK
<1>2. ASSUME FlatInv, [Next]_vars PROVE FlatInv'
  BY <1>2, WatchStep, RecoveredStep, FlatStep DEF FlatInv, WatchInv
<1>3. ASSUME FlatInv, [Next]_vars
      PROVE  [\A d \in Days : dayState[d] # "closed" /\ dayState'[d] = "closed"
                                => OfDay(Open, d)' = {}]_vars
  <2> SUFFICES ASSUME NEW d \in Days, dayState[d] # "closed", dayState'[d] = "closed"
               PROVE  OfDay(Open, d)' = {}
    OBVIOUS
  <2>1. dayState \in [Days -> DayState]
    BY <1>3 DEF FlatInv, WatchInv, TInv, TypeOK, DayTypeOK
  <2>2. phase = "end" /\ d = cmd.day /\ UNCHANGED entry
    BY <1>3, <2>1, DaySteps DEF DayStep, SetDayState, CreateDayRow, ExpireDay, dayVars
  <2> QED BY <1>3, <2>2 DEF FlatInv, FlatOK, OfDay, Open
<1> QED BY <1>1, <1>2, <1>3, PTL DEF Spec, ClosesFlat

-----------------------------------------------------------------------------
(* The honest deferral.  A copy enters the book when its position is open  *)
(* and leaves it in the transaction that closes the position.  The one way *)
(* in for a stale copy is a recovery that read it before the cycle closed  *)
(* it and merges it afterwards: ghosts.                                    *)

HonestBook == book \subseteq Open \cup ghosts

DeferOK ==
  /\ phase = "flatten" => /\ todo \subseteq OfDay(book, cmd.day)
                          /\ failed => OfDay(book, cmd.day) \ todo # {}
  /\ phase = "defer" => OfDay(Open \cup ghosts, cmd.day) # {}

HonestInv == TInv /\ PlacingOK /\ HonestBook /\ DeferOK

(* A position stays open unless it is closed here and now.                 *)
LEMMA OpenKept ==
  ASSUME TInv, PlacingOK, FlowStep, NEW e \in Open
  PROVE  e \in Open' \/ book' = book \ {e}
<1>1. e \in Entries /\ entry[e].state = "open" /\ entry[e] \in EntryRow
  BY DEF Open, TInv, TypeOK, EntryRow
<1>2. ~ Opens(e)
  BY <1>1 DEF Opens
<1> QED BY <1>1, <1>2, Moves DEF Same, Still, Closes, Traded, Open

(* A copy in the book was there before, or was read as open, or is that of *)
(* the order just filled, or is merged as a ghost.                         *)
LEMMA BookWas ==
  ASSUME FlowStep, NEW e \in book'
  PROVE  \/ e \in book \/ e \in Open \/ e \in ghosts'
         \/ e = placing /\ phase \in {"fill", "enter"} /\ \E next : Fill(next)
<1>1. CASE Handles
  <2>1. CASE \/ FinishLoad(OfDay(Open, cmd.day)) \/ FinishLoad({})
             \/ phase = "fill" /\ Fill("settle")
             \/ phase = "enter" /\ Fill("rest")
    <3>1. CASE FinishLoad(OfDay(Open, cmd.day)) \/ FinishLoad({})
      BY <3>1 DEF FinishLoad, OfDay
    <3>2. ASSUME NEW next, Fill(next) PROVE e \in book \/ e = placing
      BY <3>2 DEF Fill
    <3> QED BY <2>1, <3>1, <3>2
  <2>2. CASE \/ \E x \in book \cap Open : CloseCopy(x)
             \/ \E x \in Entries : FinishClose(x) \/ Sweep(x)
    BY <2>2 DEF FinishClose, Sweep, CloseCopy
  <2>3. CASE UNCHANGED book
    BY <2>3
  <2> QED
    BY <1>1, <2>1, <2>2, <2>3
    DEF Handles, Answers, FinishUnfilled, FinishCancel, FinishCancelled,
        FinishQuote, FinishFlat, ItemFails, CloseAll, ClosePosition, CloseList, SweepEnd, Place,
        Drop, Release, Escape, memVars
<1>2. CASE Merges \/ Turn \/ Crash
  BY <1>2 DEF Merges, Turn, Crash
<1> QED BY <1>1, <1>2 DEF FlowStep

LEMMA HonestBookStep == ASSUME HonestInv, FlowStep PROVE HonestBook'
<1> SUFFICES ASSUME NEW e \in book' PROVE e \in Open' \cup ghosts'
  BY DEF HonestBook
<1>0. TInv /\ PlacingOK /\ book \subseteq Open \cup ghosts /\ ~ Crash
  BY DEF HonestInv, HonestBook, Crash
<1>1. ghosts \subseteq ghosts'
  BY <1>0 DEF FlowStep, Merges, Turn
<1>2. CASE e \in Open
  BY <1>0, <1>2, OpenKept
<1>3. ASSUME NEW next, e = placing, phase \in {"fill", "enter"}, Fill(next) PROVE e \in Open'
  BY <1>0, <1>3 DEF Fill, TInv, TypeOK, Open
<1> QED BY <1>0, <1>1, <1>2, <1>3, BookWas

LEMMA DeferStep == ASSUME HonestInv, FlowStep PROVE DeferOK'
<1>0. TInv /\ PlacingOK /\ HonestBook /\ DeferOK /\ todo \subseteq Entries
  BY DEF HonestInv, TInv, TypeOK
<1>1. CASE UNCHANGED << phase, cmd, placing, todo, failed, entry >> /\ Merges
  BY <1>0, <1>1 DEF Merges, DeferOK, OfDay, Open
<1>2. ASSUME NEW e \in Entries, FinishClose(e) PROVE DeferOK'
  <2>0. entry \in [Entries -> EntryRow] /\ book \subseteq Entries
    BY <1>0 DEF TInv, TypeOK, EntryRow
  <2>1. /\ phase = "flatten" /\ phase' = "flatten" /\ cmd' = cmd /\ todo' = todo \ {e}
        /\ e \in todo /\ CloseCopy(e) /\ (failed' => failed \/ e \notin Open)
    BY <1>2 DEF FinishClose, Loop
  <2>2. /\ book' = IF e \in Open THEN book \ {e} ELSE book
        /\ \A x \in Entries : entry'[x].day = entry[x].day
    BY <2>0, <2>1 DEF CloseCopy, EntryRow
  <2>3. OfDay(book, cmd.day)' = OfDay(book, cmd.day) \cap book'
    BY <2>0, <2>1, <2>2 DEF OfDay
  <2>4. todo \subseteq OfDay(book, cmd.day) /\ (failed => OfDay(book, cmd.day) \ todo # {})
    BY <1>0, <2>1 DEF DeferOK
  <2>5. todo' \subseteq OfDay(book, cmd.day)'
    BY <2>1, <2>2, <2>3, <2>4 DEF OfDay
  <2>6. CASE failed'
    <3>1. CASE e \notin Open
      <4>1. e \in OfDay(book, cmd.day) /\ e \in book'
        BY <2>1, <2>2, <2>4, <3>1 DEF OfDay
      <4> QED BY <2>1, <2>3, <2>5, <4>1 DEF DeferOK
    <3>2. CASE e \in Open
      <4>1. PICK x \in OfDay(book, cmd.day) : x \notin todo
        BY <2>1, <2>4, <2>6, <3>2
      <4>2. x \in book' /\ x \notin todo'
        BY <2>1, <2>2, <4>1 DEF OfDay
      <4> QED BY <2>1, <2>3, <2>5, <4>1, <4>2 DEF DeferOK
    <3> QED BY <3>1, <3>2
  <2>7. CASE ~ failed'
    BY <2>1, <2>5, <2>7 DEF DeferOK
  <2> QED BY <2>6, <2>7
<1>3. ASSUME NEW e \in Entries, phase = "flatten", ItemFails(e) PROVE DeferOK'
  BY <1>0, <1>3 DEF ItemFails, Loop, memVars, DeferOK, OfDay
<1>4. ASSUME NEW S, FinishLoad(S) PROVE DeferOK'
  BY <1>4 DEF FinishLoad, Goto, DeferOK
<1>5. ASSUME NEW quote \in BOOLEAN, FinishQuote(quote), UNCHANGED ghosts PROVE DeferOK'
  <2>1. ~ failed /\ phase = "quote" /\ UNCHANGED << entry, book, failed, cmd >>
    BY <1>0, <1>5 DEF FinishQuote, Loop, memVars, TInv, CmdOK
  <2>2. CASE OfDay(book, cmd.day) = {} \/ quote
    BY <1>5, <2>1, <2>2 DEF FinishQuote, Loop, DeferOK, OfDay
  <2>3. CASE OfDay(book, cmd.day) # {} /\ ~ quote
    BY <1>0, <1>5, <2>1, <2>3 DEF FinishQuote, Loop, DeferOK, HonestBook, OfDay, Open
  <2> QED BY <2>2, <2>3
<1>6. CASE FinishFlat /\ UNCHANGED ghosts
  <2>1. /\ phase = "flatten" /\ UNCHANGED << entry, book, cmd >>
        /\ phase' \in {"defer", "end"}
        /\ phase' = "defer" => failed \/ OfDay(book, cmd.day) # {}
    BY <1>6 DEF FinishFlat, Goto, memVars
  <2> QED BY <1>0, <1>6, <2>1 DEF DeferOK, HonestBook, OfDay, Open
<1>7. CASE phase' \notin {"flatten", "defer"}
  BY <1>7 DEF DeferOK
<1> QED BY <1>0, <1>1, <1>2, <1>3, <1>4, <1>5, <1>6, <1>7, FinishFlow

(* finish_day puts a closing off only while a position of the day is open  *)
(* in the database, whether for want of a quote or because a close failed, *)
(* or while the book holds a copy that a recovery read before its position *)
(* was closed and merged after.                                            *)
THEOREM RunnerDeferralIsHonest == Spec => DeferralIsHonest
<1>1. Init => HonestInv
  BY InitTypes DEF Init, HonestInv, PlacingOK, HonestBook, DeferOK
<1>2. ASSUME HonestInv, [Next]_vars PROVE HonestInv'
  <2>1. TInv' /\ Steps
    BY <1>2, TypesStep, AllSteps DEF HonestInv
  <2> QED BY <1>2, <2>1, PlacingStep, HonestBookStep, DeferStep DEF HonestInv, Steps
<1>3. ASSUME HonestInv, [Next]_vars
      PROVE  [\A d \in Days : dayState[d] = "closing" /\ dayState'[d] = "settlement_pending"
                                => OfDay(Open \cup ghosts, d) # {}]_vars
  <2> SUFFICES ASSUME NEW d \in Days,
                      dayState[d] = "closing", dayState'[d] = "settlement_pending"
               PROVE  OfDay(Open \cup ghosts, d) # {}
    OBVIOUS
  <2>1. dayState \in [Days -> DayState]
    BY <1>3 DEF HonestInv, TInv, TypeOK, DayTypeOK
  <2>2. phase = "defer" /\ d = cmd.day
    BY <1>3, <2>1, DaySteps DEF DayStep, SetDayState, CreateDayRow, ExpireDay, dayVars
  <2> QED BY <1>3, <2>2 DEF HonestInv, DeferOK
<1> QED BY <1>1, <1>2, <1>3, PTL DEF Spec, DeferralIsHonest

-----------------------------------------------------------------------------
(* The pause.  Whoever lifts the block ends it, and while the block stands *)
(* the runner does not come to its signals.                                *)

PausedOK == paused => blocked /\ phase \notin {"signal", "enter"}

LEMMA ToEntering ==
  ASSUME TInv, FlowStep, phase' \in {"signal", "enter"}
  PROVE  UNCHANGED phase \/ ~ blocked \/ phase = "signal"
<1>0. /\ \A e \in todo : phase \in {"cancel", "flatten", "sweep"}
      /\ \A k \in batch : k.kind \in Kinds
  BY DEF TInv, TypeOK, CmdOK
<1>1. CASE Handles
  BY <1>0, <1>1
  DEF Handles, Kinds, Answers, FinishUnfilled, FinishCancel, FinishCancelled, FinishLoad,
      FinishQuote, FinishClose, FinishFlat, ItemFails, CloseAll, ClosePosition, CloseList,
      Sweep, SweepEnd, Place, Fill, Drop, Release, Escape, Goto, Loop
<1>2. CASE Turn \/ Crash
  BY <1>2 DEF Turn, Crash, Round, Rested
<1> QED BY <1>1, <1>2 DEF FlowStep

LEMMA PausedStep == ASSUME TInv, PausedOK, Steps PROVE PausedOK'
<1> SUFFICES ASSUME paused' PROVE blocked' /\ phase' \notin {"signal", "enter"}
  BY DEF PausedOK
<1>1. /\ blocked => blocked'
      /\ paused \/ (phase' = "settle" /\ blocked')
  BY DEF Steps, FlagStep
<1>2. CASE paused
  <2>1. blocked /\ phase \notin {"signal", "enter"}
    BY <1>2 DEF PausedOK
  <2> QED BY <1>1, <2>1, ToEntering DEF Steps
<1>3. CASE phase' = "settle" /\ blocked'
  BY <1>3
<1> QED BY <1>1, <1>2, <1>3

(* After pause_auto the auto account opens no position until the pause is  *)
(* lifted: by a resume_auto, the start of a day, or the end of a recovery  *)
(* -- of a restarted process, or one scheduled beside the cycle -- that    *)
(* found nothing to keep entries blocked for.                              *)
THEOREM RunnerPauseHolds == Spec => PauseHolds
<1>1. Init => WatchInv /\ PausedOK
  BY InitTypes DEF Init, WatchInv, PlacingOK, BookCovers, Open, Blank, PausedOK
<1>2. ASSUME WatchInv, PausedOK, [Next]_vars PROVE (WatchInv /\ PausedOK)'
  BY <1>2, WatchStep, PausedStep DEF WatchInv
<1>3. ASSUME WatchInv, PausedOK, [Next]_vars
      PROVE  [paused /\ paused' => OpenOn("auto")' \subseteq OpenOn("auto")]_vars
  <2> SUFFICES ASSUME paused, NEW e \in OpenOn("auto")' PROVE e \in OpenOn("auto")
    OBVIOUS
  <2>1. TInv /\ PlacingOK /\ FlowStep
    BY <1>3, WatchStep DEF WatchInv, Steps
  <2>2. e \in Open' /\ entry'[e].account = "auto"
    BY DEF OpenOn
  <2>3. ~ Opens(e)
    <3>1. phase # "enter"
      BY <1>3 DEF PausedOK
    <3>2. phase = "fill" /\ e = placing => entry[e].account = "manual"
      BY <2>1 DEF PlacingOK
    <3> QED BY <2>1, <2>2, <3>1, <3>2, OpenWas DEF Opens
  <2> QED BY <2>1, <2>2, <2>3, OpenWas DEF OpenOn
<1> QED BY <1>1, <1>2, <1>3, PTL DEF Spec, PauseHolds

-----------------------------------------------------------------------------
(* A closed day runs again by a start that was left over only.  A start    *)
(* that is not loose was submitted before its day's finish, so it comes    *)
(* earlier in the queue; both are taken in that order by one pass or the   *)
(* start by an earlier one; and once taken it does not go back.            *)

Behind(k) == status[FinishKey(k.day)] # "absent"

Ordered == \A i, m \in DOMAIN queue :
             queue[m] \in Starts \ loose /\ queue[i] = FinishKey(queue[m].day) => m < i

(* A pass that holds the finish holds the starts still to be taken.        *)
Batched == /\ \A k \in batch : status[k] # "absent"
           /\ \A k \in Starts \ loose :
                FinishKey(k.day) \in batch /\ status[k] = "accepted" => k \in batch

(* The days whose finish was taken: no other start waits for them.         *)
Ends(d) == \/ dayState[d] \in {"closing", "settlement_pending", "closed"}
           \/ cmd = FinishKey(d)

StartsOver == \A k \in Starts \ loose :
                Ends(k.day) => Behind(k) /\ status[k] # "accepted" /\ k # cmd

StartInv == TInv /\ HeldOK /\ Ordered /\ Batched /\ StartsOver

LEMMA StartMoves ==
  ASSUME TInv, RowStep, NEW k \in Starts \ loose'
  PROVE  /\ k \notin loose
         /\ status'[k] = "accepted" => status[k] = "accepted" \/ ~ Behind(k)
         /\ cmd' = k => cmd = k \/ (status[k] = "accepted" /\ phase = "claim")
<1>1. /\ status \in [Keys -> RowStatus] /\ k \in Keys /\ k \in Starts
      /\ cmd \in Keys \cup {NoKey} /\ phase \in {"settle", "requeue"} => cmd \in Keys
  BY DEF TInv, TypeOK, StoreTypeOK, Starts, Handling
<1>2. k \notin loose
  BY DEF RowStep, Sends, Submit, rowVars
<1>3. ASSUME status'[k] = "accepted" PROVE status[k] = "accepted" \/ ~ Behind(k)
  <2>1. ASSUME NEW x \in Keys, Sends(x) PROVE status'[k] = status[k] \/ ~ Behind(k)
    BY <1>1, <2>1 DEF Sends, Submit, InsertRow, SetStatus, Behind
  <2>2. CASE RequeueStaleRows /\ loose' = loose \cup (Starts \cap aged)
    BY <1>1, <1>3, <2>2 DEF RequeueStaleRows
  <2>3. CASE phase = "requeue" /\ RequeueRow(cmd) /\ loose' = loose \cup (Starts \cap {cmd})
    BY <1>1, <1>3, <2>3 DEF RequeueRow, SetStatus, storeVars
  <2> QED
    BY <1>1, <1>3, <2>1, <2>2, <2>3
    DEF RowStep, rowVars, storeVars, ClaimRow, CompleteRow, AgeRow, SetStatus
<1>4. cmd' = k => cmd = k \/ (status[k] = "accepted" /\ phase = "claim")
  BY <1>1 DEF RowStep, Sends, ClaimRow
<1> QED BY <1>2, <1>3, <1>4

(* What a step leaves behind.                                              *)
LEMMA BehindStays == ASSUME TInv, RowStep, NEW k \in Starts, Behind(k) PROVE Behind(k)'
<1>1. FinishKey(k.day) \in Keys
  BY DEF Starts
<1> QED BY <1>1, RowsType DEF TInv, Behind

LEMMA OrderedStep == ASSUME StartInv, RowStep PROVE Ordered'
<1>0. /\ queue \in Seq({k \in Keys : status[k] # "absent"}) /\ Ordered /\ TInv
      /\ loose \subseteq loose'
  BY DEF StartInv, TInv, TypeOK, RowStep, Sends, Submit, rowVars
<1>1. CASE UNCHANGED queue
  BY <1>0, <1>1 DEF Ordered
<1>2. ASSUME NEW k \in Keys, Submit(k) PROVE Ordered'
  <2>1. queue' = Append(queue, k)
    BY <1>2 DEF Submit
  <2>2. /\ Len(queue) \in Nat
        /\ DOMAIN queue = 1 .. Len(queue) /\ DOMAIN queue' = 1 .. Len(queue) + 1
        /\ queue'[Len(queue) + 1] = k
        /\ \A i \in DOMAIN queue : queue'[i] = queue[i]
    BY <1>0, <2>1
  <2> SUFFICES ASSUME NEW i \in DOMAIN queue', NEW m \in DOMAIN queue',
                      queue'[m] \in Starts \ loose', queue'[i] = FinishKey(queue'[m].day)
               PROVE  m < i
    BY DEF Ordered
  <2>3. CASE i \in DOMAIN queue /\ m \in DOMAIN queue
    BY <1>0, <2>2, <2>3 DEF Ordered
  <2>4. CASE i = Len(queue) + 1
    <3>1. queue'[i].kind = "finish" /\ queue'[m].kind = "start"
      BY DEF FinishKey, Command, Starts
    <3>2. m # Len(queue) + 1
      BY <2>4, <3>1
    <3> QED BY <2>2, <2>4, <3>2
  <2>5. CASE m = Len(queue) + 1 /\ i \in DOMAIN queue
    <3>1. queue[i] \in Keys /\ status[queue[i]] # "absent"
      BY <1>0, <2>5
    <3>2. queue[i] = FinishKey(k.day) /\ k \in Starts \ loose'
      BY <2>2, <2>5
    <3> QED BY <1>2, <3>1, <3>2 DEF Submit
  <2> QED BY <2>2, <2>3, <2>4, <2>5
<1> QED BY <1>0, <1>1, <1>2 DEF RowStep, Sends, rowVars

LEMMA BatchedStep == ASSUME StartInv, RowStep, BatchStep PROVE Batched'
<1>0. TInv /\ batch \subseteq Keys /\ Batched
  BY DEF StartInv, TInv, TypeOK
<1>1. \A k \in Keys : status[k] # "absent" => status'[k] # "absent"
  BY <1>0, RowsType DEF TInv
<1>2. CASE batch' = {k \in Keys : status[k] = "accepted"} /\ UNCHANGED rowVars
  BY <1>2 DEF Batched, rowVars, Starts
<1>3. ASSUME NEW k \in Starts \ loose', FinishKey(k.day) \in batch, status'[k] = "accepted"
      PROVE  k \in batch
  <2>1. Behind(k)
    BY <1>0, <1>3 DEF Batched, Behind
  <2> QED BY <1>0, <1>3, <2>1, StartMoves DEF Batched
<1>4. CASE batch' \subseteq batch /\ \A k \in batch \ batch' : \/ status'[k] # "accepted"
                                                             \/ k \notin Starts
                                                             \/ k \in loose'
  BY <1>0, <1>1, <1>3, <1>4 DEF Batched
<1>5. CASE batch' = {}
  BY <1>5 DEF Batched
<1> QED BY <1>2, <1>4, <1>5 DEF BatchStep

(* What may become of one day row.                                         *)
LEMMA DayMoves ==
  ASSUME TInv, DayStep, NEW d \in Days
  PROVE  \/ dayState'[d] = dayState[d]
         \/ dayState[d] = "none" /\ dayState'[d] = "idle" /\ CreateDayRow(d)
         \/ /\ phase = "start" /\ d = cmd.day /\ dayState'[d] = "running"
            /\ dayState[d] # "none"
         \/ /\ phase \in {"finish", "defer", "end"} /\ d = cmd.day /\ dayState[d] # "none"
            /\ dayState'[d] \in {"closing", "settlement_pending", "closed"}
<1>1. dayState \in [Days -> DayState]
  BY DEF TInv, TypeOK, DayTypeOK
<1> QED
  BY <1>1 DEF DayStep, dayVars, CreateDayRow, SetDayState, Allowed, ExpireDay

(* A day begins to end when its finish is claimed.                         *)
LEMMA EndsBegins ==
  ASSUME TInv, RowStep, DayStep, NEW d \in Days, Ends(d)'
  PROVE  \/ Ends(d)
         \/ /\ phase = "claim" /\ FinishKey(d) \in batch /\ cmd' = FinishKey(d)
            /\ \A j \in batch : NotAfter(FinishKey(d), j)
            /\ UNCHANGED << loose, queue >> /\ ClaimRow(FinishKey(d))
<1>1. FinishKey(d) \in Keys /\ FinishKey(d) # NoKey
  OBVIOUS
<1>2. CASE cmd' = FinishKey(d)
  BY <1>1, <1>2 DEF RowStep, Sends, Ends
<1>3. CASE dayState'[d] \in {"closing", "settlement_pending", "closed"}
  <2>1. CASE phase \in {"finish", "defer", "end"} /\ d = cmd.day
    <3>1. cmd \in Keys /\ cmd.kind = "finish"
      BY <2>1 DEF TInv, TypeOK, CmdOK, Handling, InFinish
    <3> QED BY <2>1, <3>1 DEF Ends
  <2> QED BY <1>3, <2>1, DayMoves DEF Ends
<1> QED BY <1>2, <1>3 DEF Ends

LEMMA StartsOverStep == ASSUME StartInv, RowStep, DayStep PROVE StartsOver'
<1> SUFFICES ASSUME NEW k \in Starts \ loose', Ends(k.day)'
             PROVE  Behind(k)' /\ status'[k] # "accepted" /\ k # cmd'
  BY DEF StartsOver
<1>0. /\ TInv /\ k \in Starts /\ k \in Keys /\ k.day \in Days /\ k \notin loose
      /\ k.kind = "start" /\ FinishKey(k.day).kind = "finish" /\ FinishKey(k.day) \in Keys
      /\ status \in [Keys -> RowStatus]
      /\ queue \in Seq({x \in Keys : status[x] # "absent"})
  BY StartMoves DEF StartInv, Starts, FinishKey, Command, TInv, TypeOK, StoreTypeOK
<1>1. CASE Ends(k.day)
  <2>1. Behind(k) /\ status[k] # "accepted" /\ k # cmd
    BY <1>0, <1>1 DEF StartInv, StartsOver
  <2> QED BY <1>0, <2>1, StartMoves, BehindStays
<1>2. ASSUME /\ phase = "claim" /\ FinishKey(k.day) \in batch /\ cmd' = FinishKey(k.day)
             /\ \A j \in batch : NotAfter(FinishKey(k.day), j)
             /\ ClaimRow(FinishKey(k.day))
      PROVE  Behind(k)' /\ status'[k] # "accepted" /\ k # cmd'
  <2>1. k # cmd' /\ Behind(k)
    BY <1>0, <1>2 DEF ClaimRow, Behind
  <2>2. k \notin batch
    <3> SUFFICES ASSUME k \in batch PROVE FALSE
      OBVIOUS
    <3>1. PICK i, m \in DOMAIN queue : i <= m /\ queue[i] = FinishKey(k.day) /\ queue[m] = k
      BY <1>2 DEF NotAfter
    <3>2. m < i /\ i \in Nat /\ m \in Nat
      BY <1>0, <3>1 DEF StartInv, Ordered
    <3> QED BY <3>1, <3>2
  <2>3. status[k] # "accepted"
    BY <1>0, <1>2, <2>2 DEF StartInv, Batched
  <2> QED BY <1>0, <2>1, <2>3, StartMoves, BehindStays
<1> QED BY <1>0, <1>1, <1>2, EndsBegins

LEMMA StartsStep == ASSUME StartInv, [Next]_vars PROVE StartInv'
<1>1. TInv' /\ Steps
  BY TypesStep, AllSteps DEF StartInv
<1> QED
  BY <1>1, HeldStep, OrderedStep, BatchedStep, StartsOverStep DEF StartInv, Steps

LEMMA InitStarts == Init => StartInv
<1> SUFFICES ASSUME Init PROVE StartInv
  OBVIOUS
<1>1. cmd = NoKey /\ \A d \in Days : dayState[d] = "none" /\ FinishKey(d) # NoKey
  BY DEF Init, DayInit
<1>2. Ordered /\ Batched /\ HeldOK
  BY DEF Init, Ordered, Batched, HeldOK
<1>3. StartsOver
  BY <1>1 DEF StartsOver, Ends, Starts
<1> QED BY <1>2, <1>3, InitTypes DEF StartInv

(* A closed day never runs again but by a start that was left over: one    *)
(* submitted after the day's finish, put back, passed over by a claim that *)
(* failed, or released from a process that died.                           *)
THEOREM RunnerClosedNeverRuns == Spec => ClosedNeverRuns
<1>1. ASSUME StartInv, [Next]_vars
      PROVE  [\A d \in Days : dayState[d] = "closed" /\ dayState'[d] = "running"
                                => cmd \in loose]_vars
  <2> SUFFICES ASSUME NEW d \in Days, dayState[d] = "closed", dayState'[d] = "running"
               PROVE  cmd \in loose
    OBVIOUS
  <2>1. phase = "start" /\ d = cmd.day
    BY <1>1, AllSteps, DayMoves DEF StartInv, Steps
  <2>2. cmd \in Starts
    BY <1>1, <2>1 DEF StartInv, TInv, TypeOK, CmdOK, Handling, Starts
  <2> QED BY <1>1, <2>1, <2>2 DEF StartInv, StartsOver, Ends
<1> QED BY <1>1, InitStarts, StartsStep, PTL DEF Spec, ClosedNeverRuns

-----------------------------------------------------------------------------
(* The promise to the owner.  Each transaction on a day row is a step of   *)
(* TradingDays and each on a position too, each start that is left over is *)
(* one, and no step is two of these.                                       *)

Begun(d) == dayState[d] \in InFlight \cup {"closed"}

(* While finish_day works on its day, the day does not leave its end.      *)
EndingOK == phase \in InFinish => dayState[cmd.day] \in {"closing", "settlement_pending"}

(* An order is submitted for a day that has begun.                         *)
OrdersOK == /\ \A k \in reading : Begun(k.day)
            /\ \A k \in Keys : k.kind = "order" /\ status[k] # "absent" => Begun(k.day)

KeepInv == StartInv /\ FlatInv /\ EndingOK /\ OrdersOK

(* How finish_day comes to work on its day.                                *)
LEMMA EndingFlow ==
  ASSUME TInv, FlowStep, phase' \in InFinish
  PROVE  \/ phase \in InFinish /\ UNCHANGED cmd
         \/ phase = "finish" /\ SetDayState(cmd.day, "closing") /\ UNCHANGED cmd
<1>0. \A k \in batch : k.kind \in Kinds
  BY DEF TInv, TypeOK
<1>1. CASE Handles
  BY <1>0, <1>1
  DEF Handles, InFinish, Kinds, Answers, FinishUnfilled, FinishCancel, FinishCancelled,
      FinishLoad, FinishQuote, FinishClose, FinishFlat, ItemFails, CloseAll, ClosePosition,
      CloseList, Sweep, SweepEnd, Place, Fill, Drop, Release, Escape, Goto, Loop, TInv, CmdOK
<1>2. CASE Merges /\ UNCHANGED << phase, cmd >>
  BY <1>2
<1>3. CASE Turn \/ Crash
  BY <1>3 DEF Turn, Crash, Round, Rested, InFinish
<1> QED BY <1>1, <1>2, <1>3 DEF FlowStep

LEMMA EndingStep == ASSUME TInv, EndingOK, Steps PROVE EndingOK'
<1> SUFFICES ASSUME phase' \in InFinish
             PROVE  dayState'[cmd'.day] \in {"closing", "settlement_pending"}
  BY DEF EndingOK
<1>0. /\ dayState \in [Days -> DayState] /\ (phase \in Handling => cmd.day \in Days)
      /\ FlowStep /\ DayStep
  BY DEF TInv, TypeOK, DayTypeOK, Steps
<1>1. CASE phase \in InFinish /\ UNCHANGED cmd
  <2>1. /\ cmd.day \in Days /\ dayState[cmd.day] \in {"closing", "settlement_pending"}
        /\ phase \notin {"start", "finish"}
    BY <1>0, <1>1 DEF EndingOK, InFinish, Handling
  <2> QED
    BY <1>0, <1>1, <2>1 DEF DayStep, dayVars, CreateDayRow, SetDayState, ExpireDay, InFinish
<1>2. CASE phase = "finish" /\ SetDayState(cmd.day, "closing") /\ UNCHANGED cmd
  BY <1>0, <1>2 DEF SetDayState, Handling
<1> QED BY <1>0, <1>1, <1>2, EndingFlow

LEMMA OrdersStep == ASSUME TInv, OrdersOK, Steps, [Next]_vars PROVE OrdersOK'
<1>0. /\ status \in [Keys -> RowStatus] /\ reading \subseteq Keys /\ ClientsOK
      /\ dayState \in [Days -> DayState] /\ RowStep /\ DayStep
      /\ cmd \in Keys \cup {NoKey} /\ (phase \in {"settle", "requeue"} => cmd \in Keys)
      /\ aged \subseteq {x \in Keys : status[x] = "processing"}
  BY DEF TInv, TypeOK, StoreTypeOK, DayTypeOK, Handling, Steps
<1>1. ASSUME NEW d \in Days, Begun(d) PROVE Begun(d)'
  BY <1>0, <1>1, DayMoves DEF Begun, InFlight
<1>2. ASSUME NEW k \in reading' PROVE Begun(k.day)'
  <2>1. k \in Keys /\ (k \in reading \/ dayState[k.day] = "running")
    BY <1>0, <1>2, ClientsSteps DEF ClientsOK
  <2>2. k.day \in Days /\ Begun(k.day)
    BY <2>1 DEF OrdersOK, Begun, InFlight
  <2> QED BY <1>1, <2>2
<1>3. ASSUME NEW k \in Keys, k.kind = "order", status'[k] # "absent" PROVE Begun(k.day)'
  <2>1. status[k] # "absent" \/ Sends(k)
    BY <1>0, <1>3
    DEF RowStep, Sends, Submit, InsertRow, rowVars, storeVars, RequeueStaleRows, ClaimRow,
        CompleteRow, RequeueRow, AgeRow, SetStatus
  <2>2. Begun(k.day)
    BY <1>3, <2>1 DEF OrdersOK, Sends
  <2> QED BY <1>1, <2>2
<1> QED BY <1>2, <1>3 DEF OrdersOK

(* The state as TradingDays sees it.                                       *)
Seen == [d \in Days |-> DayNow(d)]
Holding == {Held(e) : e \in Open}

LEMMA SeenWrite ==
  ASSUME dayState \in [Days -> DayState], NEW d \in Days, NEW s \in DayState,
         dayState' = [dayState EXCEPT ![d] = s]
  PROVE  Seen' = [Seen EXCEPT ![d] = IF s \in {"closing", "settlement_pending"}
                                       THEN "ending" ELSE s]
BY DEF Seen, DayNow

(* A start that is left over.                                              *)
LEMMA LeftKept ==
  ASSUME TInv, RowStep, loose' # loose
  PROVE  Promised!Linger
<1>1. UNCHANGED << entry, dayVars >> /\ loose \subseteq loose' /\ loose' \subseteq Starts
  BY RowsType DEF RowStep, Sends, Submit, rowVars, TInv, RowsOK
<1>2. UNCHANGED << Seen, Holding >>
  BY <1>1 DEF Seen, Holding, DayNow, Open, Held, dayVars
<1>3. Leftover \subseteq Leftover' /\ Leftover' \subseteq Days
  BY <1>1 DEF Leftover, Starts
<1> QED BY <1>2, <1>3 DEF Promised!Linger, Seen, Holding

(* A transaction on the day rows: the positions are not touched.           *)
LEMMA DayKept ==
  ASSUME KeepInv, DayStep, UNCHANGED << entry, loose >>
  PROVE  Promised!Next \/ UNCHANGED Promised!vars
<1>0. /\ dayState \in [Days -> DayState] /\ TInv
      /\ phase \in Handling => cmd \in Keys /\ cmd.day \in Days
  BY DEF KeepInv, StartInv, TInv, TypeOK, DayTypeOK
<1>1. Holding' = Holding /\ Leftover' = Leftover
  BY DEF Holding, Open, Held, Leftover
<1>2. CASE UNCHANGED dayState
  BY <1>1, <1>2 DEF Promised!vars, DayNow, Holding
<1>3. ASSUME NEW d \in Days, CreateDayRow(d) PROVE Promised!Next
  <2>1. Seen' = [Seen EXCEPT ![d] = "idle"]
    BY <1>0, <1>3, SeenWrite DEF CreateDayRow, DayState
  <2>2. Promised!Create(d)
    BY <1>1, <1>3, <2>1 DEF Promised!Create, CreateDayRow, Seen, Holding, DayNow
  <2> QED BY <2>2 DEF Promised!Next
<1>4. CASE phase = "start" /\ SetDayState(cmd.day, "running")
  <2> DEFINE d == cmd.day
  <2>1. d \in Days /\ Seen' = [Seen EXCEPT ![d] = "running"]
    BY <1>0, <1>4, SeenWrite DEF SetDayState, DayState, InFlight, Handling
  <2>2. cmd \in Starts
    BY <1>0, <1>4 DEF TInv, CmdOK, Handling, Starts
  <2>3. dayState[d] \in {"idle", "running"} \/ d \in Leftover
    <3>1. dayState[d] # "none"
      BY <1>4 DEF SetDayState, Allowed
    <3>2. cmd \notin loose => ~ Ends(d)
      BY <2>2 DEF KeepInv, StartInv, StartsOver
    <3> QED BY <1>0, <2>1, <2>2, <3>1, <3>2 DEF Ends, DayState, InFlight, Leftover
  <2>4. CASE dayState[d] = "running"
    <3>1. Seen' = Seen
      BY <2>1, <2>4 DEF Seen, DayNow
    <3> QED BY <1>1, <3>1 DEF Promised!vars, Seen, Holding
  <2>5. CASE dayState[d] # "running"
    <3>1. Promised!Alone(d) /\ DayNow(d) # "none"
      BY <1>4, <1>0 DEF Promised!Alone, SetDayState, Allowed, Incomplete, DayNow
    <3>2. Promised!Run(d)
      BY <1>1, <2>1, <2>3, <2>5, <3>1 DEF Promised!Run, Seen, Holding, DayNow
    <3> QED BY <2>1, <3>2 DEF Promised!Next
  <2> QED BY <2>4, <2>5
<1>5. CASE phase = "finish" /\ SetDayState(cmd.day, "closing")
  <2> DEFINE d == cmd.day
  <2>1. d \in Days /\ Seen' = [Seen EXCEPT ![d] = "ending"]
    BY <1>0, <1>5, SeenWrite DEF SetDayState, DayState, InFlight, Handling
  <2>2. Promised!Alone(d) /\ DayNow(d) # "none"
    BY <1>0, <1>5 DEF Promised!Alone, SetDayState, Allowed, Incomplete, DayNow
  <2>3. Promised!Finish(d)
    BY <1>1, <2>1, <2>2 DEF Promised!Finish, Seen, Holding
  <2> QED BY <2>1, <2>3 DEF Promised!Next
<1>6. CASE phase = "defer" /\ SetDayState(cmd.day, "settlement_pending")
  <2>1. /\ cmd.day \in Days /\ dayState[cmd.day] \in {"closing", "settlement_pending"}
        /\ Seen' = [Seen EXCEPT ![cmd.day] = "ending"]
    BY <1>0, <1>6, SeenWrite
    DEF SetDayState, DayState, InFlight, Handling, KeepInv, EndingOK, InFinish
  <2>2. Seen' = Seen
    BY <2>1 DEF Seen, DayNow
  <2> QED BY <1>1, <2>2 DEF Promised!vars, Seen, Holding
<1>7. CASE phase = "end" /\ SetDayState(cmd.day, "closed")
  <2> DEFINE d == cmd.day
  <2>1. /\ d \in Days /\ dayState[d] \in {"closing", "settlement_pending"}
        /\ Seen' = [Seen EXCEPT ![d] = "closed"]
    BY <1>0, <1>7, SeenWrite
    DEF SetDayState, DayState, InFlight, Handling, KeepInv, EndingOK, InFinish
  <2>2. \A p \in Holding : p.day # d
    BY <1>7 DEF KeepInv, FlatInv, FlatOK, OfDay, Holding, Held
  <2>3. Promised!Close(d)
    BY <1>1, <2>1, <2>2 DEF Promised!Close, Seen, Holding, DayNow
  <2> QED BY <2>1, <2>3 DEF Promised!Next
<1> QED
  BY <1>2, <1>3, <1>4, <1>5, <1>6, <1>7 DEF DayStep, dayVars, ExpireDay

(* Positions are closed one at a time.                                     *)
LEMMA OneCloses ==
  ASSUME TInv, FlowStep, NEW e \in Entries, Closes(e)
  PROVE  entry' = [entry EXCEPT ![e].state = "closed"]
<1>0. /\ entry \in [Entries -> EntryRow] /\ entry'[e] # entry[e]
      /\ phase \in {"guard", "flatten", "sweep"}
      /\ \A k \in batch : k.kind \in Kinds
  BY DEF TInv, TypeOK, EntryRow, Closes
<1>1. CASE Handles
  <2>1. \E x \in Entries : CloseCopy(x)
    BY <1>0, <1>1
    DEF Handles, Answers, InFinish, FinishUnfilled, FinishCancel, FinishCancelled,
        FinishLoad, FinishQuote, FinishClose, FinishFlat, ItemFails, CloseAll, ClosePosition,
        CloseList, Sweep, SweepEnd, Place, Fill, Drop, Release, Escape, Goto, Loop, Open
  <2>2. PICK x \in Entries : CloseCopy(x)
    BY <2>1
  <2>3. x = e /\ x \in Open
    BY <1>0, <2>2 DEF CloseCopy
  <2> QED BY <2>2, <2>3 DEF CloseCopy
<1>2. CASE Merges /\ UNCHANGED entry
  BY <1>0, <1>2
<1>3. CASE Turn \/ Crash
  BY <1>0, <1>3 DEF Turn, Crash
<1> QED BY <1>1, <1>2, <1>3 DEF FlowStep

(* A transaction on the positions: one is closed, one is opened, or the    *)
(* order rows alone change.                                                *)
LEMMA HeldKept ==
  ASSUME KeepInv, FlowStep, UNCHANGED << dayState, loose >>
  PROVE  Promised!Next \/ UNCHANGED Promised!vars
<1>0. /\ TInv /\ PlacingOK /\ entry \in [Entries -> EntryRow] /\ Open \subseteq Entries
      /\ dayState \in [Days -> DayState]
      /\ phase \in Handling => cmd \in Keys /\ cmd.day \in Days
      /\ status \in [Keys -> RowStatus]
  BY DEF KeepInv, StartInv, FlatInv, WatchInv, TInv, TypeOK, DayTypeOK, StoreTypeOK, EntryRow,
         Open
<1>1. Seen' = Seen /\ Leftover' = Leftover
  BY DEF Seen, DayNow, Leftover
<1>2. \A e \in Entries : Closes(e) => e \in Open /\ e \notin Open'
  BY <1>0 DEF Closes, Open, EntryRow
<1>3. \A e \in Open : ~ Closes(e) => e \in Open' /\ Held(e)' = Held(e)
  BY <1>0, Moves DEF Same, Still, Traded, Open, Opens, Held
<1>4. \A e \in Open' : e \in Open \/ Opens(e)
  BY <1>0, OpenWas
<1>5. ASSUME NEW e \in Entries, Closes(e) PROVE Promised!Next
  <2>1. \A x \in Entries : Closes(x) => x = e
    BY <1>0, <1>5, OneCloses DEF Closes, EntryRow
  <2>2. \A x \in Open' : ~ Opens(x)
    BY <1>5 DEF Closes, Opens
  <2>3. Open' = Open \ {e}
    BY <1>0, <1>2, <1>3, <1>4, <1>5, <2>1, <2>2
  <2>4. Holding' = Holding \ {Held(e)}
    <3>1. \A x \in Open : x # e => Held(x)' = Held(x)
      BY <1>0, <1>3, <2>1
    <3>2. \A x, y \in Open : Held(x) = Held(y) => x = y
      BY DEF Held
    <3>3. e \in Open
      BY <1>2, <1>5
    <3>4. Holding' = {Held(x)' : x \in Open'}
      BY DEF Holding
    <3> QED BY <2>3, <3>1, <3>2, <3>3, <3>4 DEF Holding
  <2>5. Held(e) \in Holding
    BY <1>2, <1>5 DEF Holding
  <2>6. Promised!Leave(Held(e))
    BY <1>1, <2>4 DEF Promised!Leave, Seen, Holding
  <2> QED BY <2>5, <2>6 DEF Promised!Next, Holding
<1>6. ASSUME NEW e \in Entries, Opens(e) PROVE Promised!Next
  <2>1. \A x \in Entries : ~ Closes(x)
    BY <1>6 DEF Closes, Opens
  <2>2. Open' = Open \cup {e} /\ e \notin Open
    <3>1. e \in Open' /\ e \notin Open
      BY <1>0, <1>6 DEF Opens, Open, EntryRow
    <3>2. \A x \in Open' : x \in Open \/ x = e
      BY <1>4, <1>6 DEF Opens
    <3>3. Open \subseteq Open'
      BY <1>0, <1>3, <2>1
    <3> QED BY <3>1, <3>2, <3>3
  <2>3. Held(e)' = Held(e)
    BY <1>0, <1>6 DEF Opens, Held, EntryRow
  <2>4. Holding' = Holding \cup {Held(e)}
    <3>1. Holding' = {Held(x)' : x \in Open'}
      BY DEF Holding
    <3>2. \A x \in Open : Held(x)' = Held(x)
      BY <1>0, <1>3, <2>1
    <3> QED BY <2>2, <2>3, <3>1, <3>2 DEF Holding
  <2> DEFINE d == entry[e].day
             a == entry[e].account
  <2>5. \A p \in Holding : p.id # e /\ p.account # a
    BY <1>6, <2>2 DEF Opens, OpenOn, Held, Holding
  <2>6. /\ d \in Days /\ a \in Accounts
        /\ DayNow(d) \in IF a = "auto" THEN {"running"} ELSE {"running", "ending", "closed"}
    <3>1. CASE phase = "fill"
      <4>1. d = cmd.day /\ a = "manual" /\ cmd \in Keys /\ cmd.kind = "order"
        BY <1>0, <1>6, <3>1 DEF Opens, PlacingOK, TInv, CmdOK, Handling
      <4>2. status[cmd] = "processing"
        BY <1>0, <3>1 DEF KeepInv, StartInv, HeldOK, TInv, TypeOK, Handling
      <4>3. Begun(d)
        BY <4>1, <4>2 DEF KeepInv, OrdersOK
      <4> QED BY <4>1, <4>3 DEF Begun, InFlight, DayNow, Accounts
    <3>2. CASE phase = "enter"
      <4>1. a = "auto" /\ dayState[d] = "running"
        BY <1>0, <1>6, <3>2 DEF Opens, PlacingOK
      <4>2. d \in Days
        BY <1>0, <1>6, <3>2 DEF Opens, PlacingOK
      <4> QED BY <4>1, <4>2 DEF DayNow, Accounts
    <3> QED BY <1>6, <3>1, <3>2 DEF Opens
  <2>7. Promised!Enter(e, d, a)
    BY <1>1, <2>4, <2>5, <2>6 DEF Promised!Enter, Seen, Held, Holding
  <2> QED BY <1>6, <2>6, <2>7 DEF Promised!Next
<1>7. CASE \A e \in Entries : ~ Closes(e) /\ ~ Opens(e)
  <2>1. Open' = Open /\ \A e \in Open : Held(e)' = Held(e)
    BY <1>0, <1>3, <1>4, <1>7 DEF Open
  <2> QED BY <1>1, <2>1 DEF Promised!vars, Seen
<1> QED BY <1>5, <1>6, <1>7

(* The runner keeps the promise of TradingDays, over any number of days,   *)
(* commands and crashes, however soon the process is back, if at most one  *)
(* database call fails.                                                    *)
THEOREM RunnerKeepsDays ==
  ASSUME MaxFaults <= 1
  PROVE  Spec => KeepsDays
<1>1. Init => KeepInv /\ Promised!Init
  <2> SUFFICES ASSUME Init PROVE KeepInv /\ Promised!Init
    OBVIOUS
  <2>1. Open = {} /\ phase = "rest"
    BY DEF Init, Open, Blank
  <2>2. FlatInv
    BY <2>1, InitTypes
    DEF Init, FlatInv, WatchInv, PlacingOK, BookCovers, RecoveredOK, Rested, FlatOK
  <2>3. EndingOK /\ OrdersOK
    BY DEF Init, StoreInit, EndingOK, InFinish, OrdersOK
  <2>4. Promised!Init
    BY <2>1 DEF Init, DayInit, Promised!Init, DayNow, Leftover
  <2> QED BY <2>2, <2>3, <2>4, InitStarts DEF KeepInv
<1>2. KeepInv /\ [Next]_vars => KeepInv'
  <2> SUFFICES ASSUME KeepInv, [Next]_vars PROVE KeepInv'
    OBVIOUS
  <2>0. TInv /\ HeldOK /\ WatchInv /\ RecoveredOK /\ Steps
    BY AllSteps DEF KeepInv, FlatInv, StartInv
  <2>1. StartInv'
    BY StartsStep DEF KeepInv
  <2>2. FlatInv'
    BY <2>0, WatchStep, RecoveredStep, FlatStep DEF KeepInv, FlatInv
  <2>3. EndingOK' /\ OrdersOK'
    BY <2>0, EndingStep, OrdersStep DEF KeepInv
  <2> QED BY <2>1, <2>2, <2>3 DEF KeepInv
<1>3. KeepInv /\ [Next]_vars => [Promised!Next]_(Promised!vars)
  <2> SUFFICES ASSUME KeepInv, [Next]_vars
               PROVE  Promised!Next \/ UNCHANGED Promised!vars
    OBVIOUS
  <2>1. TInv /\ RowStep /\ DayStep /\ FlowStep
    BY AllSteps DEF KeepInv, StartInv, Steps
  <2>2. CASE loose' # loose
    BY <2>1, <2>2, LeftKept DEF Promised!Next
  <2>3. CASE loose' = loose
    <3>1. UNCHANGED entry \/ UNCHANGED dayState
      BY <2>1 DEF DayStep, dayVars, ExpireDay
    <3> QED BY <2>1, <2>3, <3>1, DayKept, HeldKept
  <2> QED BY <2>2, <2>3
<1> QED BY <1>1, <1>2, <1>3, PTL DEF Spec, KeepsDays, Promised!Spec
=============================================================================
