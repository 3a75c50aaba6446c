------------------------ MODULE TradingSession_proofs ------------------------
(***************************************************************************)
(* The safety of one session for any number of orders, plan versions,      *)
(* overlapping watch passes and operators.                                 *)
(***************************************************************************)
EXTENDS TradingSession, TLAPS

\* What the row lock protects: the columns have their types, an order not yet
\* triggered has no trade, pending orders belong to the active version, and
\* the status agrees with the open trade.
RowsOK ==
    /\ status \in Statuses
    /\ ver \in Versions
    /\ order \in [Orders -> {"unused", "planned", "triggered", "superseded"}]
    /\ issued \in [Orders -> 0..LastVersion]
    /\ opened \in [Orders -> Nat]
    /\ open \subseteq Orders

UntradedUntilTriggered ==
    \A o \in Orders : order[o] \in {"unused", "planned"} => opened[o] = 0

IInv ==
    /\ RowsOK
    /\ UntradedUntilTriggered
    /\ OneOpenTrade
    /\ TradedOnce
    /\ PendingIsActive
    /\ StatusMatchesTrades

USE SessionAssumption

\* A fresh session row satisfies the invariant.
LEMMA InitOK == Init => IInv
BY DEF Init, IInv, RowsOK, UntradedUntilTriggered, OneOpenTrade, TradedOnce,
       PendingIsActive, StatusMatchesTrades, Statuses, Versions

\* A step that writes at most the status, and neither to in_position nor to
\* cooldown, keeps the invariant.
LEMMA StatusOnly ==
    ASSUME IInv,
           UNCHANGED <<ver, order, issued, opened, open>>,
           status' = status \/ status' \in Statuses \ {"in_position", "cooldown"}
    PROVE  IInv'
BY DEF IInv, RowsOK, UntradedUntilTriggered, OneOpenTrade, TradedOnce,
       PendingIsActive, StatusMatchesTrades, Statuses

\* save_plan publishes fresh orders under version v and supersedes the rest.
LEMMA SavePlanOK ==
    ASSUME IInv, NEW v \in Versions, NEW new \in SUBSET Fresh,
           NEW cmd \in {"continue", "pause", "close_all"},
           SavePlan(v, new, cmd), UNCHANGED <<opened, open>>
    PROVE  IInv'
<1>1. /\ status' = status \/ status' \in {"paused", "idle", "armed"}
      /\ ver' = v
  BY DEF SavePlan, StatusAfterPlan
<1>2. \A o \in Orders : order'[o] = "planned" => o \in new /\ issued'[o] = v
  BY DEF SavePlan
<1>3. \A o \in Orders : order'[o] \in {"unused", "planned"}
                          => order[o] \in {"unused", "planned"}
  BY DEF SavePlan, Fresh, IInv, RowsOK
<1>4. RowsOK'
  <2>1. order' \in [Orders -> {"unused", "planned", "triggered", "superseded"}]
    BY DEF SavePlan, IInv, RowsOK
  <2>2. issued' \in [Orders -> 0..LastVersion]
    BY DEF SavePlan, IInv, RowsOK, Versions
  <2> QED BY <1>1, <2>1, <2>2 DEF IInv, RowsOK, Statuses
<1> QED
  BY <1>1, <1>2, <1>3, <1>4
  DEF IInv, RowsOK, UntradedUntilTriggered, OneOpenTrade, TradedOnce,
      PendingIsActive, StatusMatchesTrades

\* execute_exit closes the one open trade or answers that it is closed.
LEMMA ExitOK ==
    ASSUME IInv, NEW o, NEW reason, ExecuteExit(o, reason)
    PROVE  IInv'
<1>1. CASE o \notin open
  BY <1>1, StatusOnly DEF ExecuteExit, rows
<1>2. CASE o \in open
  <2>1. open' = {}
    BY <1>2 DEF ExecuteExit, IInv, OneOpenTrade
  <2>2. /\ status' \in Statuses \ {"in_position"}
        /\ UNCHANGED <<ver, order, issued, opened>>
    BY <1>2 DEF ExecuteExit, StatusAfterExit, IInv, RowsOK, Statuses
  <2> QED
    BY <2>1, <2>2 DEF IInv, RowsOK, UntradedUntilTriggered, OneOpenTrade, TradedOnce,
                      PendingIsActive, StatusMatchesTrades
<1> QED BY <1>1, <1>2

\* execute_entry's checks make its writes safe whatever the pass had read.
LEMMA EntryOK ==
    ASSUME IInv, NEW o \in Orders, CanEnter(o), ExecuteEntry(o)
    PROVE  IInv'
<1>1. /\ open = {} /\ open' = {o}
      /\ order[o] = "planned" /\ opened[o] = 0
  BY DEF CanEnter, ExecuteEntry, IInv, UntradedUntilTriggered
<1>2. RowsOK'
  BY <1>1 DEF ExecuteEntry, IInv, RowsOK, Statuses
<1>3. /\ order' = [order EXCEPT ![o] = "triggered"]
      /\ opened' = [opened EXCEPT ![o] = @ + 1]
      /\ status' = "in_position" /\ UNCHANGED <<ver, issued>>
  BY DEF ExecuteEntry
<1> QED
  BY <1>1, <1>2, <1>3
  DEF IInv, RowsOK, UntradedUntilTriggered, OneOpenTrade, TradedOnce,
      PendingIsActive, StatusMatchesTrades

\* Every step of creation keeps the invariant.
LEMMA CreationOK == ASSUME IInv, Creation PROVE IInv'
<1>1. CASE DraftPlan
  BY <1>1, SavePlanOK DEF DraftPlan, Versions
<1>2. CASE DraftFails
  BY <1>2, StatusOnly DEF DraftFails, rows
<1>3. CASE FailSession
  BY <1>3, StatusOnly DEF FailSession, Statuses
<1>4. ASSUME NEW r \in BOOLEAN, Bootstrap(r) PROVE IInv'
  BY <1>4, StatusOnly DEF Bootstrap, Statuses
<1> QED BY <1>1, <1>2, <1>3, <1>4 DEF Creation

\* Every step of a watch pass keeps the invariant.
LEMMA WatchingOK == ASSUME IInv, NEW w \in Watchers, Watching(w) PROVE IInv'
<1>1. ASSUME NEW o \in Orders, WatchEnter(w, o) PROVE IInv'
  BY <1>1, EntryOK DEF WatchEnter
<1>2. ASSUME NEW o \in Orders, NEW reason \in {"stop_loss", "take_profit", "liquidation"},
             WatchExit(w, o, reason)
      PROVE  IInv'
  BY <1>2, ExitOK DEF WatchExit
<1>3. CASE WatchTimeout(w)
  BY <1>3, ExitOK, StatusOnly DEF WatchTimeout, rows
<1>4. CASE WatchStop(w) \/ WatchResume(w) \/ WatchEnd(w)
  BY <1>4, StatusOnly DEF WatchStop, WatchResume, WatchEnd, Statuses
<1>5. CASE \/ WatchList(w) \/ WatchStart(w) \/ WatchSkip(w) \/ WatchLoad(w)
          \/ WatchNoExit(w) \/ WatchNoEntry(w) \/ WatchFails(w)
  BY <1>5, StatusOnly DEF WatchList, WatchStart, WatchSkip, WatchLoad, WatchNoExit,
       WatchNoEntry, WatchFails, rows
<1> QED BY <1>1, <1>2, <1>3, <1>4, <1>5 DEF Watching, WatchMoves

\* Every step of the revision, the commands, the closeout and the guard keeps
\* the invariant.
LEMMA RevisionOK == ASSUME IInv, Revision PROVE IInv'
<1>1. ASSUME NEW cmd \in {"continue", "pause", "close_all"}, NEW new \in SUBSET Fresh,
             RevisionSave(cmd, new)
      PROVE  IInv'
  <2>1. rev.ver + 1 \in Versions
    BY <1>1 DEF RevisionSave, SavePlan, CanRevise, IInv, RowsOK, Versions
  <2> QED BY <1>1, <2>1, SavePlanOK DEF RevisionSave
<1>2. CASE RevisionRead \/ RevisionDropped
  BY <1>2, StatusOnly DEF RevisionRead, RevisionDropped, rows
<1> QED BY <1>1, <1>2 DEF Revision

LEMMA CommandOK == ASSUME IInv, NEW a \in Actors, Command(a) PROVE IInv'
<1>1. CASE Pause(a) \/ Continue(a) \/ CloseAll(a)
  BY <1>1, StatusOnly DEF Pause, Continue, CloseAll, Statuses
<1>2. ASSUME NEW priced \in BOOLEAN, CloseRead(a, priced) PROVE IInv'
  BY <1>2, StatusOnly DEF CloseRead, rows
<1>3. CASE CloseExit(a)
  BY <1>3, ExitOK DEF CloseExit
<1>4. CASE CloseFinish(a)
  BY <1>4, StatusOnly DEF CloseFinish, Statuses
<1> QED BY <1>1, <1>2, <1>3, <1>4 DEF Command

LEMMA CloseoutOK == ASSUME IInv, Closeout PROVE IInv'
<1>1. CASE CloseoutExit
  BY <1>1, ExitOK DEF CloseoutExit
<1>2. CASE CloseoutEnd
  BY <1>2, StatusOnly DEF CloseoutEnd, Statuses
<1>3. ASSUME NEW priced \in BOOLEAN, CloseoutRead(priced) PROVE IInv'
  BY <1>3, StatusOnly DEF CloseoutRead, rows
<1> QED BY <1>1, <1>2, <1>3 DEF Closeout

LEMMA StepOK == IInv /\ [Next]_vars => IInv'
<1> SUFFICES ASSUME IInv, [Next]_vars PROVE IInv'
  OBVIOUS
<1>1. CASE StaleDataGuard
  BY <1>1, StatusOnly DEF StaleDataGuard, Statuses
<1>2. CASE Time
  BY <1>2, StatusOnly
  DEF Time, WindowEnds, PlanExpires, TradeAges, CooldownElapses, ClockStays, rows
<1>3. CASE CollectorRestart \/ WebRestart \/ CloseAllRefused
  BY <1>3, StatusOnly DEF CollectorRestart, WebRestart, CloseAllRefused, rows
<1>4. CASE UNCHANGED vars
  BY <1>4, StatusOnly DEF vars, rows
<1> QED
  BY <1>1, <1>2, <1>3, <1>4, CreationOK, RevisionOK, CloseoutOK, WatchingOK, CommandOK
  DEF Next

\* The invariant holds of every behaviour.
THEOREM Inductive == Spec => []IInv
BY InitOK, StepOK, PTL DEF Spec

\* A session never has two open trades, however many passes overlap.
THEOREM SessionOneOpenTrade == Spec => []OneOpenTrade
BY Inductive, PTL DEF IInv

\* No order is traded twice.
THEOREM SessionTradedOnce == Spec => []TradedOnce
BY Inductive, PTL DEF IInv

\* Orders of a superseded plan are never pending.
THEOREM SessionPendingIsActive == Spec => []PendingIsActive
BY Inductive, PTL DEF IInv

\* The status column agrees with the trades.
THEOREM SessionStatusMatchesTrades == Spec => []StatusMatchesTrades
BY Inductive, PTL DEF IInv

-----------------------------------------------------------------------------
(* The action properties.  While a pause holds the status is paused or the  *)
(* session has ended, and in such a state no step opens a trade; the only   *)
(* step that leaves paused without ending the session is Continue.          *)

HeldOK == held => status \in {"paused"} \cup Ended

\* What one step may do to a held and to an ended session.
Guarded ==
    /\ HeldOK => /\ HeldOK'
                 /\ held /\ held' => open' \subseteq open
    /\ status \in Ended => /\ status' \in Ended
                           /\ open' \subseteq open

\* Leaving the status, the pause and the open trades alone is guarded.
LEMMA QuietGuarded ==
    ASSUME UNCHANGED <<status, held>>, open' \subseteq open
    PROVE  Guarded
BY DEF Guarded, HeldOK

\* execute_exit keeps paused, stopped and completed.
LEMMA ExitGuarded ==
    ASSUME NEW o, NEW reason, ExecuteExit(o, reason), UNCHANGED held
    PROVE  Guarded
<1>1. CASE o \notin open
  BY <1>1, QuietGuarded DEF ExecuteExit, rows
<1>2. CASE o \in open
  BY <1>2 DEF ExecuteExit, StatusAfterExit, Guarded, HeldOK, Ended
<1> QED BY <1>1, <1>2

\* save_plan refuses an ended session and keeps a pause.
LEMMA SavePlanGuarded ==
    ASSUME NEW v, NEW new, NEW cmd \in {"continue", "pause", "close_all"},
           SavePlan(v, new, cmd), ~SessionError(status), UNCHANGED open
    PROVE  Guarded
BY DEF SavePlan, StatusAfterPlan, SessionError, Guarded, HeldOK, Ended, Terminal

LEMMA WatchGuarded == ASSUME NEW w \in Watchers, Watching(w) PROVE Guarded
<1>1. ASSUME NEW o \in Orders, WatchEnter(w, o) PROVE Guarded
  BY <1>1 DEF WatchEnter, WatchStays, CanEnter, ExecuteEntry, Guarded, HeldOK, Ended
<1>2. ASSUME NEW o \in Orders, NEW reason \in {"stop_loss", "take_profit", "liquidation"},
             WatchExit(w, o, reason)
      PROVE  Guarded
  BY <1>2, ExitGuarded DEF WatchExit, WatchStays
<1>3. CASE WatchTimeout(w)
  BY <1>3, ExitGuarded, QuietGuarded DEF WatchTimeout, WatchStays, rows
<1>4. CASE WatchStop(w) \/ WatchEnd(w)
  BY <1>4 DEF WatchStop, WatchEnd, WatchStays, Guarded, HeldOK, Ended
<1>5. CASE WatchResume(w)
  BY <1>5 DEF WatchResume, WatchStays, Guarded, HeldOK, Ended
<1>6. CASE \/ WatchList(w) \/ WatchStart(w) \/ WatchSkip(w) \/ WatchLoad(w)
          \/ WatchNoExit(w) \/ WatchNoEntry(w) \/ WatchFails(w)
  BY <1>6, QuietGuarded
  DEF WatchList, WatchStart, WatchSkip, WatchLoad, WatchNoExit, WatchNoEntry, WatchFails,
      WatchStays, rows
<1> QED BY <1>1, <1>2, <1>3, <1>4, <1>5, <1>6 DEF Watching, WatchMoves

LEMMA CreationGuarded == ASSUME Creation PROVE Guarded
<1>1. CASE DraftPlan
  BY <1>1, SavePlanGuarded DEF DraftPlan, CanDraft
<1>2. CASE DraftFails
  BY <1>2, QuietGuarded DEF DraftFails, rows
<1>3. CASE FailSession
  BY <1>3 DEF FailSession, Guarded, HeldOK, Ended
<1>4. ASSUME NEW r \in BOOLEAN, Bootstrap(r) PROVE Guarded
  BY <1>4 DEF Bootstrap, Guarded, HeldOK, Ended
<1> QED BY <1>1, <1>2, <1>3, <1>4 DEF Creation

LEMMA CommandGuarded == ASSUME NEW a \in Actors, Command(a) PROVE Guarded
<1>1. CASE Pause(a) \/ Continue(a) \/ CloseAll(a)
  BY <1>1 DEF Pause, Continue, CloseAll, PlanError, SessionError, Guarded, HeldOK, Ended, Terminal
<1>2. ASSUME NEW priced \in BOOLEAN, CloseRead(a, priced) PROVE Guarded
  BY <1>2, QuietGuarded DEF CloseRead, rows
<1>3. CASE CloseExit(a)
  BY <1>3, ExitGuarded DEF CloseExit
<1>4. CASE CloseFinish(a)
  BY <1>4 DEF CloseFinish, Guarded, HeldOK, Ended
<1> QED BY <1>1, <1>2, <1>3, <1>4 DEF Command

LEMMA StepGuarded == [Next]_vars => Guarded
<1> SUFFICES ASSUME [Next]_vars PROVE Guarded
  OBVIOUS
<1>1. CASE Revision
  <2>1. ASSUME NEW cmd \in {"continue", "pause", "close_all"}, NEW new \in SUBSET Fresh,
               RevisionSave(cmd, new)
        PROVE  Guarded
    BY <2>1, SavePlanGuarded DEF RevisionSave, CanRevise
  <2>2. CASE RevisionRead \/ RevisionDropped
    BY <2>2, QuietGuarded DEF RevisionRead, RevisionDropped, rows
  <2> QED BY <1>1, <2>1, <2>2 DEF Revision
<1>2. CASE Closeout
  <2>1. CASE CloseoutExit
    BY <2>1, ExitGuarded DEF CloseoutExit
  <2>2. CASE CloseoutEnd
    BY <2>2 DEF CloseoutEnd, Guarded, HeldOK, Ended
  <2>3. ASSUME NEW priced \in BOOLEAN, CloseoutRead(priced) PROVE Guarded
    BY <2>3, QuietGuarded DEF CloseoutRead, rows
  <2> QED BY <1>2, <2>1, <2>2, <2>3 DEF Closeout
<1>3. CASE StaleDataGuard
  BY <1>3 DEF StaleDataGuard, Guarded, HeldOK, Ended
<1>4. CASE Time
  BY <1>4, QuietGuarded
  DEF Time, WindowEnds, PlanExpires, TradeAges, CooldownElapses, ClockStays, rows
<1>5. CASE CollectorRestart \/ WebRestart \/ CloseAllRefused \/ UNCHANGED vars
  BY <1>5, QuietGuarded DEF CollectorRestart, WebRestart, CloseAllRefused, vars, rows
<1> QED
  BY <1>1, <1>2, <1>3, <1>4, <1>5, CreationGuarded, WatchGuarded, CommandGuarded DEF Next

\* A pause is lifted by an operator's continue or by the end of the session
\* only, and holds every entry back.
THEOREM SessionPauseHolds == Spec => PauseHolds
<1>1. Init => HeldOK
  BY DEF Init, HeldOK
<1>2. HeldOK /\ [Next]_vars => HeldOK'
  BY StepGuarded DEF Guarded
<1>3. HeldOK /\ [Next]_vars =>
        [held /\ held' => /\ open' \subseteq open
                          /\ status' \in {"paused"} \cup Ended]_vars
  BY StepGuarded DEF Guarded, HeldOK
<1> QED BY <1>1, <1>2, <1>3, PTL DEF Spec, PauseHolds

\* A stopped or completed session stays ended and opens no trade.
THEOREM SessionEndedStaysEnded == Spec => EndedStaysEnded
<1>1. [Next]_vars => [(status \in Ended) => /\ status' \in Ended
                                            /\ open' \subseteq open]_vars
  BY StepGuarded DEF Guarded
<1> QED BY <1>1, PTL DEF Spec, EndedStaysEnded

-----------------------------------------------------------------------------
(* What every actor has read keeps its type.  Each lemma is about the part *)
(* of the state that one kind of actor writes.                             *)

Passes    == [pc : {"off", "listed", "started", "exits", "liquidated", "resume",
                    "enter", "timeout", "end"},
              status : Statuses, ver : Versions, seen : SUBSET Orders,
              pend : SUBSET Orders]
Revisions == [pc : {"off", "model"}, status : Statuses, ver : Versions,
              pend : SUBSET Orders]
Commands  == [pc : {"off", "asked", "closing", "exits"}, seen : SUBSET Orders]
Closeouts == [pc : {"off", "exits"}, seen : SUBSET Orders, priced : BOOLEAN]

ReadsOK ==
    /\ watch \in [Watchers -> Passes]
    /\ rev \in Revisions
    /\ op \in [Actors -> Commands]
    /\ out \in Closeouts

FlagsOK ==
    /\ plans \in [Versions -> {"none", "accepted", "no_trade"}]
    /\ {stale, over, aged, cooled, held, lifted} \subseteq BOOLEAN
    /\ boot \in {"drafting", "failing", "arming", "done"}
    /\ faults \in 0..MaxFaults

\* The actors that have read nothing yet.
LEMMA OffOK ==
    /\ WatchOff \in Passes /\ RevOff \in Revisions
    /\ OpOff \in Commands /\ OutOff \in Closeouts
BY DEF WatchOff, RevOff, OpOff, OutOff, Passes, Revisions, Commands, Closeouts,
       Statuses, Versions

\* execute_exit writes booleans where there were booleans.
LEMMA ExitFlags ==
    ASSUME NEW o, NEW reason, ExecuteExit(o, reason), FlagsOK,
           UNCHANGED <<plans, stale, over, held, boot, faults>>
    PROVE  FlagsOK'
BY DEF ExecuteExit, FlagsOK, rows

\* save_plan's verdict and flags.
LEMMA SavePlanFlags ==
    ASSUME FlagsOK, NEW v \in Versions, NEW new, NEW cmd, SavePlan(v, new, cmd),
           boot' \in {"drafting", "failing", "arming", "done"},
           UNCHANGED <<over, aged, cooled, lifted, faults>>
    PROVE  FlagsOK'
BY DEF SavePlan, FlagsOK

LEMMA FlagsStep == ASSUME IInv, FlagsOK, [Next]_vars PROVE FlagsOK'
<1>1. CASE Creation
  <2>1. CASE DraftPlan
    BY <2>1, SavePlanFlags DEF DraftPlan, Versions
  <2>2. CASE DraftFails \/ FailSession \/ \E r \in BOOLEAN : Bootstrap(r)
    BY <2>2 DEF DraftFails, FailSession, Bootstrap, FlagsOK, rows, clock
  <2> QED BY <1>1, <2>1, <2>2 DEF Creation
<1>2. CASE Revision
  <2>1. ASSUME NEW cmd \in {"continue", "pause", "close_all"}, NEW new \in SUBSET Fresh,
               RevisionSave(cmd, new)
        PROVE  FlagsOK'
    <3>1. rev.ver + 1 \in Versions
      BY <2>1 DEF RevisionSave, SavePlan, CanRevise, IInv, RowsOK, Versions
    <3> QED BY <2>1, <3>1, SavePlanFlags DEF RevisionSave, FlagsOK
  <2>2. CASE RevisionRead \/ RevisionDropped
    BY <2>2 DEF RevisionRead, RevisionDropped, FlagsOK, rows, clock
  <2> QED BY <1>2, <2>1, <2>2 DEF Revision
<1>3. ASSUME NEW w \in Watchers, Watching(w) PROVE FlagsOK'
  <2>1. ASSUME NEW o \in Orders, NEW reason \in {"stop_loss", "take_profit", "liquidation"},
               WatchExit(w, o, reason)
        PROVE  FlagsOK'
    BY <2>1, ExitFlags DEF WatchExit, WatchStays, ExecuteExit, rows
  <2>2. CASE WatchTimeout(w)
    BY <2>2, ExitFlags DEF WatchTimeout, WatchStays, ExecuteExit, rows, FlagsOK
  <2>3. ASSUME NEW o \in Orders, WatchEnter(w, o) PROVE FlagsOK'
    BY <2>3 DEF WatchEnter, WatchStays, ExecuteEntry, FlagsOK
  <2>4. CASE \/ WatchList(w) \/ WatchStart(w) \/ WatchSkip(w) \/ WatchLoad(w)
             \/ WatchNoExit(w) \/ WatchStop(w) \/ WatchResume(w) \/ WatchNoEntry(w) \/ WatchEnd(w)
    BY <2>4 DEF WatchList, WatchStart, WatchSkip, WatchLoad, WatchNoExit, WatchStop, WatchResume, WatchNoEntry,
                WatchEnd, WatchStays, FlagsOK, rows
  <2>5. CASE WatchFails(w)
    BY <2>5 DEF WatchFails, FlagsOK, rows, clock
  <2> QED BY <1>3, <2>1, <2>2, <2>3, <2>4, <2>5 DEF Watching, WatchMoves
<1>4. ASSUME NEW a \in Actors, Command(a) PROVE FlagsOK'
  <2>1. CASE CloseExit(a)
    BY <2>1, ExitFlags DEF CloseExit, Rest, ExecuteExit, rows
  <2>2. CASE Pause(a) \/ Continue(a) \/ CloseAll(a) \/ CloseFinish(a)
    BY <2>2 DEF Pause, Continue, CloseAll, CloseFinish, Rest, FlagsOK
  <2>3. ASSUME NEW priced \in BOOLEAN, CloseRead(a, priced) PROVE FlagsOK'
    BY <2>3 DEF CloseRead, FlagsOK, rows, clock
  <2> QED BY <1>4, <2>1, <2>2, <2>3 DEF Command
<1>5. CASE Closeout
  <2>1. CASE CloseoutExit
    BY <2>1, ExitFlags DEF CloseoutExit, ExecuteExit, rows
  <2>2. CASE CloseoutEnd \/ \E priced \in BOOLEAN : CloseoutRead(priced)
    BY <2>2 DEF CloseoutEnd, CloseoutRead, FlagsOK, rows, clock
  <2> QED BY <1>5, <2>1, <2>2 DEF Closeout
<1>6. CASE StaleDataGuard \/ CollectorRestart \/ WebRestart \/ CloseAllRefused
           \/ UNCHANGED vars
  <2>1. CASE StaleDataGuard \/ CloseAllRefused \/ UNCHANGED vars
    BY <2>1 DEF StaleDataGuard, CloseAllRefused, FlagsOK, vars, rows, clock
  <2>2. CASE CollectorRestart
    BY <2>2 DEF CollectorRestart, FlagsOK, rows, clock
  <2>3. CASE WebRestart
    BY <2>3 DEF WebRestart, FlagsOK, rows, clock
  <2> QED BY <1>6, <2>1, <2>2, <2>3
<1>7. CASE Time
  BY <1>7 DEF Time, WindowEnds, PlanExpires, TradeAges, CooldownElapses, ClockStays,
              FlagsOK, rows
<1> QED BY <1>1, <1>2, <1>3, <1>4, <1>5, <1>6, <1>7 DEF Next

LEMMA ReadsStep == ASSUME IInv, FlagsOK, ReadsOK, [Next]_vars PROVE ReadsOK'
<1> USE DEF ReadsOK
<1>0. open \subseteq Orders /\ status \in Statuses /\ ver \in Versions
      /\ \A v \in Versions : Pending(v) \subseteq Orders
  BY DEF IInv, RowsOK, Pending
<1>1. CASE Creation
  BY <1>1 DEF Creation, DraftPlan, DraftFails, FailSession, Bootstrap
<1>2. CASE Revision
  <2>1. ASSUME NEW cmd \in {"continue", "pause", "close_all"}, NEW new \in SUBSET Fresh,
               RevisionSave(cmd, new)
        PROVE  ReadsOK'
    <3>1. op' \in [Actors -> Commands]
      BY <2>1 DEF RevisionSave, Commands
    <3> QED BY <2>1, <3>1, OffOK DEF RevisionSave
  <2>2. CASE RevisionDropped
    BY <2>2, OffOK DEF RevisionDropped
  <2>3. CASE RevisionRead
    BY <2>3, <1>0 DEF RevisionRead, Revisions
  <2> QED BY <1>2, <2>1, <2>2, <2>3 DEF Revision
<1>3. ASSUME NEW w \in Watchers, Watching(w) PROVE ReadsOK'
  <2> USE DEF WatchStays, Passes
  <2>0. CASE WatchList(w) \/ WatchSkip(w)
    BY <2>0, <1>0 DEF WatchList, WatchSkip, To
  <2>1. CASE WatchStart(w)
    BY <2>1, <1>0 DEF WatchStart, WatchOff
  <2>2. CASE WatchLoad(w)
    <3>1. watch[w] \in Passes /\ watch[w].ver \in Versions
      OBVIOUS
    <3>2. Pending(watch[w].ver) \subseteq Orders
      BY <3>1, <1>0
    <3>3. watch' \in [Watchers -> Passes]
      BY <2>2, <3>1, <3>2, <1>0 DEF WatchLoad
    <3> QED BY <2>2, <3>3 DEF WatchLoad
  <2>3. ASSUME NEW o \in Orders, NEW reason \in {"stop_loss", "take_profit", "liquidation"},
               WatchExit(w, o, reason)
        PROVE  ReadsOK'
    BY <2>3 DEF WatchExit, To
  <2>4. CASE WatchNoExit(w) \/ WatchStop(w) \/ WatchTimeout(w)
    BY <2>4 DEF WatchNoExit, WatchStop, WatchTimeout, To
  <2>5. CASE WatchResume(w)
    <3>1. PICK q \in Passes : watch' = [watch EXCEPT ![w] = q]
      <4>1. watch[w] \in Passes
        OBVIOUS
      <4>2. /\ [WatchOff EXCEPT !.pc = "enter", !.pend = watch[w].pend] \in Passes
            /\ \A pc \in {"end", "timeout"} :
                 [WatchOff EXCEPT !.pc = pc, !.seen = watch[w].seen] \in Passes
        BY <4>1, OffOK DEF Passes
      <4> HIDE DEF Passes
      <4>3. \/ watch' = [watch EXCEPT ![w] =
                            [WatchOff EXCEPT !.pc = "enter", !.pend = watch[w].pend]]
            \/ \E pc \in {"end", "timeout"} :
                 watch' = [watch EXCEPT ![w] =
                            [WatchOff EXCEPT !.pc = pc, !.seen = watch[w].seen]]
        BY <2>5 DEF WatchResume
      <4> QED BY <4>2, <4>3
    <3> QED BY <2>5, <3>1 DEF WatchResume
  <2>6. CASE WatchNoEntry(w) \/ \E o \in Orders : WatchEnter(w, o)
    BY <2>6, <1>0 DEF WatchNoEntry, WatchEnter, WatchOff, Statuses, Versions
  <2>7. CASE WatchEnd(w) \/ WatchFails(w)
    <3>1. watch' \in [Watchers -> Passes]
      BY <2>7, OffOK DEF WatchEnd, WatchFails
    <3> QED BY <2>7, <3>1 DEF WatchEnd, WatchFails
  <2> QED BY <1>3, <2>0, <2>1, <2>2, <2>3, <2>4, <2>5, <2>6, <2>7 DEF Watching, WatchMoves
<1>4. ASSUME NEW a \in Actors, Command(a) PROVE ReadsOK'
  <2> USE DEF Rest
  <2>1. CASE Pause(a) \/ Continue(a)
    BY <2>1 DEF Pause, Continue
  <2>2. CASE CloseAll(a)
    BY <2>2 DEF CloseAll, Commands
  <2>3. ASSUME NEW priced \in BOOLEAN, CloseRead(a, priced) PROVE ReadsOK'
    BY <2>3, <1>0, OffOK DEF CloseRead, Commands
  <2>4. CASE CloseExit(a)
    <3>1. op' \in [Actors -> Commands]
      BY <2>4, OffOK DEF CloseExit, Commands
    <3> QED BY <2>4, <3>1 DEF CloseExit
  <2>5. CASE CloseFinish(a)
    BY <2>5, OffOK DEF CloseFinish
  <2> QED BY <1>4, <2>1, <2>2, <2>3, <2>4, <2>5 DEF Command
<1>5. CASE Closeout
  BY <1>5, <1>0, OffOK DEF Closeout, CloseoutExit, CloseoutEnd, CloseoutRead, Closeouts
<1>6. CASE StaleDataGuard \/ CollectorRestart \/ WebRestart \/ CloseAllRefused
           \/ UNCHANGED vars
  BY <1>6, OffOK DEF StaleDataGuard, CollectorRestart, WebRestart, CloseAllRefused, vars
<1>7. CASE Time
  BY <1>7 DEF Time, WindowEnds, PlanExpires, TradeAges, CooldownElapses, ClockStays
<1> QED BY <1>1, <1>2, <1>3, <1>4, <1>5, <1>6, <1>7 DEF Next

\* Rows, flags and everything read keep their types.
TInv == IInv /\ FlagsOK /\ ReadsOK

LEMMA TypesInductive == Spec => []TInv
<1>1. Init => TInv
  <2> SUFFICES ASSUME Init PROVE TInv
    OBVIOUS
  <2>1. FlagsOK
    <3>1. faults \in 0..MaxFaults
      BY DEF Init
    <3>2. {stale, over, aged, cooled, held, lifted} \subseteq BOOLEAN
      BY DEF Init
    <3>3. plans \in [Versions -> {"none", "accepted", "no_trade"}]
          /\ boot \in {"drafting", "failing", "arming", "done"}
      BY DEF Init
    <3> QED BY <3>1, <3>2, <3>3 DEF FlagsOK
  <2>2. ReadsOK
    BY OffOK DEF Init, ReadsOK
  <2> QED BY InitOK, <2>1, <2>2 DEF TInv
<1>2. TInv /\ [Next]_vars => TInv'
  BY StepOK, FlagsStep, ReadsStep DEF TInv
<1> QED BY <1>1, <1>2, PTL DEF Spec

\* Every column, and everything an actor has read of one, keeps its type
\* through overlapping passes, revisions, commands and restarts.
THEOREM SessionTypeCorrect == Spec => []TypeOK
<1>1. TInv => TypeOK
  BY DEF TInv, IInv, RowsOK, FlagsOK, ReadsOK, TypeOK, Passes, Revisions, Commands, Closeouts
<1> QED BY <1>1, TypesInductive, PTL

-----------------------------------------------------------------------------
(* The cooldown.  From a stop loss to the end of its cooldown the status is *)
(* cooldown, or the session is paused or ended: only a continue, which      *)
(* lifts the cooldown, leads from there to armed, and an entry needs armed. *)

CooldownStands == ~cooled /\ ~lifted => status \in {"cooldown", "paused"} \cup Ended

\* What one step may do in a cooldown.
Cooling == CooldownStands => /\ CooldownStands'
                             /\ open' \subseteq open \/ cooled \/ lifted

LEMMA QuietCooling ==
    ASSUME UNCHANGED <<cooled, lifted>>, open' \subseteq open,
           status' = status \/ status' \in {"cooldown", "paused"} \cup Ended
    PROVE  Cooling
BY DEF Cooling, CooldownStands

\* A stop loss begins a cooldown; every other exit in one is of a paused or
\* ended session, because a session in cooldown has no trade.
LEMMA ExitCooling ==
    ASSUME IInv, NEW o, NEW reason, ExecuteExit(o, reason)
    PROVE  Cooling
<1>1. CASE o \notin open
  BY <1>1, QuietCooling DEF ExecuteExit, rows
<1>2. CASE o \in open
  <2>1. status # "cooldown"
    BY <1>2 DEF IInv, StatusMatchesTrades
  <2> QED
    BY <1>2, <2>1 DEF ExecuteExit, StatusAfterExit, Cooling, CooldownStands, Ended
<1> QED BY <1>1, <1>2

\* A new plan leaves a cooldown and a pause alone, or pauses.
LEMMA SavePlanCooling ==
    ASSUME NEW v, NEW new, NEW cmd \in {"continue", "pause", "close_all"},
           SavePlan(v, new, cmd), ~SessionError(status),
           UNCHANGED <<open, cooled, lifted>>
    PROVE  Cooling
BY DEF SavePlan, StatusAfterPlan, SessionError, Cooling, CooldownStands, Ended, Terminal

LEMMA WatchCooling == ASSUME IInv, NEW w \in Watchers, Watching(w) PROVE Cooling
<1>1. ASSUME NEW o \in Orders, WatchEnter(w, o) PROVE Cooling
  BY <1>1 DEF WatchEnter, CanEnter, ExecuteEntry, Cooling, CooldownStands, Ended
<1>2. ASSUME NEW o \in Orders, NEW reason \in {"stop_loss", "take_profit", "liquidation"},
             WatchExit(w, o, reason)
      PROVE  Cooling
  BY <1>2, ExitCooling DEF WatchExit
<1>3. CASE WatchTimeout(w)
  BY <1>3, ExitCooling, QuietCooling DEF WatchTimeout, rows
<1>4. CASE WatchStop(w) \/ WatchEnd(w)
  BY <1>4, QuietCooling DEF WatchStop, WatchEnd, Ended
<1>5. CASE WatchResume(w)
  BY <1>5 DEF WatchResume, Cooling, CooldownStands
<1>6. CASE \/ WatchList(w) \/ WatchStart(w) \/ WatchSkip(w) \/ WatchLoad(w)
          \/ WatchNoExit(w) \/ WatchNoEntry(w) \/ WatchFails(w)
  BY <1>6, QuietCooling
  DEF WatchList, WatchStart, WatchSkip, WatchLoad, WatchNoExit, WatchNoEntry, WatchFails,
      rows, clock
<1> QED BY <1>1, <1>2, <1>3, <1>4, <1>5, <1>6 DEF Watching, WatchMoves

LEMMA CreationCooling == ASSUME Creation PROVE Cooling
<1>1. CASE DraftPlan
  BY <1>1, SavePlanCooling DEF DraftPlan, CanDraft
<1>2. CASE DraftFails
  BY <1>2, QuietCooling DEF DraftFails, rows, clock
<1>3. CASE FailSession
  BY <1>3 DEF FailSession, clock, Cooling, CooldownStands, Ended
<1>4. ASSUME NEW r \in BOOLEAN, Bootstrap(r) PROVE Cooling
  BY <1>4 DEF Bootstrap, clock, Cooling, CooldownStands, Ended
<1> QED BY <1>1, <1>2, <1>3, <1>4 DEF Creation

LEMMA CommandCooling == ASSUME IInv, NEW a \in Actors, Command(a) PROVE Cooling
<1>1. CASE Pause(a) \/ CloseAll(a) \/ CloseFinish(a)
  BY <1>1, QuietCooling DEF Pause, CloseAll, CloseFinish, Ended
<1>2. CASE Continue(a)
  BY <1>2 DEF Continue, Cooling, CooldownStands
<1>3. ASSUME NEW priced \in BOOLEAN, CloseRead(a, priced) PROVE Cooling
  BY <1>3, QuietCooling DEF CloseRead, rows, clock
<1>4. CASE CloseExit(a)
  BY <1>4, ExitCooling DEF CloseExit
<1> QED BY <1>1, <1>2, <1>3, <1>4 DEF Command

LEMMA StepCooling == IInv /\ [Next]_vars => Cooling
<1> SUFFICES ASSUME IInv, [Next]_vars PROVE Cooling
  OBVIOUS
<1>1. CASE Revision
  <2>1. ASSUME NEW cmd \in {"continue", "pause", "close_all"}, NEW new \in SUBSET Fresh,
               RevisionSave(cmd, new)
        PROVE  Cooling
    BY <2>1, SavePlanCooling DEF RevisionSave, CanRevise
  <2>2. CASE RevisionRead \/ RevisionDropped
    BY <2>2, QuietCooling DEF RevisionRead, RevisionDropped, rows, clock
  <2> QED BY <1>1, <2>1, <2>2 DEF Revision
<1>2. CASE Closeout
  <2>1. CASE CloseoutExit
    BY <2>1, ExitCooling DEF CloseoutExit
  <2>2. CASE CloseoutEnd \/ \E priced \in BOOLEAN : CloseoutRead(priced)
    BY <2>2, QuietCooling DEF CloseoutEnd, CloseoutRead, Ended, rows, clock
  <2> QED BY <1>2, <2>1, <2>2 DEF Closeout
<1>3. CASE StaleDataGuard
  BY <1>3, QuietCooling DEF StaleDataGuard, clock
<1>4. CASE Time
  <2>1. CASE CooldownElapses
    BY <2>1 DEF CooldownElapses, ClockStays, rows, Cooling, CooldownStands
  <2>2. CASE WindowEnds \/ PlanExpires \/ TradeAges
    BY <2>2, QuietCooling DEF WindowEnds, PlanExpires, TradeAges, ClockStays, rows
  <2> QED BY <1>4, <2>1, <2>2 DEF Time
<1>5. CASE CollectorRestart \/ WebRestart \/ CloseAllRefused \/ UNCHANGED vars
  BY <1>5, QuietCooling DEF CollectorRestart, WebRestart, CloseAllRefused, vars, rows, clock
<1> QED
  BY <1>1, <1>2, <1>3, <1>4, <1>5, CreationCooling, WatchCooling, CommandCooling DEF Next

\* After a stop loss no trade opens until the cooldown has elapsed or an
\* operator has continued the session, however many passes overlap.
THEOREM SessionCooldownRespected == Spec => CooldownRespected
<1>1. Init => CooldownStands
  BY DEF Init, CooldownStands
<1>2. IInv /\ CooldownStands /\ [Next]_vars => CooldownStands'
  BY StepCooling DEF Cooling
<1>3. IInv /\ CooldownStands /\ [Next]_vars
        => [open' \subseteq open \/ cooled \/ lifted]_vars
  BY StepCooling DEF Cooling
<1> QED BY <1>1, <1>2, <1>3, Inductive, PTL DEF Spec, CooldownRespected

-----------------------------------------------------------------------------
(* A stopped session is flat when one watch pass runs at a time: the job of *)
(* the collector's scheduler never overlaps itself.  WatchStop does not     *)
(* look at the trades, so the pass that was told of a liquidation must know *)
(* that there is none: it still holds every open trade it has read.  With a *)
(* second pass, which may enter in between, it need not.                    *)

OnePass == \A v, w \in Watchers : v = w

PassKnows ==
    \A w \in Watchers :
        /\ watch[w].pc = "exits" => /\ open \subseteq watch[w].seen
                                    /\ \A o, p \in watch[w].seen : o = p
        /\ watch[w].pc = "liquidated" => open = {}

FlatInv == PassKnows /\ StoppedIsFlat

\* What keeps it: no trade opens, no pass is where its knowledge matters that
\* was not there before, and nothing is stopped beside a trade.
LEMMA QuietFlat ==
    ASSUME FlatInv, open' \subseteq open,
           \A w \in Watchers : \/ watch'[w] = watch[w]
                               \/ watch'[w].pc \notin {"exits", "liquidated"},
           status' = "stopped" => status = "stopped" \/ open' = {}
    PROVE  FlatInv'
BY DEF FlatInv, PassKnows, StoppedIsFlat

\* A closing write leaves no trade, so it may stop the session.
LEMMA ExitIsFlat ==
    ASSUME IInv, NEW o, NEW reason, ExecuteExit(o, reason)
    PROVE  /\ open' \subseteq open /\ o \notin open'
           /\ status' = "stopped" => status = "stopped" \/ open' = {}
<1>1. CASE o \notin open
  BY <1>1 DEF ExecuteExit, rows
<1>2. CASE o \in open
  BY <1>2 DEF ExecuteExit, IInv, OneOpenTrade
<1> QED BY <1>1, <1>2

\* save_plan never stops a session.
LEMMA SavePlanFlat ==
    ASSUME FlatInv, NEW v, NEW new, NEW cmd, SavePlan(v, new, cmd), UNCHANGED <<open, watch>>
    PROVE  FlatInv'
<1>1. status' = "stopped" => status = "stopped"
  BY DEF SavePlan, StatusAfterPlan
<1> QED BY <1>1, QuietFlat

LEMMA WatchFlat ==
    ASSUME OnePass, IInv, TInv, FlatInv, NEW w \in Watchers, Watching(w)
    PROVE  FlatInv'
<1>0. DOMAIN watch = Watchers /\ watch[w] \in Passes /\ \A v \in Watchers : v = w
  BY DEF TInv, ReadsOK, OnePass
<1>1. ASSUME NEW o \in Orders, WatchEnter(w, o) PROVE FlatInv'
  <2>1. watch'[w].pc = "end" /\ status' = "in_position"
    BY <1>0, <1>1 DEF WatchEnter, ExecuteEntry, WatchOff
  <2> QED BY <1>0, <2>1 DEF FlatInv, PassKnows, StoppedIsFlat
<1>2. ASSUME NEW o \in Orders, NEW reason \in {"stop_loss", "take_profit", "liquidation"},
             WatchExit(w, o, reason)
      PROVE  FlatInv'
  <2>1. /\ open' \subseteq open /\ o \notin open'
        /\ status' = "stopped" => status = "stopped" \/ open' = {}
    BY <1>2, ExitIsFlat DEF WatchExit
  <2>2. open' = {}
    BY <1>2, <2>1 DEF WatchExit, FlatInv, PassKnows
  <2>3. watch'[w].pc # "exits"
    BY <1>0, <1>2 DEF WatchExit, To
  <2> QED BY <1>0, <2>2, <2>3 DEF FlatInv, PassKnows, StoppedIsFlat
<1>3. CASE WatchLoad(w)
  <2>1. watch'[w].pc = "exits" /\ watch'[w].seen = open /\ UNCHANGED <<status, open>>
    BY <1>0, <1>3 DEF WatchLoad, rows, Passes
  <2> QED BY <1>0, <2>1 DEF FlatInv, PassKnows, StoppedIsFlat, IInv, OneOpenTrade
<1>4. CASE WatchTimeout(w)
  <2>1. /\ open' \subseteq open
        /\ status' = "stopped" => status = "stopped" \/ open' = {}
    BY <1>4, ExitIsFlat DEF WatchTimeout, rows
  <2>2. watch'[w].pc = "end"
    BY <1>0, <1>4 DEF WatchTimeout, To
  <2> QED BY <1>0, <2>1, <2>2, QuietFlat
<1>5. CASE WatchStop(w)
  <2>1. open' = {} /\ watch'[w].pc = "resume"
    BY <1>0, <1>5 DEF WatchStop, To, FlatInv, PassKnows
  <2> QED BY <1>0, <2>1, QuietFlat DEF FlatInv, PassKnows, StoppedIsFlat
<1>6. CASE WatchResume(w) \/ WatchEnd(w)
  <2>1. watch'[w].pc \in {"enter", "end", "timeout", "off"}
    <3>1. CASE WatchEnd(w)
      BY <1>0, <3>1 DEF WatchEnd, WatchOff
    <3>2. CASE WatchResume(w)
      <4>1. /\ [WatchOff EXCEPT !.pc = "enter", !.pend = watch[w].pend].pc = "enter"
            /\ \A pc : [WatchOff EXCEPT !.pc = pc, !.seen = watch[w].seen].pc = pc
        BY DEF WatchOff
      <4> QED BY <1>0, <3>2, <4>1 DEF WatchResume
    <3> QED BY <1>6, <3>1, <3>2
  <2>2. open' = open /\ (status' = "stopped" => status = "stopped")
    BY <1>6 DEF WatchResume, WatchEnd
  <2> QED BY <1>0, <2>1, <2>2, QuietFlat
<1>7. CASE \/ WatchList(w) \/ WatchStart(w) \/ WatchSkip(w)
          \/ WatchNoExit(w) \/ WatchNoEntry(w) \/ WatchFails(w)
  <2>1. watch'[w].pc \in {"listed", "started", "resume", "end", "off"}
    <3>1. CASE WatchStart(w)
      <4>1. [WatchOff EXCEPT !.pc = "started", !.status = status, !.ver = ver].pc = "started"
        BY DEF WatchOff
      <4> QED BY <1>0, <3>1, <4>1 DEF WatchStart
    <3>2. CASE WatchList(w) \/ WatchSkip(w) \/ WatchNoExit(w) \/ WatchNoEntry(w) \/ WatchFails(w)
      BY <1>0, <3>2 DEF WatchList, WatchSkip, WatchNoExit, WatchNoEntry, WatchFails, WatchOff, To, Passes
    <3> QED BY <1>7, <3>1, <3>2
  <2>2. UNCHANGED <<open, status>>
    BY <1>7 DEF WatchList, WatchStart, WatchSkip, WatchNoExit, WatchNoEntry, WatchFails, rows
  <2> QED BY <1>0, <2>1, <2>2, QuietFlat
<1> QED
  BY <1>1, <1>2, <1>3, <1>4, <1>5, <1>6, <1>7 DEF Watching, WatchMoves

LEMMA CommandFlat ==
    ASSUME IInv, FlatInv, NEW a \in Actors, Command(a)
    PROVE  FlatInv'
<1>1. CASE Pause(a) \/ Continue(a) \/ CloseAll(a) \/ CloseFinish(a)
  BY <1>1, QuietFlat DEF Pause, Continue, CloseAll, CloseFinish, Rest
<1>2. ASSUME NEW priced \in BOOLEAN, CloseRead(a, priced) PROVE FlatInv'
  BY <1>2, QuietFlat DEF CloseRead, rows
<1>3. CASE CloseExit(a)
  BY <1>3, ExitIsFlat, QuietFlat DEF CloseExit, Rest
<1> QED BY <1>1, <1>2, <1>3 DEF Command

LEMMA StepFlat == OnePass /\ IInv /\ TInv /\ FlatInv /\ [Next]_vars => FlatInv'
<1> SUFFICES ASSUME OnePass, IInv, TInv, FlatInv, [Next]_vars PROVE FlatInv'
  OBVIOUS
<1>1. CASE Creation
  <2>1. CASE DraftPlan
    BY <2>1, SavePlanFlat DEF DraftPlan
  <2>2. CASE DraftFails \/ FailSession
    BY <2>2, QuietFlat DEF DraftFails, FailSession, rows
  <2>3. ASSUME NEW r \in BOOLEAN, Bootstrap(r) PROVE FlatInv'
    BY <2>3, QuietFlat DEF Bootstrap
  <2> QED BY <1>1, <2>1, <2>2, <2>3 DEF Creation
<1>2. CASE Revision
  BY <1>2, SavePlanFlat, QuietFlat
  DEF Revision, RevisionSave, RevisionRead, RevisionDropped, rows
<1>3. CASE Closeout
  <2>1. CASE CloseoutExit
    BY <2>1, ExitIsFlat, QuietFlat DEF CloseoutExit
  <2>2. CASE CloseoutEnd \/ \E priced \in BOOLEAN : CloseoutRead(priced)
    BY <2>2, QuietFlat DEF CloseoutEnd, CloseoutRead, rows
  <2> QED BY <1>3, <2>1, <2>2 DEF Closeout
<1>4. CASE Time \/ StaleDataGuard
  BY <1>4, QuietFlat
  DEF Time, WindowEnds, PlanExpires, TradeAges, CooldownElapses, ClockStays, StaleDataGuard, rows
<1>5. CASE CollectorRestart \/ WebRestart \/ CloseAllRefused \/ UNCHANGED vars
  BY <1>5, QuietFlat
  DEF CollectorRestart, WebRestart, CloseAllRefused, WatchOff, vars, rows
<1> QED
  BY <1>1, <1>2, <1>3, <1>4, <1>5, WatchFlat, CommandFlat DEF Next

\* However a single pass, a close_all, a liquidation and the closeout
\* interleave, no trade is left open behind the status stopped.
THEOREM SessionStoppedIsFlat ==
    ASSUME OnePass
    PROVE  Spec => []StoppedIsFlat
<1>1. Init => FlatInv
  BY DEF Init, FlatInv, PassKnows, StoppedIsFlat, WatchOff
<1>2. IInv /\ TInv /\ FlatInv /\ [Next]_vars => FlatInv'
  BY StepFlat
<1>3. FlatInv => StoppedIsFlat
  BY DEF FlatInv
<1> QED BY <1>1, <1>2, <1>3, Inductive, TypesInductive, PTL DEF Spec
=============================================================================
