-------------------------- MODULE DayControl_proofs --------------------------
(***************************************************************************)
(* Cards, taps and the runner for any number of cards, concurrent taps,    *)
(* limits, days, crashes and failed writes.                                *)
(***************************************************************************)
EXTENDS DayControl, TLAPS

USE LastDayAssumption, ControlAssumption, ChangesAssumption

\* Days follow one another, and at most one is active: a new one is created
\* when all before it are closed, and a closed one becomes active again only
\* while no other is.
DayOrder ==
  \A c, d \in Days :
    /\ c < d /\ dayState[d] # "none" => dayState[c] # "none"
    /\ c \in Incomplete /\ d \in Incomplete => c = d

\* Until its verdict is recorded, the row in the runner's hands is processing.
Held == phase \in {"execute", "verdict"} => status[cmd] = "processing"

\* What the runner knows about the limits card in its hands.
VerdictFits ==
  cmd # NoKey /\ card[cmd].kind = "limits" =>
    /\ phase = "execute" /\ cmd \notin released => written[cmd] = 0
    /\ phase = "verdict" /\ verdict = "completed" => written[cmd] > 0
    /\ phase = "verdict" /\ verdict = "failed" /\ cmd \notin released =>
         written[cmd] = 0 \/ (cmd \in unheard /\ written[cmd] = 1)
    /\ phase = "settle" /\ status[cmd] = "processing" => cmd \in unsaid
    /\ phase # "requeue"

\* A call is about a card, and names a day once it has read one.  On an
\* order's card it has checked the limits of the card's own day, unless that
\* day is over, in which case it will not be accepted, or was over once.
CallFits(call) ==
  LET d == card[call.key].day IN
  call.step # "idle" =>
    /\ card[call.key] # NoCard
    /\ call.step = "insert" => call.day \in Days
    /\ card[call.key].kind = "deal" =>
         /\ dayState[d] # "none"
         /\ call.step = "submit" =>
              call.gate = d \/ dayState[d] = "closed" \/ d \in reopened
         /\ call.step = "insert" =>
              call.day = d /\ (call.gate = d \/ d \in reopened)

CallsFit == \A t \in Taps : CallFits(tap[t])

\* Nothing is stored for a card that no command row exists for.
Unwritten == \A c \in Keys : status[c] = "absent" => written[c] = 0

IInv ==
  /\ TypeOK /\ DayOrder /\ Unwritten /\ Held /\ VerdictFits /\ VerdictIsTrue
  /\ CallsFit /\ OrderKeepsItsDay

-----------------------------------------------------------------------------
(* The values a card may carry.                                            *)

LEMMA PartialFits ==
  /\ Empty \in Partial
  /\ DOMAIN Empty = {}
  /\ \A S \in SUBSET Fields : [S -> Values] \subseteq Partial
  /\ \A w \in Partial : DOMAIN w \subseteq Fields /\ \A f \in DOMAIN w : w[f] \in Values
<1>1. Empty \in [{} -> Values] /\ DOMAIN Empty = {}
  BY DEF Empty
<1>2. \A S \in SUBSET Fields : [S -> Values] \subseteq Partial
  BY DEF Partial
<1>3. Empty \in Partial
  BY <1>1, <1>2
<1>4. ASSUME NEW w \in Partial
      PROVE  DOMAIN w \subseteq Fields /\ \A f \in DOMAIN w : w[f] \in Values
  BY DEF Partial
<1> QED BY <1>1, <1>2, <1>3, <1>4

\* Blank cards and calls at rest are told apart from all others.
LEMMA Blanks == /\ NoCard \notin Cards /\ NoCard.kind = "none"
                /\ AtRest \notin Calls /\ AtRest.step = "idle"
                /\ DOMAIN NoCard.shown = DOMAIN NoCard.want
BY DEF NoCard, Cards, Kinds, AtRest, Calls, Empty

\* The limits merged into a snapshot are limits.
LEMMA MergedFits ==
  ASSUME NEW old \in [Fields -> Values], NEW want \in Partial
  PROVE  Merged(old, want) \in [Fields -> Values]
BY PartialFits DEF Merged

-----------------------------------------------------------------------------
LEMMA InitOK == Init => IInv
<1> SUFFICES ASSUME Init PROVE IInv
  OBVIOUS
<1> USE DEF Init
<1>1. TypeOK
  <2>1. 1 \in Values /\ MaxValue \in Values
    BY DEF Values
  <2>2. StoreTypeOK /\ DayTypeOK
    BY DEF StoreTypeOK, StoreInit, DayTypeOK, DayInit, RowStatus, DayState
  <2>3. \A c \in Keys : status[c] = "absent" /\ card[c] = NoCard
    BY DEF StoreInit
  <2>4. tap \in [Taps -> Calls \cup {AtRest}] /\ \A t \in Taps : tap[t].step = "idle"
    BY Blanks
  <2>5. \A c \in Keys : DOMAIN card[c].shown = DOMAIN card[c].want
    BY <2>3, Blanks
  <2> QED BY <2>1, <2>2, <2>3, <2>4, <2>5 DEF TypeOK, Default, NoRow
<1>2. DayOrder /\ Unwritten /\ Held /\ VerdictFits
  BY DEF DayOrder, Incomplete, DayInit, Unwritten, Held, VerdictFits
<1>3. VerdictIsTrue /\ OrderKeepsItsDay /\ CallsFit
  BY Blanks DEF VerdictIsTrue, OrderKeepsItsDay, CallsFit, CallFits, StoreInit
<1> QED BY <1>1, <1>2, <1>3 DEF IInv

-----------------------------------------------------------------------------
(* A new card.                                                             *)

LEMMA ShowOK ==
  ASSUME IInv, NEW c \in Keys, NEW shown \in Cards, Show(c, shown),
         DOMAIN shown.shown = DOMAIN shown.want
  PROVE  IInv'
<1> USE DEF IInv, Show, storeRows, dayVars, runnerVars, history
<1>1. \A k \in Keys : card'[k] = IF k = c THEN shown ELSE card[k]
  BY DEF TypeOK
<1>2. \A k \in Keys : card[k] # NoCard => card'[k] = card[k]
  BY <1>1
<1>3. card[c] = NoCard /\ status[c] = "absent" /\ written[c] = 0
  BY DEF TypeOK, Unwritten
<1>4. TypeOK'
  <2>1. card' \in [Keys -> Cards \cup {NoCard}]
    BY DEF TypeOK
  <2>2. \A k \in Keys : DOMAIN card'[k].shown = DOMAIN card'[k].want
    BY <1>1 DEF TypeOK
  <2>3. \A t \in Taps : tap'[t].step # "idle" => card'[tap'[t].key] # NoCard
    BY <1>1, Blanks DEF TypeOK
  <2>4. \A k \in Keys : status'[k] # "absent" => card'[k] # NoCard /\ row'[k].day \in Days
    BY <1>2 DEF TypeOK
  <2> QED BY <2>1, <2>2, <2>3, <2>4 DEF TypeOK, StoreTypeOK, DayTypeOK
<1>5. DayOrder' /\ Unwritten' /\ Held'
  BY DEF DayOrder, Incomplete, Unwritten, Held
<1>6. VerdictFits'
  BY <1>2 DEF VerdictFits, TypeOK
<1>7. VerdictIsTrue'
  BY <1>1, <1>3 DEF VerdictIsTrue
<1>8. CallsFit'
  <2>1. ASSUME NEW t \in Taps, tap[t].step # "idle"
        PROVE  card'[tap[t].key] = card[tap[t].key]
    <3>1. tap[t].key \in Keys /\ card[tap[t].key] # NoCard
      BY <2>1, Blanks DEF TypeOK, Calls
    <3> QED BY <3>1, <1>2
  <2> QED BY <2>1 DEF CallsFit, CallFits
<1>9. OrderKeepsItsDay'
  BY <1>1, <1>3 DEF OrderKeepsItsDay
<1> QED BY <1>4, <1>5, <1>6, <1>7, <1>8, <1>9

-----------------------------------------------------------------------------
(* Taps.                                                                   *)

\* A call moves to another step, or ends, and writes no row.
LEMMA TapOK ==
  ASSUME IInv, NEW t \in Taps, NEW call \in Calls \cup {AtRest},
         Goto(t, call), TapOnly, UNCHANGED storeRows, CallFits(call)
  PROVE  IInv'
<1> USE DEF IInv, Goto, TapOnly, storeRows, dayVars, runnerVars, history
<1>1. \A u \in Taps : tap'[u] = IF u = t THEN call ELSE tap[u]
  BY DEF TypeOK
<1>2. TypeOK'
  <2>1. tap' \in [Taps -> Calls \cup {AtRest}]
    BY DEF TypeOK
  <2>2. \A u \in Taps : tap'[u].step # "idle" => card'[tap'[u].key] # NoCard
    BY <1>1 DEF TypeOK, CallFits
  <2> QED BY <2>1, <2>2 DEF TypeOK, StoreTypeOK, DayTypeOK
<1>3. CallsFit'
  BY <1>1 DEF CallsFit, CallFits
<1> QED
  BY <1>2, <1>3
     DEF DayOrder, Incomplete, Unwritten, Held, VerdictFits, VerdictIsTrue, OrderKeepsItsDay

\* The day of a card, of a call and of the active row, as far as they agree.
LEMMA OneActive ==
  ASSUME IInv, NEW c \in Days, NEW d \in Days, c \in Incomplete, d \in Incomplete
  PROVE  c = d
BY DEF IInv, DayOrder

LEMMA ConfirmOK ==
  ASSUME IInv, NEW t \in Taps, NEW c \in Keys, Confirm(t, c)
  PROVE  IInv'
<1> DEFINE call == [AtRest EXCEPT !.key = c,
                      !.step = IF card[c].kind = "deal" THEN "inputs" ELSE "submit"]
<1>1. call \in Calls /\ call.key = c
      /\ call.step = IF card[c].kind = "deal" THEN "inputs" ELSE "submit"
  BY DEF Calls, AtRest
<1>2. dayState[card[c].day] # "none"
  BY DEF Confirm, Incomplete
<1>3. card[c] # NoCard /\ Goto(t, call) /\ TapOnly /\ UNCHANGED storeRows
  BY DEF Confirm
<1> HIDE DEF call
<1> QED BY <1>1, <1>2, <1>3, TapOK DEF CallFits

\* A call that is under way, and the card it is about.
LEMMA UnderWay ==
  ASSUME IInv, NEW t \in Taps, tap[t].step # "idle"
  PROVE  /\ tap[t] \in Calls /\ tap[t].key \in Keys
         /\ card[tap[t].key] \in Cards /\ card[tap[t].key].day \in Days
BY Blanks DEF IInv, TypeOK, Calls, Cards

LEMMA ReadInputsOK ==
  ASSUME IInv, NEW t \in Taps, NEW d \in Days, ReadInputs(t, d)
  PROVE  IInv'
<1> DEFINE call == [tap[t] EXCEPT !.step = "submit", !.gate = d]
<1>1. tap[t].step = "inputs" /\ d \in Incomplete
      /\ Goto(t, call) /\ TapOnly /\ UNCHANGED storeRows
  BY DEF ReadInputs
<1>2. tap[t] \in Calls /\ card[tap[t].key].day \in Days /\ card[tap[t].key] # NoCard
  BY <1>1, UnderWay, Blanks
<1>3. call \in Calls /\ call.key = tap[t].key /\ call.step = "submit" /\ call.gate = d
  BY <1>2 DEF Calls
<1>4. card[tap[t].key].kind = "deal" => dayState[card[tap[t].key].day] # "none"
  BY <1>1 DEF IInv, CallsFit, CallFits
<1>5. dayState[card[tap[t].key].day] \in {"none", "closed"} \/ d = card[tap[t].key].day
  BY <1>1, <1>2, OneActive DEF Incomplete
<1> HIDE DEF call
<1> QED BY <1>1, <1>2, <1>3, <1>4, <1>5, TapOK DEF CallFits

LEMMA ReadActiveOK ==
  ASSUME IInv, NEW t \in Taps, NEW d \in Days, ReadActive(t, d)
  PROVE  IInv'
<1> DEFINE call == [tap[t] EXCEPT !.step = "insert", !.day = d]
<1>1. tap[t].step = "submit" /\ d \in Incomplete /\ Accepts(tap[t].key, d)
      /\ Goto(t, call) /\ TapOnly /\ UNCHANGED storeRows
  BY DEF ReadActive
<1>2. tap[t] \in Calls /\ card[tap[t].key] # NoCard
  BY <1>1, UnderWay, Blanks
<1>3. call \in Calls /\ call.key = tap[t].key /\ call.step = "insert"
      /\ call.gate = tap[t].gate /\ call.day = d
  BY <1>2 DEF Calls
<1>4. card[tap[t].key].kind = "deal" =>
        /\ d = card[tap[t].key].day
        /\ dayState[d] \notin {"none", "closed"}
        /\ tap[t].gate = d \/ d \in reopened
  BY <1>1 DEF Accepts, Incomplete, IInv, CallsFit, CallFits
<1> HIDE DEF call
<1> QED BY <1>1, <1>2, <1>3, <1>4, TapOK DEF CallFits

LEMMA CallEnds ==
  ASSUME IInv, NEW t \in Taps, Goto(t, AtRest), TapOnly, UNCHANGED storeRows
  PROVE  IInv'
BY TapOK, Blanks DEF CallFits

\* The one step of a tap that writes: the new row rests on the days it read.
LEMMA InsertOK ==
  ASSUME IInv, NEW t \in Taps, Insert(t)
  PROVE  IInv'
<1> DEFINE c == tap[t].key
<1> USE DEF IInv, TapOnly, dayVars, runnerVars, history
<1>1. tap[t].step = "insert" /\ status[c] = "absent"
      /\ status' = [status EXCEPT ![c] = "accepted"] /\ aged' = aged \ {c}
      /\ row' = [row EXCEPT ![c] = [day |-> tap[t].day, gate |-> tap[t].gate]]
      /\ tap' = [tap EXCEPT ![t] = AtRest]
      /\ UNCHANGED << dayState, expired, limits, card, phase, cmd, verdict,
                      written, released, unsaid, unheard, reopened, troubles >>
  BY DEF Insert, InsertRow, SetStatus, Goto
<1>2. c \in Keys /\ card[c] # NoCard /\ tap[t].day \in Days
      /\ tap[t].gate \in Days \cup {0}
  BY <1>1, UnderWay, Blanks DEF Calls, CallsFit, CallFits
<1>3. \A u \in Taps : tap'[u] = IF u = t THEN AtRest ELSE tap[u]
  BY <1>1 DEF TypeOK
<1>4. \A k \in Keys : /\ status'[k] = IF k = c THEN "accepted" ELSE status[k]
                      /\ k # c => row'[k] = row[k]
  BY <1>1 DEF TypeOK, StoreTypeOK
<1>5. row'[c].day = tap[t].day /\ row'[c].gate = tap[t].gate
  BY <1>1, <1>2 DEF TypeOK
<1>6. cmd # NoKey => cmd # c
  BY <1>1 DEF TypeOK
<1> HIDE DEF c
<1>7. TypeOK'
  <2>1. StoreTypeOK' /\ DayTypeOK'
    BY <1>1, <1>2 DEF TypeOK, StoreTypeOK, DayTypeOK, RowStatus
  <2>2. tap' \in [Taps -> Calls \cup {AtRest}]
        /\ \A u \in Taps : tap'[u].step # "idle" => card'[tap'[u].key] # NoCard
    BY <1>1, <1>3, Blanks DEF TypeOK
  <2>3. row' \in [Keys -> [day : Days \cup {0}, gate : Days \cup {0}]]
    BY <1>1, <1>2 DEF TypeOK, c
  <2>4. \A k \in Keys : status'[k] # "absent" => card'[k] # NoCard /\ row'[k].day \in Days
    BY <1>1, <1>2, <1>4, <1>5 DEF TypeOK
  <2>5. cmd' # NoKey => status'[cmd'] # "absent"
    BY <1>1, <1>4, <1>6 DEF TypeOK
  <2> QED BY <1>1, <2>1, <2>2, <2>3, <2>4, <2>5 DEF TypeOK
<1>8. DayOrder' /\ Unwritten' /\ Held' /\ VerdictFits'
  BY <1>1, <1>4, <1>6 DEF TypeOK, DayOrder, Incomplete, Unwritten, Held, VerdictFits
<1>9. VerdictIsTrue'
  BY <1>1, <1>4 DEF VerdictIsTrue, Unwritten
<1>10. CallsFit'
  BY <1>1, <1>3, Blanks DEF CallsFit, CallFits
<1>11. OrderKeepsItsDay'
  BY <1>1, <1>2, <1>4, <1>5 DEF OrderKeepsItsDay, CallsFit, CallFits, c
<1> QED BY <1>7, <1>8, <1>9, <1>10, <1>11

-----------------------------------------------------------------------------
(* The chat as a whole.                                                    *)

LEMMA ChatOK ==
  ASSUME IInv, ChatStep
  PROVE  IInv'
<1>1. ASSUME NEW c \in Keys, NEW d \in Days, NEW want \in Changes, ShowLimits(c, d, want)
      PROVE  IInv'
  <2> DEFINE old == [f \in DOMAIN want |-> limits[d][f]]
             shown == [NoCard EXCEPT !.kind = "limits", !.day = d, !.want = want,
                                     !.shown = old]
  <2>1. want \in Partial
    BY DEF Partial
  <2>2. old \in Partial
    BY <2>1, PartialFits DEF IInv, TypeOK
  <2>3. shown \in Cards /\ DOMAIN shown.shown = DOMAIN shown.want
    BY <2>1, <2>2 DEF NoCard, Cards, Kinds
  <2>4. Show(c, shown)
    BY <1>1 DEF ShowLimits
  <2> QED BY <2>3, <2>4, ShowOK
<1>2. ASSUME NEW c \in Keys, NEW d \in Days, ShowControl(c, d)
      PROVE  IInv'
  <2> DEFINE shown == [NoCard EXCEPT !.kind = "control", !.day = d]
  <2>1. shown \in Cards /\ DOMAIN shown.shown = DOMAIN shown.want
    BY PartialFits DEF NoCard, Cards, Kinds
  <2>2. Show(c, shown)
    BY <1>2 DEF ShowControl
  <2> QED BY <2>1, <2>2, ShowOK
<1>3. ASSUME NEW c \in Keys, NEW d \in Days, NEW risk \in Values, ShowDeal(c, d, risk)
      PROVE  IInv'
  <2> DEFINE shown == [NoCard EXCEPT !.kind = "deal", !.day = d, !.risk = risk]
  <2>0. risk \in Nat
    BY DEF Values
  <2>1. shown \in Cards /\ DOMAIN shown.shown = DOMAIN shown.want
    BY <2>0, PartialFits DEF NoCard, Cards, Kinds
  <2>2. Show(c, shown)
    BY <1>3 DEF ShowDeal
  <2> QED BY <2>1, <2>2, ShowOK
<1>4. ASSUME NEW t \in Taps, Replay(t) \/ Refuse(t)
      PROVE  IInv'
  BY <1>4, CallEnds DEF Replay, Refuse
<1> QED
  BY <1>1, <1>2, <1>3, <1>4, ConfirmOK, ReadInputsOK, ReadActiveOK, InsertOK DEF ChatStep

-----------------------------------------------------------------------------
(* The runner.                                                             *)

\* What it leaves alone at every step: days, cards, calls and the rows' days.
LEMMA KeptByRunner ==
  ASSUME IInv, RunnerOnly, UNCHANGED reopened
  PROVE  DayTypeOK' /\ DayOrder' /\ CallsFit'
BY DEF IInv, TypeOK, DayTypeOK, RunnerOnly, dayVars, DayOrder, Incomplete, CallsFit, CallFits

\* A row that exists keeps existing: all that an order's day depends on.
LEMMA KeptByStatus ==
  ASSUME IInv, RunnerOnly, UNCHANGED reopened, \A c \in Keys : status[c] = "absent" => status'[c] = "absent"
  PROVE  OrderKeepsItsDay' /\ \A c \in Keys : status'[c] # "absent" => card'[c] # NoCard /\ row'[c].day \in Days
BY DEF IInv, TypeOK, RunnerOnly, OrderKeepsItsDay

LEMMA ClaimOK ==
  ASSUME IInv, NEW c \in Keys, Claim(c)
  PROVE  IInv'
<1> USE DEF IInv, RunnerOnly, dayVars, history
<1>1. phase = "rest" /\ status[c] = "accepted" /\ phase' = "execute" /\ cmd' = c
      /\ status' = [status EXCEPT ![c] = "processing"] /\ aged' = aged \ {c}
      /\ RunnerOnly
      /\ UNCHANGED << dayState, expired, card, tap, row, limits, verdict,
                      written, released, unsaid, unheard, reopened, troubles >>
  BY DEF Claim, ClaimRow, SetStatus
<1>2. \A k \in Keys : status'[k] = IF k = c THEN "processing" ELSE status[k]
  BY <1>1 DEF TypeOK, StoreTypeOK
<1>3. DayTypeOK' /\ DayOrder' /\ CallsFit'
  BY <1>1, KeptByRunner
<1>4. OrderKeepsItsDay' /\ \A k \in Keys : status'[k] # "absent" => card'[k] # NoCard /\ row'[k].day \in Days
  BY <1>1, <1>2, KeptByStatus
<1>5. StoreTypeOK'
  BY <1>1 DEF TypeOK, StoreTypeOK, RowStatus
<1>6. TypeOK'
  BY <1>1, <1>2, <1>3, <1>4, <1>5 DEF TypeOK
<1>7. Unwritten' /\ VerdictIsTrue'
  BY <1>1, <1>2 DEF Unwritten, VerdictIsTrue
<1>8. Held' /\ VerdictFits'
  BY <1>1, <1>2 DEF Held, VerdictFits, VerdictIsTrue
<1> QED BY <1>3, <1>4, <1>6, <1>7, <1>8

\* The merge commits, and the handler learns of it or does not.
LEMMA StoreOK ==
  ASSUME IInv, Store \/ StoreUnheard
  PROVE  IInv'
<1> USE DEF IInv, RunnerOnly, dayVars
<1>1. /\ Commit /\ phase' = "verdict" /\ troubles' \in Nat
      /\ \/ verdict' = "completed" /\ unheard' = unheard
         \/ verdict' = "failed" /\ unheard' = unheard \cup {cmd}
  BY DEF Store, StoreUnheard, Conclude, Trouble, TypeOK
<1>2. phase = "execute" /\ card[cmd].kind = "limits" /\ RunnerOnly
      /\ limits' = [limits EXCEPT ![row[cmd].day] = Merged(@, card[cmd].want)]
      /\ written' = [written EXCEPT ![cmd] = @ + 1]
      /\ UNCHANGED << dayState, expired, card, tap, row, status, aged, cmd,
                      released, unsaid, reopened >>
  BY <1>1 DEF Commit
<1>3. cmd \in Keys /\ cmd # NoKey /\ status[cmd] = "processing"
      /\ row[cmd].day \in Days /\ card[cmd] \in Cards
      /\ (cmd \notin released => written[cmd] = 0)
  BY <1>2 DEF TypeOK, Held, VerdictFits
<1>4. card[cmd].want \in Partial
  BY <1>3 DEF Cards
<1>5. \A k \in Keys : written'[k] = IF k = cmd THEN written[k] + 1 ELSE written[k]
  BY <1>2 DEF TypeOK
<1>6. DayTypeOK' /\ DayOrder' /\ CallsFit'
  BY <1>2, KeptByRunner
<1>7. OrderKeepsItsDay'
  BY <1>2, KeptByStatus
<1>8. TypeOK'
  <2>1. limits' \in [Days -> [Fields -> Values]]
    BY <1>2, <1>3, <1>4, MergedFits DEF TypeOK
  <2>2. written' \in [Keys -> Nat] /\ unheard' \subseteq Keys
    BY <1>1, <1>2, <1>3 DEF TypeOK
  <2> QED BY <1>1, <1>2, <1>3, <1>6, <2>1, <2>2 DEF TypeOK, StoreTypeOK
<1>9. Unwritten' /\ Held'
  BY <1>1, <1>2, <1>3, <1>5 DEF Unwritten, Held
<1>10. VerdictFits'
  BY <1>1, <1>2, <1>3, <1>5 DEF VerdictFits, TypeOK
<1>11. VerdictIsTrue'
  BY <1>1, <1>2, <1>3, <1>5 DEF VerdictIsTrue, TypeOK
<1> QED BY <1>6, <1>7, <1>8, <1>9, <1>10, <1>11

\* The handler's other ends: nothing is stored and no row is written yet.
LEMMA ExecuteOK ==
  ASSUME IInv, \/ LoseSwap \/ StoreFails
               \/ \E next \in {"settle", "requeue"} : ExecuteOther(next)
  PROVE  IInv'
<1> USE DEF IInv, RunnerOnly, dayVars, history, Trouble
<1>1. /\ phase = "execute" /\ RunnerOnly
      /\ UNCHANGED << status, aged, limits, cmd, history >> /\ troubles' \in Nat
      /\ \/ card[cmd].kind = "limits" /\ phase' = "verdict" /\ verdict' = "failed"
         \/ card[cmd].kind # "limits" /\ phase' \in {"settle", "requeue"} /\ verdict' = verdict
  BY DEF LoseSwap, StoreFails, ExecuteOther, Conclude, TypeOK
<1>2. cmd \in Keys /\ cmd # NoKey /\ verdict = "none"
  BY <1>1 DEF TypeOK
<1>3. DayTypeOK' /\ DayOrder' /\ CallsFit' /\ OrderKeepsItsDay'
  BY <1>1, KeptByRunner, KeptByStatus
<1>4. TypeOK'
  BY <1>1, <1>2, <1>3 DEF TypeOK, StoreTypeOK
<1>5. Unwritten' /\ Held' /\ VerdictIsTrue'
  BY <1>1 DEF Unwritten, Held, VerdictIsTrue
<1>6. VerdictFits'
  BY <1>1, <1>2 DEF VerdictFits
<1> QED BY <1>3, <1>4, <1>5, <1>6

LEMMA RecordVerdictOK ==
  ASSUME IInv, RecordVerdict
  PROVE  IInv'
<1> USE DEF IInv, RunnerOnly, dayVars, history
<1>1. phase = "verdict" /\ phase' = "settle" /\ verdict' = "none" /\ RunnerOnly
      /\ status' = [status EXCEPT ![cmd] = verdict] /\ aged' = aged \ {cmd}
      /\ UNCHANGED << dayState, expired, card, tap, row, limits, cmd,
                      written, released, unsaid, unheard, reopened, troubles >>
  BY DEF RecordVerdict, RecordOutcome, SetStatus
<1>2. cmd \in Keys /\ cmd # NoKey /\ status[cmd] = "processing"
      /\ verdict \in {"completed", "failed"}
  BY <1>1 DEF TypeOK, Held
<1>3. \A k \in Keys : status'[k] = IF k = cmd THEN verdict ELSE status[k]
  BY <1>1 DEF TypeOK, StoreTypeOK
<1>4. DayTypeOK' /\ DayOrder' /\ CallsFit'
  BY <1>1, KeptByRunner
<1>5. OrderKeepsItsDay' /\ \A k \in Keys : status'[k] # "absent" => card'[k] # NoCard /\ row'[k].day \in Days
  BY <1>1, <1>2, <1>3, KeptByStatus
<1>6. StoreTypeOK'
  BY <1>1, <1>2 DEF TypeOK, StoreTypeOK, RowStatus, Terminal
<1>7. TypeOK'
  BY <1>1, <1>2, <1>3, <1>4, <1>5, <1>6 DEF TypeOK
<1>8. Unwritten' /\ Held' /\ VerdictFits'
  BY <1>1, <1>2, <1>3 DEF Unwritten, Held, VerdictFits
<1>9. VerdictIsTrue'
  BY <1>1, <1>2, <1>3 DEF VerdictIsTrue, VerdictFits
<1> QED BY <1>4, <1>5, <1>7, <1>8, <1>9

LEMMA SettleOK ==
  ASSUME IInv, Settle
  PROVE  IInv'
<1> USE DEF IInv, RunnerOnly, dayVars, history
<1>1. phase = "settle" /\ phase' = "rest" /\ cmd' = NoKey /\ RunnerOnly
      /\ CompleteRow(cmd)
      /\ UNCHANGED << dayState, expired, card, tap, row, limits, verdict,
                      written, released, unsaid, unheard, reopened, troubles >>
  BY DEF Settle
<1>2. cmd \in Keys /\ cmd # NoKey
  BY <1>1 DEF TypeOK
<1>3. StoreTypeOK' /\ \A k \in Keys :
        status'[k] = IF k = cmd /\ status[k] = "processing" THEN "completed" ELSE status[k]
  BY <1>1, <1>2 DEF CompleteRow, SetStatus, storeVars, TypeOK, StoreTypeOK, RowStatus, Terminal
<1>4. DayTypeOK' /\ DayOrder' /\ CallsFit'
  BY <1>1, KeptByRunner
<1>5. OrderKeepsItsDay' /\ \A k \in Keys : status'[k] # "absent" => card'[k] # NoCard /\ row'[k].day \in Days
  BY <1>1, <1>3, KeptByStatus
<1>6. TypeOK'
  BY <1>1, <1>3, <1>4, <1>5 DEF TypeOK
<1>7. Unwritten' /\ Held' /\ VerdictFits'
  BY <1>1, <1>3 DEF Unwritten, Held, VerdictFits
<1>8. VerdictIsTrue'
  BY <1>1, <1>2, <1>3 DEF VerdictIsTrue, VerdictFits
<1> QED BY <1>4, <1>5, <1>6, <1>7, <1>8

LEMMA RequeueOK ==
  ASSUME IInv, Requeue
  PROVE  IInv'
<1> USE DEF IInv, RunnerOnly, dayVars, history
<1>1. phase = "requeue" /\ phase' = "rest" /\ cmd' = NoKey /\ RunnerOnly
      /\ RequeueRow(cmd)
      /\ UNCHANGED << dayState, expired, card, tap, row, limits, verdict,
                      written, released, unsaid, unheard, reopened, troubles >>
  BY DEF Requeue
<1>2. cmd \in Keys /\ cmd # NoKey /\ card[cmd].kind # "limits"
  BY <1>1 DEF TypeOK, VerdictFits
<1>3. StoreTypeOK' /\ \A k \in Keys :
        status'[k] = IF k = cmd /\ status[k] = "processing" THEN "accepted" ELSE status[k]
  BY <1>1, <1>2 DEF RequeueRow, SetStatus, storeVars, TypeOK, StoreTypeOK, RowStatus
<1>4. DayTypeOK' /\ DayOrder' /\ CallsFit'
  BY <1>1, KeptByRunner
<1>5. OrderKeepsItsDay' /\ \A k \in Keys : status'[k] # "absent" => card'[k] # NoCard /\ row'[k].day \in Days
  BY <1>1, <1>3, KeptByStatus
<1>6. TypeOK'
  BY <1>1, <1>3, <1>4, <1>5 DEF TypeOK
<1>7. Unwritten' /\ Held' /\ VerdictFits'
  BY <1>1, <1>3 DEF Unwritten, Held, VerdictFits
<1>8. VerdictIsTrue'
  BY <1>1, <1>2, <1>3 DEF VerdictIsTrue
<1> QED BY <1>4, <1>5, <1>6, <1>7, <1>8

\* A write that fails, or the death of the process: no row changes.
LEMMA TroubleOK ==
  ASSUME IInv, RecordVerdictFails \/ SettleFails \/ Crash
  PROVE  IInv'
<1> USE DEF IInv, RunnerOnly, dayVars, history, Trouble
<1>1. /\ RunnerOnly
      /\ UNCHANGED << status, aged, limits, written, released, unheard, reopened >>
      /\ troubles' \in Nat /\ verdict' = "none"
      /\ \/ phase = "verdict" /\ phase' = "settle" /\ cmd' = cmd /\ unsaid' = unsaid \cup {cmd}
         \/ phase' \in {"rest", "down"} /\ cmd' = NoKey /\ unsaid' = unsaid
  BY DEF RecordVerdictFails, SettleFails, Crash, TypeOK
<1>2. DayTypeOK' /\ DayOrder' /\ CallsFit' /\ OrderKeepsItsDay'
  BY <1>1, KeptByRunner, KeptByStatus
<1>3. TypeOK'
  BY <1>1, <1>2 DEF TypeOK, StoreTypeOK
<1>4. Unwritten' /\ Held' /\ VerdictFits' /\ VerdictIsTrue'
  BY <1>1 DEF Unwritten, Held, VerdictFits, VerdictIsTrue
<1> QED BY <1>2, <1>3, <1>4

LEMMA RestartOK ==
  ASSUME IInv, Restart
  PROVE  IInv'
<1> USE DEF IInv, RunnerOnly, dayVars, history
<1>1. phase = "down" /\ phase' = "rest" /\ cmd = NoKey /\ RunnerOnly
      /\ status' = [k \in Keys |-> IF k \in aged THEN "accepted" ELSE status[k]]
      /\ aged' = {} /\ released' = released \cup aged
      /\ aged \subseteq {k \in Keys : status[k] = "processing"}
      /\ UNCHANGED << dayState, expired, card, tap, row, limits, cmd, verdict,
                      written, unsaid, unheard, reopened, troubles >>
  BY DEF Restart, RequeueStaleRows, TypeOK, StoreTypeOK
<1>2. DayTypeOK' /\ DayOrder' /\ CallsFit'
  BY <1>1, KeptByRunner
<1>3. OrderKeepsItsDay' /\ \A k \in Keys : status'[k] # "absent" => card'[k] # NoCard /\ row'[k].day \in Days
  BY <1>1, KeptByStatus
<1>4. StoreTypeOK'
  BY <1>1 DEF TypeOK, StoreTypeOK, RowStatus
<1>5. TypeOK'
  BY <1>1, <1>2, <1>3, <1>4 DEF TypeOK
<1>6. Unwritten' /\ Held' /\ VerdictFits' /\ VerdictIsTrue'
  BY <1>1 DEF Unwritten, Held, VerdictFits, VerdictIsTrue
<1> QED BY <1>2, <1>3, <1>5, <1>6

LEMMA RunnerOK ==
  ASSUME IInv, RunnerStep
  PROVE  IInv'
BY ClaimOK, StoreOK, ExecuteOK, RecordVerdictOK, SettleOK, RequeueOK, TroubleOK, RestartOK
   DEF RunnerStep

-----------------------------------------------------------------------------
(* Surroundings.                                                           *)

\* A day's row may be created when all before it are closed, and written over
\* when no other is active.
LEMMA DayMovesOK ==
  ASSUME IInv, DayMoves \/ DayReopens
  PROVE  IInv'
<1> USE DEF IInv, Elsewhere, runnerVars, Trouble
<1>1. Elsewhere /\ UNCHANGED << status, aged, expired >> /\ troubles' \in Nat
  BY DEF DayMoves, DayReopens, CreateDayRow, SetDayState, TypeOK
<1>2. PICK d \in Days, s \in DayState \ {"none"} :
        /\ dayState' = [dayState EXCEPT ![d] = s]
        /\ s = "closed" \/ Incomplete \subseteq {d}
        /\ \A c \in Days : c < d => dayState[c] # "none"
        /\ dayState[d] = "closed" => d \in reopened'
        /\ reopened \subseteq reopened' /\ reopened' \subseteq Days
  <2>1. CASE DayMoves
    <3>1. PICK d \in Days :
            \/ CreateDayRow(d)
            \/ /\ dayState[d] # "closed"
               /\ \E s \in {"running", "closing"} : SetDayState(d, s)
            \/ /\ dayState[d] = "closing"
               /\ \E s \in {"settlement_pending", "closed"} : SetDayState(d, s)
      BY <2>1 DEF DayMoves
    <3>2. reopened' = reopened
      BY <2>1 DEF DayMoves
    <3>3. CASE CreateDayRow(d)
      <4>1. /\ dayState[d] = "none" /\ dayState' = [dayState EXCEPT ![d] = "idle"]
            /\ \A c \in Days : c < d => dayState[c] = "closed"
        BY <3>3 DEF CreateDayRow
      <4>2. \A c \in Days : d < c => dayState[c] = "none"
        BY <4>1 DEF DayOrder
      <4>3. Incomplete \subseteq {d}
        BY <4>1, <4>2 DEF Incomplete, Days
      <4>4. "idle" \in DayState \ {"none"}
        BY DEF DayState
      <4> QED BY <3>2, <4>1, <4>3, <4>4 DEF TypeOK
    <3>4. CASE ~ CreateDayRow(d)
      <4>1. PICK s \in {"running", "closing", "settlement_pending", "closed"} :
              SetDayState(d, s) /\ dayState[d] # "closed"
        BY <3>1, <3>4
      <4>2. s \in DayState \ {"none"}
        BY DEF DayState, InFlight
      <4> QED BY <3>2, <4>1, <4>2 DEF SetDayState, Allowed, DayOrder, TypeOK
    <3> QED BY <3>3, <3>4
  <2>2. CASE DayReopens
    <3>1. PICK d \in Days, s \in {"running", "closing"} :
            SetDayState(d, s) /\ reopened' = reopened \cup {d}
      BY <2>2 DEF DayReopens
    <3>2. s \in DayState \ {"none"}
      BY DEF DayState, InFlight
    <3> QED BY <3>1, <3>2 DEF SetDayState, Allowed, DayOrder, TypeOK
  <2> QED BY <2>1, <2>2
<1>3. \A c \in Days : dayState'[c] = IF c = d THEN s ELSE dayState[c]
  BY <1>2 DEF TypeOK, DayTypeOK
<1>4. TypeOK'
  BY <1>1, <1>2 DEF TypeOK, StoreTypeOK, DayTypeOK
<1>5. DayOrder'
  <2>1. ASSUME NEW b \in Days, NEW c \in Days, b < c, dayState'[c] # "none"
        PROVE  dayState'[b] # "none"
    BY <1>2, <1>3, <2>1 DEF DayOrder
  <2>2. ASSUME NEW b \in Days, NEW c \in Days, b \in Incomplete', c \in Incomplete'
        PROVE  b = c
    <3>1. Incomplete' \subseteq IF s = "closed" THEN Incomplete \ {d} ELSE {d}
      BY <1>2, <1>3 DEF Incomplete
    <3> QED BY <2>2, <3>1 DEF DayOrder
  <2> QED BY <2>1, <2>2 DEF DayOrder
<1>6. CallsFit'
  <2>1. ASSUME NEW t \in Taps, tap[t].step # "idle"
        PROVE  CallFits(tap[t])'
    BY <1>1, <1>2, <1>3, <2>1, UnderWay DEF CallsFit, CallFits
  <2> QED BY <1>1, <2>1 DEF CallsFit, CallFits
<1>7. Unwritten' /\ Held' /\ VerdictFits' /\ VerdictIsTrue'
  BY <1>1 DEF Unwritten, Held, VerdictFits, VerdictIsTrue
<1>8. OrderKeepsItsDay'
  BY <1>1, <1>2 DEF OrderKeepsItsDay
<1> QED BY <1>4, <1>5, <1>6, <1>7, <1>8

LEMMA NextOK == IInv /\ [Next]_vars => IInv'
<1> SUFFICES ASSUME IInv, [Next]_vars PROVE IInv'
  OBVIOUS
<1>1. CASE RowAges
  <2> USE DEF IInv, Elsewhere, runnerVars, history, dayVars
  <2>1. PICK c \in Keys : AgeRow(c)
    BY <1>1 DEF RowAges
  <2>2. Elsewhere /\ UNCHANGED << status, dayState, expired, reopened, troubles >>
        /\ aged' = aged \cup {c} /\ status[c] = "processing"
    BY <1>1, <2>1 DEF RowAges, AgeRow
  <2>3. TypeOK'
    BY <2>2 DEF TypeOK, StoreTypeOK, DayTypeOK
  <2>4. DayOrder' /\ Unwritten' /\ Held' /\ VerdictFits' /\ VerdictIsTrue'
        /\ CallsFit' /\ OrderKeepsItsDay'
    BY <2>2 DEF DayOrder, Incomplete, Unwritten, Held, VerdictFits, VerdictIsTrue,
                CallsFit, CallFits, OrderKeepsItsDay
  <2> QED BY <2>3, <2>4
<1>2. CASE UNCHANGED vars
  BY <1>2 DEF IInv, vars, TypeOK, StoreTypeOK, DayTypeOK, DayOrder, Incomplete,
              Unwritten, Held, VerdictFits, VerdictIsTrue, CallsFit, CallFits, OrderKeepsItsDay
<1> QED BY <1>1, <1>2, ChatOK, RunnerOK, DayMovesOK DEF Next

LEMMA Invariance == Spec => []IInv
BY InitOK, NextOK, PTL DEF Spec

-----------------------------------------------------------------------------
(* Theorems.                                                               *)

\* What the operator is told about a limits card is what happened to the day,
\* but for a lost verdict, a lost answer to the merge and a command run again
\* after a restart, however many cards, taps, days and troubles there are.
THEOREM VerdictTrue == Spec => []VerdictIsTrue
BY Invariance, PTL DEF IInv

\* A manual order rests on the day of its card, and on that day's limits
\* unless the day was opened again, in whatever order the three reads and the
\* days' own steps fall.
THEOREM OrderDay == Spec => []OrderKeepsItsDay
BY Invariance, PTL DEF IInv

\* The limits of a day move only from what a card showed to what it asked.
THEOREM ShownIsWritten == Spec => WritesWhatWasShown
<1>1. ASSUME IInv, Next, NEW d \in Days, limits'[d] # limits[d]
      PROVE  Commit /\ row[cmd].day = d
  <2>1. limits' # limits
    BY <1>1
  <2>2. ~ ChatStep /\ ~ DayMoves /\ ~ DayReopens /\ ~ RowAges
    BY <2>1 DEF ChatStep, ShowLimits, ShowControl, ShowDeal, Show, Confirm, ReadInputs,
      ReadActive, Insert, Replay, Refuse, TapOnly, DayMoves, DayReopens,
      RowAges, Elsewhere
  <2>3. Commit
    BY <1>1, <2>1, <2>2 DEF Next, RunnerStep, Store, StoreUnheard, Claim, LoseSwap, StoreFails, ExecuteOther,
      RecordVerdict, RecordVerdictFails, Settle, Requeue, SettleFails, Crash, Restart
  <2> QED BY <1>1, <2>3 DEF Commit, IInv, TypeOK
<1>2. ASSUME IInv, Next, NEW d \in Days, limits'[d] # limits[d]
      PROVE  \E c \in Keys : Swaps(c, d)
  <2>1. Commit /\ row[cmd].day = d
    BY <1>1, <1>2
  <2>2. cmd \in Keys /\ card[cmd].kind = "limits" /\ status[cmd] = "processing"
        /\ DOMAIN card[cmd].shown = DOMAIN card[cmd].want
    BY <2>1, <1>2 DEF Commit, IInv, TypeOK, Held
  <2>3. \A f \in DOMAIN card[cmd].want : limits[d][f] = card[cmd].shown[f]
    BY <2>1, <2>2 DEF Commit, InForce
  <2>4. limits'[d] = Merged(limits[d], card[cmd].want)
    BY <2>1, <1>2 DEF Commit, IInv, TypeOK
  <2>5. \A f \in Fields : limits'[d][f] = IF f \in DOMAIN card[cmd].want
                                            THEN card[cmd].want[f] ELSE limits[d][f]
    BY <2>4 DEF Merged
  <2> QED BY <2>1, <2>2, <2>3, <2>5 DEF Swaps
<1>3. IInv /\ [Next]_vars =>
        [\A d \in Days : limits'[d] # limits[d] => \E c \in Keys : Swaps(c, d)]_vars
  BY <1>2 DEF vars
<1> QED BY <1>3, Invariance, PTL DEF Spec, WritesWhatWasShown
=============================================================================
