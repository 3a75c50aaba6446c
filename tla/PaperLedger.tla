----------------------------- MODULE PaperLedger -----------------------------
(***************************************************************************)
(* Orders, fills, positions and the append-only journal of paper_trading:  *)
(* the transactions of PaperRepository that move money, and the workers    *)
(* (runner processes) that call them on what they read earlier.            *)
(*                                                                         *)
(* Amounts are integers.  Persisted money is counted in units of           *)
(* MONEY_QUANT (1e-8); a value execution.py computed and has not passed    *)
(* through money() yet is counted in halves of that unit, so that rounding *)
(* is visible, ties included.  The journal is kept as its totals: postings *)
(* are only ever appended and only ever summed.  There is one instrument.  *)
(***************************************************************************)
EXTENDS Integers, FiniteSets

CONSTANTS Accounts, Orders, Workers,
          Deposits,        \* opening deposits, in units
          Margins,         \* isolated margins of a fill, in units
          RawFees,         \* fees before money(), in half units
          RawGross,        \* gross results before money(), in half units
          NoAccount, NoOrder

ASSUME AmountsAssumption ==
  /\ Deposits \subseteq Nat
  /\ Margins \subseteq Nat
  /\ RawFees \subseteq Nat
  /\ RawGross \subseteq Int

ASSUME NoneAssumption == NoAccount \notin Accounts /\ NoOrder \notin Orders

VARIABLES owner,           \* account_id of each order row, or NoAccount
          state,           \* state of each order row
          position,        \* status of the position row of each order
          margin, entryFee,\* isolated_margin and entry_fee of that row
          openFills,       \* number of opening fill rows of each order
          closeFills,      \* number of closing fill rows of each order
          deposit, reserved, released, fees, gross,  \* journal totals
          net, closes,     \* sum of realized_net_pnl, and how many rows have one
          placing,         \* the pending order each worker is about to fill
          cancelling       \* the unfilled orders each worker read to cancel

orderVars == << owner, state >>
positionVars == << position, margin, entryFee, openFills, closeFills, net, closes >>
journalVars == << deposit, reserved, released, fees, gross >>
vars == << owner, state, position, margin, entryFee, openFills, closeFills,
           deposit, reserved, released, fees, gross, net, closes,
           placing, cancelling >>

OrderState == {"none", "pending", "filled", "rejected", "cancelled"}
PositionState == {"none", "open", "closed", "liquidated"}

(* money(): quantize to a whole unit, ties to the even one.                *)
Money(x) == LET q == x \div 2
            IN IF x % 2 = 0 \/ q % 2 = 0 THEN q ELSE q + 1

(* The SUM over the account's postings that get_account_balance and        *)
(* commit_open_fill take; nothing posts to the bucket they leave out.      *)
Balance(a) == deposit[a] + reserved[a] + released[a] + fees[a] + gross[a]

OpenOn(a) == {o \in Orders : owner[o] = a /\ position[o] = "open"}

Idle(w) == placing[w] = NoOrder /\ cancelling[w] = {}

TypeOK ==
  /\ owner \in [Orders -> Accounts \cup {NoAccount}]
  /\ state \in [Orders -> OrderState]
  /\ \A o \in Orders : owner[o] = NoAccount <=> state[o] = "none"
  /\ position \in [Orders -> PositionState]
  /\ \A o \in Orders : position[o] # "none" => owner[o] # NoAccount
  /\ margin \in [Orders -> Nat] /\ entryFee \in [Orders -> Nat]
  /\ openFills \in [Orders -> Nat] /\ closeFills \in [Orders -> Nat]
  /\ deposit \in [Accounts -> Int] /\ reserved \in [Accounts -> Int]
  /\ released \in [Accounts -> Int] /\ fees \in [Accounts -> Int]
  /\ gross \in [Accounts -> Int]
  /\ net \in [Accounts -> Int] /\ closes \in [Accounts -> Nat]
  /\ placing \in [Workers -> Orders \cup {NoOrder}]
  /\ cancelling \in [Workers -> SUBSET Orders]
  /\ \A w \in Workers : placing[w] # NoOrder => state[placing[w]] # "none"
  /\ \A w \in Workers : \A o \in cancelling[w] : state[o] # "none"

(* create_account posts the opening deposit with the account row.          *)
Init ==
  /\ owner = [o \in Orders |-> NoAccount]
  /\ state = [o \in Orders |-> "none"]
  /\ position = [o \in Orders |-> "none"]
  /\ margin = [o \in Orders |-> 0] /\ entryFee = [o \in Orders |-> 0]
  /\ openFills = [o \in Orders |-> 0] /\ closeFills = [o \in Orders |-> 0]
  /\ deposit \in [Accounts -> Deposits]
  /\ reserved = [a \in Accounts |-> 0] /\ released = [a \in Accounts |-> 0]
  /\ fees = [a \in Accounts |-> 0] /\ gross = [a \in Accounts |-> 0]
  /\ net = [a \in Accounts |-> 0] /\ closes = [a \in Accounts |-> 0]
  /\ placing = [w \in Workers |-> NoOrder]
  /\ cancelling = [w \in Workers |-> {}]

-----------------------------------------------------------------------------
(* Order rows.                                                             *)

(* create_order inserts the pending row under a fresh id.                  *)
CreateOrder(w, o, a) ==
  /\ Idle(w)
  /\ state[o] = "none"
  /\ owner' = [owner EXCEPT ![o] = a]
  /\ state' = [state EXCEPT ![o] = "pending"]
  /\ placing' = [placing EXCEPT ![w] = o]
  /\ UNCHANGED << positionVars, journalVars, cancelling >>

(* update_order_state: whatever state the row is in by now.                *)
SetOrderState(w, o, s) == /\ state' = [state EXCEPT ![o] = s]
                          /\ UNCHANGED << owner, positionVars, journalVars >>

(* The signal chain gives its order up: no quote, risk, or no liquidity.   *)
RejectOrder(w) ==
  /\ placing[w] # NoOrder
  /\ SetOrderState(w, placing[w], "rejected")
  /\ placing' = [placing EXCEPT ![w] = NoOrder]
  /\ UNCHANGED cancelling

(* finish_day reads the day's unfilled orders, and cancels them one by one.*)
LoadUnfilled(w) ==
  /\ Idle(w)
  /\ cancelling' = [cancelling EXCEPT ![w] = {o \in Orders : state[o] = "pending"}]
  /\ UNCHANGED << orderVars, positionVars, journalVars, placing >>

CancelOrder(w, o) ==
  /\ o \in cancelling[w]
  /\ SetOrderState(w, o, "cancelled")
  /\ cancelling' = [cancelling EXCEPT ![w] = @ \ {o}]
  /\ UNCHANGED placing

-----------------------------------------------------------------------------
(* Financial commits, each one transaction under the account's row lock.   *)

(* Seeded defects: the balance check or the unique index is missing.       *)
FillableUnfunded(o, m, f) == state[o] = "pending" /\ OpenOn(owner[o]) = {}
FillableStacked(o, m, f) == /\ Balance(owner[o]) - m - Money(f) >= 0
                            /\ state[o] = "pending"

(* What commit_open_fill checks of the order and of the balance, and the   *)
(* unique index over open positions of one account and instrument.         *)
Fillable(o, m, f) ==
  /\ Balance(owner[o]) - m - Money(f) >= 0
  /\ state[o] = "pending"
  /\ OpenOn(owner[o]) = {}

(* commit_open_fill.                                                       *)
CommitOpen(w, m, f) ==
  LET o == placing[w]
      a == owner[o]
  IN /\ o # NoOrder
     /\ Fillable(o, m, f)
     /\ state' = [state EXCEPT ![o] = "filled"]
     /\ openFills' = [openFills EXCEPT ![o] = @ + 1]
     /\ position' = [position EXCEPT ![o] = "open"]
     /\ margin' = [margin EXCEPT ![o] = m]
     /\ entryFee' = [entryFee EXCEPT ![o] = Money(f)]
     /\ reserved' = [reserved EXCEPT ![a] = @ - m]
     /\ fees' = [fees EXCEPT ![a] = @ - Money(f)]
     /\ placing' = [placing EXCEPT ![w] = NoOrder]
     /\ UNCHANGED << owner, closeFills, net, closes, deposit, released, gross, cancelling >>

(* The transaction raises and rolls back; the order row stays as it is.    *)
CommitOpenRefused(w, m, f) ==
  /\ placing[w] # NoOrder
  /\ ~ Fillable(placing[w], m, f)
  /\ placing' = [placing EXCEPT ![w] = NoOrder]
  /\ UNCHANGED << orderVars, positionVars, journalVars, cancelling >>

(* Seeded defect: the entry fee is posted again at the close.              *)
PostCloseFeeTwice(o, g, f) ==
  LET a == owner[o]
  IN /\ released' = [released EXCEPT ![a] = @ + margin[o]]
     /\ fees' = [fees EXCEPT ![a] = @ - Money(f) - entryFee[o]]
     /\ gross' = [gross EXCEPT ![a] = @ + Money(g)]
     /\ UNCHANGED << deposit, reserved >>

(* build_fill_postings of a close: no posting for a margin of zero.  The   *)
(* liquidation postings come to the same totals.                           *)
PostClose(o, g, f) ==
  LET a == owner[o]
  IN /\ released' = [released EXCEPT ![a] = @ + margin[o]]
     /\ fees' = [fees EXCEPT ![a] = @ - Money(f)]
     /\ gross' = [gross EXCEPT ![a] = @ + Money(g)]
     /\ UNCHANGED << deposit, reserved >>

(* Seeded defect: the row need only exist.                                 *)
StillThere(o) == position[o] # "none"

(* The position row, read FOR UPDATE, is still open.                       *)
StillOpen(o) == position[o] = "open"

(* commit_position_close, called with a copy of the position that may be   *)
(* out of date: any worker, at any time.  execute_close makes the net      *)
(* result out of the unrounded gross and fee and the rounded entry fee.    *)
CommitClose(o, g, f, terminal) ==
  /\ StillOpen(o)
  /\ closeFills' = [closeFills EXCEPT ![o] = @ + 1]
  /\ position' = [position EXCEPT ![o] = terminal]
  /\ net' = [net EXCEPT ![owner[o]] = @ + Money(g - f - 2 * entryFee[o])]
  /\ closes' = [closes EXCEPT ![owner[o]] = @ + 1]
  /\ PostClose(o, g, f)
  /\ UNCHANGED << orderVars, margin, entryFee, openFills, placing, cancelling >>

(* The process dies: what it had in hand is gone, the rows stay.           *)
Crash(w) ==
  /\ ~ Idle(w)
  /\ placing' = [placing EXCEPT ![w] = NoOrder]
  /\ cancelling' = [cancelling EXCEPT ![w] = {}]
  /\ UNCHANGED << orderVars, positionVars, journalVars >>

WorkerStep(w) ==
  \/ \E o \in Orders, a \in Accounts : CreateOrder(w, o, a)
  \/ RejectOrder(w)
  \/ LoadUnfilled(w)
  \/ \E o \in Orders : CancelOrder(w, o)
  \/ \E m \in Margins, f \in RawFees : CommitOpen(w, m, f) \/ CommitOpenRefused(w, m, f)
  \/ Crash(w)

Next ==
  \/ \E w \in Workers : WorkerStep(w)
  \/ \E o \in Orders, g \in RawGross, f \in RawFees, s \in {"closed", "liquidated"} :
       CommitClose(o, g, f, s)

Spec == Init /\ [][Next]_vars

-----------------------------------------------------------------------------
(* Properties.                                                             *)

(* commit_open_fill / commit_position_close: however many workers race to  *)
(* fill or to close from what they read earlier, an order is filled at     *)
(* most once, and has a position exactly then, and a position is closed by *)
(* exactly one fill.                                                       *)
FillsMatch ==
  \A o \in Orders :
    /\ openFills[o] = (IF position[o] = "none" THEN 0 ELSE 1)
    /\ closeFills[o] = (IF position[o] \in {"closed", "liquidated"} THEN 1 ELSE 0)
    /\ state[o] \in {"none", "pending"} => position[o] = "none"

(* uq_positions_open_per_instrument and the margin postings: an account    *)
(* has at most one open position, and the margin the journal holds back is *)
(* that position's isolated margin, or nothing.                            *)
MarginHeld ==
  \A a \in Accounts :
    /\ \A o, p \in OpenOn(a) : o = p
    /\ \A o \in OpenOn(a) : reserved[a] + released[a] = - margin[o]
    /\ OpenOn(a) = {} => reserved[a] + released[a] = 0

(* What the position rows say an account should hold: its deposit and its  *)
(* realized results, less the margin and entry fee of an open position.    *)
Expected(a) == deposit[a] + net[a]
Outlay(o) == margin[o] + entryFee[o]

(* execute_close's realized_net and the journal's postings are rounded     *)
(* separately; the balance the journal gives and the one the position rows *)
(* give never drift by more than one unit for each closed position.        *)
Near(x, y, d) == x - y <= d /\ y - x <= d
Reconciles ==
  \A a \in Accounts :
    /\ \A o \in OpenOn(a) : Near(Balance(a), Expected(a) - Outlay(o), closes[a])
    /\ OpenOn(a) = {} => Near(Balance(a), Expected(a), closes[a])

(* commit_open_fill re-reads the balance under the account lock, so no     *)
(* opening fill leaves less than nothing available, whatever was closed or *)
(* opened since the worker looked.  (A losing close may.)                  *)
OpensCovered ==
  [][\A o \in Orders : position[o] = "none" /\ position'[o] = "open"
                         => Balance(owner[o])' >= 0]_vars
=============================================================================
