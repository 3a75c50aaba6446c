------------------------- MODULE PaperLedger_proofs -------------------------
(* Theorems of PaperLedger, for every set of accounts, orders and workers  *)
(* and for all amounts.                                                    *)
EXTENDS PaperLedger, TLAPS

(* money() is off by at most half a unit, and exact on whole units.        *)
LEMMA MoneyNear ==
  ASSUME NEW x \in Int
  PROVE  Money(x) \in Int /\ 2 * Money(x) - x <= 1 /\ x - 2 * Money(x) <= 1
<1> DEFINE q == x \div 2
<1>1. q \in Int /\ x % 2 \in 0..1 /\ x = (2 * q) + (x % 2)
  OBVIOUS
<1>2. Money(x) = IF x % 2 = 0 \/ q % 2 = 0 THEN q ELSE q + 1
  BY DEF Money
<1> QED BY <1>1, <1>2

LEMMA MoneyNat ==
  ASSUME NEW x \in Nat
  PROVE  Money(x) \in Nat
BY MoneyNear

(* Rounding gross, fee and net separately costs one unit at most.          *)
LEMMA CloseDrift ==
  ASSUME NEW g \in Int, NEW f \in Nat, NEW e \in Nat
  PROVE  /\ Money(g) - Money(f) - e - Money(g - f - 2 * e) <= 1
         /\ Money(g - f - 2 * e) + e + Money(f) - Money(g) <= 1
         /\ Money(g - f - 2 * e) \in Int
<1>1. g - f - 2 * e \in Int
  OBVIOUS
<1> QED BY <1>1, MoneyNear

-----------------------------------------------------------------------------
(* Every reachable state is well typed.                                    *)
THEOREM TypeCorrect == Spec => []TypeOK
<1>1. Init => TypeOK
  <2> SUFFICES ASSUME Init PROVE TypeOK
    OBVIOUS
  <2>1. deposit \in [Accounts -> Int]
    <3>1. deposit \in [Accounts -> Deposits]
      BY DEF Init
    <3>2. Deposits \subseteq Int
      BY AmountsAssumption
    <3> QED BY <3>1, <3>2
  <2>2. /\ owner \in [Orders -> Accounts \cup {NoAccount}]
        /\ state \in [Orders -> OrderState]
        /\ position \in [Orders -> PositionState]
        /\ \A o \in Orders : owner[o] = NoAccount <=> state[o] = "none"
    BY DEF Init, OrderState, PositionState
  <2> QED BY <2>1, <2>2 DEF Init, TypeOK
<1>2. TypeOK /\ [Next]_vars => TypeOK'
  <2> SUFFICES ASSUME TypeOK, [Next]_vars PROVE TypeOK'
    OBVIOUS
  <2> USE DEF TypeOK, OrderState
  <2>1. ASSUME NEW w \in Workers, NEW o \in Orders, NEW a \in Accounts, CreateOrder(w, o, a)
        PROVE  TypeOK'
    BY <2>1, NoneAssumption DEF CreateOrder, positionVars, journalVars
  <2>2. ASSUME NEW w \in Workers, RejectOrder(w)
        PROVE  TypeOK'
    BY <2>2 DEF RejectOrder, SetOrderState, positionVars, journalVars
  <2>3. ASSUME NEW w \in Workers, LoadUnfilled(w)
        PROVE  TypeOK'
    BY <2>3 DEF LoadUnfilled, orderVars, positionVars, journalVars
  <2>4. ASSUME NEW w \in Workers, NEW o \in Orders, CancelOrder(w, o)
        PROVE  TypeOK'
    BY <2>4 DEF CancelOrder, SetOrderState, positionVars, journalVars
  <2>5. ASSUME NEW w \in Workers, NEW m \in Margins, NEW f \in RawFees, CommitOpen(w, m, f)
        PROVE  TypeOK'
    <3> PICK o \in Orders, a \in Accounts : o = placing[w] /\ a = owner[o]
      BY <2>5 DEF CommitOpen
    <3>1. m \in Nat /\ Money(f) \in Nat
      BY AmountsAssumption, MoneyNat
    <3>2. /\ margin' \in [Orders -> Nat]
          /\ entryFee' \in [Orders -> Nat]
          /\ reserved' \in [Accounts -> Int]
          /\ fees' \in [Accounts -> Int]
      BY <2>5, <3>1 DEF CommitOpen
    <3>3. position' \in [Orders -> PositionState]
      BY <2>5 DEF CommitOpen, PositionState
    <3> QED BY <2>5, <3>2, <3>3 DEF CommitOpen
  <2>6. ASSUME NEW w \in Workers, NEW m \in Margins, NEW f \in RawFees, CommitOpenRefused(w, m, f)
        PROVE  TypeOK'
    BY <2>6 DEF CommitOpenRefused, orderVars, positionVars, journalVars
  <2>7. ASSUME NEW w \in Workers, Crash(w)
        PROVE  TypeOK'
    BY <2>7 DEF Crash, orderVars, positionVars, journalVars
  <2>8. ASSUME NEW o \in Orders, NEW g \in RawGross, NEW f \in RawFees,
               NEW s \in {"closed", "liquidated"}, CommitClose(o, g, f, s)
        PROVE  TypeOK'
    <3>1. g \in Int /\ f \in Nat /\ entryFee[o] \in Nat /\ margin[o] \in Nat
      BY AmountsAssumption
    <3>2. Money(g) \in Int /\ Money(f) \in Nat /\ Money(g - f - 2 * entryFee[o]) \in Int
      BY <3>1, MoneyNear, MoneyNat, CloseDrift
    <3> PICK a \in Accounts : a = owner[o]
      BY <2>8 DEF CommitClose, StillOpen
    <3>3. /\ released' \in [Accounts -> Int]
          /\ fees' \in [Accounts -> Int]
          /\ gross' \in [Accounts -> Int]
          /\ UNCHANGED << deposit, reserved >>
      BY <2>8, <3>1, <3>2 DEF CommitClose, PostClose
    <3>4. net' \in [Accounts -> Int] /\ closes' \in [Accounts -> Nat]
      BY <2>8, <3>2 DEF CommitClose
    <3>5. position' \in [Orders -> PositionState]
      BY <2>8 DEF CommitClose, PositionState
    <3>6. \A p \in Orders : position'[p] # "none" => owner'[p] # NoAccount
      BY <2>8 DEF CommitClose, StillOpen, orderVars
    <3>7. closeFills' \in [Orders -> Nat]
      BY <2>8 DEF CommitClose
    <3>8. UNCHANGED << owner, state, margin, entryFee, openFills, placing, cancelling >>
      BY <2>8 DEF CommitClose, orderVars
    <3> QED BY <3>3, <3>4, <3>5, <3>6, <3>7, <3>8
  <2>9. CASE UNCHANGED vars
    BY <2>9 DEF vars
  <2> QED
    BY <2>1, <2>2, <2>3, <2>4, <2>5, <2>6, <2>7, <2>8, <2>9 DEF Next, WorkerStep
<1> QED BY <1>1, <1>2, PTL DEF Spec

-----------------------------------------------------------------------------
(* What the two commits do, once, for the invariants below: order o opens  *)
(* a position on account a, position o of account a ends with net result n.*)
Opened(o, a, m, f) ==
  /\ owner[o] = a /\ state[o] = "pending" /\ OpenOn(a) = {}
  /\ Balance(a) - m - Money(f) >= 0
  /\ m \in Nat /\ Money(f) \in Nat
  /\ position' = [position EXCEPT ![o] = "open"]
  /\ state' = [state EXCEPT ![o] = "filled"]
  /\ openFills' = [openFills EXCEPT ![o] = @ + 1]
  /\ margin' = [margin EXCEPT ![o] = m]
  /\ entryFee' = [entryFee EXCEPT ![o] = Money(f)]
  /\ reserved' = [reserved EXCEPT ![a] = @ - m]
  /\ fees' = [fees EXCEPT ![a] = @ - Money(f)]
  /\ UNCHANGED << owner, closeFills, net, closes, deposit, released, gross >>

Ended(o, a, n, g, f, s) ==
  /\ owner[o] = a /\ position[o] = "open"
  /\ Money(g) - Money(f) - entryFee[o] - n <= 1
  /\ n + entryFee[o] + Money(f) - Money(g) <= 1
  /\ Money(g) \in Int /\ Money(f) \in Nat
  /\ position' = [position EXCEPT ![o] = s]
  /\ closeFills' = [closeFills EXCEPT ![o] = @ + 1]
  /\ net' = [net EXCEPT ![a] = @ + n]
  /\ closes' = [closes EXCEPT ![a] = @ + 1]
  /\ released' = [released EXCEPT ![a] = @ + margin[o]]
  /\ fees' = [fees EXCEPT ![a] = @ - Money(f)]
  /\ gross' = [gross EXCEPT ![a] = @ + Money(g)]
  /\ UNCHANGED << owner, state, margin, entryFee, openFills, deposit, reserved >>

LEMMA OpenEffect ==
  ASSUME TypeOK, NEW w \in Workers, NEW m \in Margins, NEW f \in RawFees, CommitOpen(w, m, f)
  PROVE  \E o \in Orders, a \in Accounts : Opened(o, a, m, f)
<1>1. m \in Nat /\ Money(f) \in Nat
  BY AmountsAssumption, MoneyNat
<1>2. placing[w] \in Orders /\ owner[placing[w]] \in Accounts
  BY DEF CommitOpen, TypeOK
<1>3. Opened(placing[w], owner[placing[w]], m, f)
  BY <1>1 DEF CommitOpen, Fillable, Opened
<1> QED BY <1>2, <1>3

LEMMA CloseEffect ==
  ASSUME TypeOK, NEW o \in Orders, NEW g \in RawGross, NEW f \in RawFees,
         NEW s \in {"closed", "liquidated"}, CommitClose(o, g, f, s)
  PROVE  \E a \in Accounts, n \in Int : Ended(o, a, n, g, f, s)
<1>1. g \in Int /\ f \in Nat /\ entryFee[o] \in Nat
  BY AmountsAssumption DEF TypeOK
<1>2. owner[o] \in Accounts /\ position[o] = "open"
  BY DEF CommitClose, StillOpen, TypeOK
<1>3. Money(g) \in Int /\ Money(f) \in Nat
  BY <1>1, MoneyNear, MoneyNat
<1>4. /\ Money(g) - Money(f) - entryFee[o] - Money(g - f - 2 * entryFee[o]) <= 1
      /\ Money(g - f - 2 * entryFee[o]) + entryFee[o] + Money(f) - Money(g) <= 1
      /\ Money(g - f - 2 * entryFee[o]) \in Int
  BY <1>1, CloseDrift
<1>5. Ended(o, owner[o], Money(g - f - 2 * entryFee[o]), g, f, s)
  BY <1>2, <1>3, <1>4 DEF CommitClose, PostClose, orderVars, Ended
<1> QED BY <1>2, <1>4, <1>5

(* The steps that touch order rows and hands only.                         *)
LEMMA OtherEffect ==
  ASSUME TypeOK, [Next]_vars,
         \A w \in Workers, m \in Margins, f \in RawFees : ~ CommitOpen(w, m, f),
         \A o \in Orders, g \in RawGross, f \in RawFees, s \in {"closed", "liquidated"} :
           ~ CommitClose(o, g, f, s)
  PROVE  /\ UNCHANGED << position, margin, entryFee, openFills, closeFills, net, closes >>
         /\ UNCHANGED << deposit, reserved, released, fees, gross >>
         /\ \A o \in Orders : owner[o] # NoAccount => owner'[o] = owner[o]
         /\ \A o \in Orders : state'[o] \in {"none", "pending"}
                                => state[o] \in {"none", "pending"}
<1>1. ASSUME NEW w \in Workers, NEW o \in Orders, NEW a \in Accounts, CreateOrder(w, o, a)
      PROVE  /\ \A p \in Orders : owner[p] # NoAccount => owner'[p] = owner[p]
             /\ \A p \in Orders : state'[p] \in {"none", "pending"}
                                    => state[p] \in {"none", "pending"}
  BY <1>1 DEF CreateOrder, TypeOK
<1>2. ASSUME NEW w \in Workers, NEW o \in Orders,
             RejectOrder(w) \/ CancelOrder(w, o)
      PROVE  /\ owner' = owner
             /\ \A p \in Orders : state'[p] \in {"none", "pending"}
                                    => state[p] \in {"none", "pending"}
  BY <1>2 DEF RejectOrder, CancelOrder, SetOrderState, TypeOK
<1>3. ASSUME NEW w \in Workers, RejectOrder(w)
      PROVE  /\ owner' = owner
             /\ \A p \in Orders : state'[p] \in {"none", "pending"}
                                    => state[p] \in {"none", "pending"}
  BY <1>3 DEF RejectOrder, SetOrderState, TypeOK
<1> QED
  BY <1>1, <1>2, <1>3
     DEF Next, WorkerStep, vars, orderVars, positionVars, journalVars, CreateOrder, RejectOrder,
         LoadUnfilled, CancelOrder, SetOrderState, CommitOpenRefused, Crash

-----------------------------------------------------------------------------
(* One opening fill per position, one closing fill per ended position: the *)
(* order's and the position's status, read under a row lock, are what      *)
(* makes the second of two racing commits fail.                            *)
THEOREM FillsMatchHolds == Spec => []FillsMatch
<1>1. Init => FillsMatch
  BY DEF Init, FillsMatch
<1>2. TypeOK /\ FillsMatch /\ [Next]_vars => FillsMatch'
  <2> SUFFICES ASSUME TypeOK, FillsMatch, [Next]_vars PROVE FillsMatch'
    OBVIOUS
  <2>1. ASSUME NEW w \in Workers, NEW m \in Margins, NEW f \in RawFees, CommitOpen(w, m, f)
        PROVE  FillsMatch'
    <3> PICK o \in Orders, a \in Accounts : Opened(o, a, m, f)
      BY <2>1, OpenEffect
    <3>1. position[o] = "none" /\ openFills[o] = 0 /\ closeFills[o] = 0
      BY DEF Opened, FillsMatch
    <3> QED BY <3>1 DEF Opened, FillsMatch, TypeOK
  <2>2. ASSUME NEW o \in Orders, NEW g \in RawGross, NEW f \in RawFees,
               NEW s \in {"closed", "liquidated"}, CommitClose(o, g, f, s)
        PROVE  FillsMatch'
    <3> PICK a \in Accounts, n \in Int : Ended(o, a, n, g, f, s)
      BY <2>2, CloseEffect
    <3>1. /\ openFills[o] = 1 /\ closeFills[o] = 0
          /\ state[o] \notin {"none", "pending"}
      BY DEF Ended, FillsMatch
    <3> SUFFICES ASSUME NEW p \in Orders
                 PROVE  /\ openFills'[p] = (IF position'[p] = "none" THEN 0 ELSE 1)
                        /\ closeFills'[p] = (IF position'[p] \in {"closed", "liquidated"}
                                               THEN 1 ELSE 0)
                        /\ state'[p] \in {"none", "pending"} => position'[p] = "none"
      BY DEF FillsMatch
    <3>2. CASE p = o
      BY <3>1, <3>2 DEF Ended, TypeOK
    <3>3. CASE p # o
      BY <3>3 DEF Ended, FillsMatch, TypeOK
    <3> QED BY <3>2, <3>3
  <2>3. CASE /\ \A w \in Workers, m \in Margins, f \in RawFees : ~ CommitOpen(w, m, f)
             /\ \A o \in Orders, g \in RawGross, f \in RawFees, s \in {"closed", "liquidated"} :
                  ~ CommitClose(o, g, f, s)
    BY <2>3, OtherEffect DEF FillsMatch
  <2> QED BY <2>1, <2>2, <2>3
<1> QED BY <1>1, <1>2, TypeCorrect, PTL DEF Spec

-----------------------------------------------------------------------------
(* One account, before and after.                                          *)
MarginOf(a) ==
  /\ \A o, p \in OpenOn(a) : o = p
  /\ \A o \in OpenOn(a) : reserved[a] + released[a] = - margin[o]
  /\ OpenOn(a) = {} => reserved[a] + released[a] = 0

BooksOf(a) ==
  /\ \A o \in OpenOn(a) : Near(Balance(a), Expected(a) - Outlay(o), closes[a])
  /\ OpenOn(a) = {} => Near(Balance(a), Expected(a), closes[a])

(* An account no commit touches keeps its books and its open positions.    *)
LEMMA Untouched ==
  ASSUME TypeOK, NEW a \in Accounts,
         OpenOn(a)' = OpenOn(a),
         \A o \in OpenOn(a) : margin'[o] = margin[o] /\ entryFee'[o] = entryFee[o],
         deposit'[a] = deposit[a], reserved'[a] = reserved[a], released'[a] = released[a],
         fees'[a] = fees[a], gross'[a] = gross[a], net'[a] = net[a], closes'[a] = closes[a]
  PROVE  /\ MarginOf(a) => MarginOf(a)'
         /\ BooksOf(a) => BooksOf(a)'
BY DEF MarginOf, BooksOf, Balance, Expected, Outlay, Near

(* An opening fill: the account goes from flat to one position.            *)
LEMMA OpenedBooks ==
  ASSUME TypeOK, NEW w \in Workers, NEW m \in Margins, NEW f \in RawFees, CommitOpen(w, m, f)
  PROVE  \A a \in Accounts : /\ MarginOf(a) => MarginOf(a)'
                             /\ BooksOf(a) => BooksOf(a)'
<1> PICK o \in Orders, b \in Accounts : Opened(o, b, m, f)
  BY OpenEffect
<1> USE DEF Opened
<1>1. OpenOn(b)' = {o}
  BY DEF OpenOn, TypeOK
<1>2. ASSUME NEW a \in Accounts, a # b
      PROVE  /\ MarginOf(a) => MarginOf(a)'
             /\ BooksOf(a) => BooksOf(a)'
  <2>1. OpenOn(a)' = OpenOn(a)
    BY <1>2 DEF OpenOn, TypeOK
  <2>2. \A p \in OpenOn(a) : margin'[p] = margin[p] /\ entryFee'[p] = entryFee[p]
    BY <1>2 DEF OpenOn, TypeOK
  <2> QED BY <1>2, <2>1, <2>2, Untouched DEF TypeOK
<1>3. MarginOf(b) => MarginOf(b)'
  BY <1>1 DEF MarginOf, TypeOK
<1>4. BooksOf(b) => BooksOf(b)'
  <2>1. Balance(b)' = Balance(b) - m - Money(f)
    BY DEF Balance, TypeOK
  <2>2. Expected(b)' = Expected(b) /\ Outlay(o)' = m + Money(f)
    BY DEF Expected, Outlay, TypeOK
  <2>3. Balance(b) \in Int /\ Expected(b) \in Int /\ closes[b] \in Nat
    BY DEF Balance, Expected, TypeOK
  <2> QED BY <1>1, <2>1, <2>2, <2>3 DEF BooksOf, Near
<1> QED BY <1>2, <1>3, <1>4

(* A closing fill: the account goes back to flat.                          *)
LEMMA ClosedBooks ==
  ASSUME TypeOK, NEW o \in Orders, NEW g \in RawGross, NEW f \in RawFees,
         NEW s \in {"closed", "liquidated"}, CommitClose(o, g, f, s), MarginHeld
  PROVE  \A a \in Accounts : /\ MarginOf(a) => MarginOf(a)'
                             /\ BooksOf(a) => BooksOf(a)'
<1> PICK b \in Accounts, n \in Int : Ended(o, b, n, g, f, s)
  BY CloseEffect
<1> USE DEF Ended
<1>1. o \in OpenOn(b)
  BY DEF OpenOn
<1>2. OpenOn(b)' = {}
  BY <1>1 DEF MarginHeld, OpenOn, TypeOK
<1>3. ASSUME NEW a \in Accounts, a # b
      PROVE  /\ MarginOf(a) => MarginOf(a)'
             /\ BooksOf(a) => BooksOf(a)'
  <2>1. OpenOn(a)' = OpenOn(a)
    BY <1>3 DEF OpenOn, TypeOK
  <2> QED BY <1>3, <2>1, Untouched DEF TypeOK
<1>4. MarginOf(b) => MarginOf(b)'
  <2>1. reserved'[b] + released'[b] = reserved[b] + released[b] + margin[o]
    BY DEF TypeOK
  <2>2. reserved[b] \in Int /\ released[b] \in Int /\ margin[o] \in Nat
    BY DEF TypeOK
  <2> QED BY <1>1, <1>2, <2>1, <2>2 DEF MarginOf
<1>5. BooksOf(b) => BooksOf(b)'
  <2>1. Balance(b)' = Balance(b) + margin[o] - Money(f) + Money(g)
    BY DEF Balance, TypeOK
  <2>2. Expected(b)' = Expected(b) + n
    BY DEF Expected, TypeOK
  <2>3. /\ Balance(b) \in Int /\ Expected(b) \in Int /\ closes[b] \in Nat
        /\ margin[o] \in Nat /\ entryFee[o] \in Nat
    BY DEF Balance, Expected, TypeOK
  <2>4. closes'[b] = closes[b] + 1
    BY DEF TypeOK
  <2> QED BY <1>1, <1>2, <2>1, <2>2, <2>3, <2>4 DEF BooksOf, Near, Outlay
<1> QED BY <1>3, <1>4, <1>5

(* The other steps leave every account's books alone.                      *)
LEMMA OtherBooks ==
  ASSUME TypeOK, [Next]_vars, NEW a \in Accounts,
         \A w \in Workers, m \in Margins, f \in RawFees : ~ CommitOpen(w, m, f),
         \A o \in Orders, g \in RawGross, f \in RawFees, s \in {"closed", "liquidated"} :
           ~ CommitClose(o, g, f, s)
  PROVE  /\ MarginOf(a) => MarginOf(a)'
         /\ BooksOf(a) => BooksOf(a)'
<1>1. UNCHANGED << position, margin, entryFee, net, closes,
                   deposit, reserved, released, fees, gross >>
  BY OtherEffect
<1>2. \A o \in Orders : position[o] # "none" => owner'[o] = owner[o]
  BY OtherEffect DEF TypeOK
<1>3. OpenOn(a)' = OpenOn(a)
  BY <1>1, <1>2 DEF OpenOn
<1> QED BY <1>1, <1>3, Untouched

-----------------------------------------------------------------------------
(* The margin the journal holds back is the open position's, and there is  *)
(* at most one.                                                            *)
THEOREM MarginHeldHolds == Spec => []MarginHeld
<1>1. Init => MarginHeld
  BY DEF Init, MarginHeld, OpenOn
<1>2. TypeOK /\ MarginHeld /\ [Next]_vars => MarginHeld'
  <2> SUFFICES ASSUME TypeOK, MarginHeld, [Next]_vars, NEW a \in Accounts
               PROVE  MarginOf(a)'
    BY DEF MarginHeld, MarginOf
  <2>1. MarginOf(a)
    BY DEF MarginHeld, MarginOf
  <2> QED BY <2>1, OpenedBooks, ClosedBooks, OtherBooks
<1> QED BY <1>1, <1>2, TypeCorrect, PTL DEF Spec

(* The journal and the position rows agree on what an account holds, to    *)
(* one unit of rounding for each closed position.                          *)
THEOREM BooksReconcile == Spec => []Reconciles
<1>1. Init => Reconciles
  <2> SUFFICES ASSUME Init, NEW a \in Accounts PROVE BooksOf(a)
    BY DEF Reconciles, BooksOf
  <2>1. OpenOn(a) = {} /\ closes[a] = 0
    BY DEF Init, OpenOn
  <2>2. deposit[a] \in Int
    <3>1. deposit[a] \in Deposits
      BY DEF Init
    <3>2. Deposits \subseteq Int
      BY AmountsAssumption
    <3> QED BY <3>1, <3>2
  <2>3. Balance(a) = deposit[a] /\ Expected(a) = deposit[a]
    BY <2>2 DEF Init, Balance, Expected
  <2> QED BY <2>1, <2>2, <2>3 DEF BooksOf, Near
<1>2. TypeOK /\ MarginHeld /\ Reconciles /\ [Next]_vars => Reconciles'
  <2> SUFFICES ASSUME TypeOK, MarginHeld, Reconciles, [Next]_vars, NEW a \in Accounts
               PROVE  BooksOf(a)'
    BY DEF Reconciles, BooksOf
  <2>1. BooksOf(a)
    BY DEF Reconciles, BooksOf
  <2> QED BY <2>1, OpenedBooks, ClosedBooks, OtherBooks
<1> QED BY <1>1, <1>2, TypeCorrect, MarginHeldHolds, PTL DEF Spec

(* No opening fill overdraws its account.                                  *)
THEOREM OpensAreCovered == Spec => OpensCovered
<1> DEFINE Covered == \A o \in Orders : position[o] = "none" /\ position'[o] = "open"
                                          => Balance(owner[o])' >= 0
<1>1. TypeOK /\ [Next]_vars => Covered
  <2> SUFFICES ASSUME TypeOK, [Next]_vars, NEW p \in Orders,
                      position[p] = "none", position'[p] = "open"
               PROVE  Balance(owner[p])' >= 0
    OBVIOUS
  <2>1. ASSUME NEW w \in Workers, NEW m \in Margins, NEW f \in RawFees, CommitOpen(w, m, f)
        PROVE  Balance(owner[p])' >= 0
    <3> PICK o \in Orders, a \in Accounts : Opened(o, a, m, f)
      BY <2>1, OpenEffect
    <3> USE DEF Opened
    <3>1. p = o
      BY DEF TypeOK
    <3>2. Balance(a)' = Balance(a) - m - Money(f)
      BY DEF Balance, TypeOK
    <3> QED BY <3>1, <3>2
  <2>2. ASSUME NEW o \in Orders, NEW g \in RawGross, NEW f \in RawFees,
               NEW s \in {"closed", "liquidated"}, CommitClose(o, g, f, s)
        PROVE  FALSE
    BY <2>2 DEF CommitClose, TypeOK
  <2> QED BY <2>1, <2>2, OtherEffect
<1> QED BY <1>1, TypeCorrect, PTL DEF Spec, OpensCovered
=============================================================================
