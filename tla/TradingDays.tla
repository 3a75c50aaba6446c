---------------------------- MODULE TradingDays ----------------------------
(***************************************************************************)
(* What paper trading promises its owner, with commands, transactions,     *)
(* recoveries and crashes left out: days follow one another, a day runs    *)
(* once, it is declared closed only flat, and an account holds at most one *)
(* position, opened for a day that has begun.                              *)
(***************************************************************************)
EXTENDS Naturals

CONSTANTS Days, Accounts, Positions

VARIABLES day,         \* [Days -> {"none", "idle", "running", "ending", "closed"}]
          held,        \* the open positions: [id, day, account]
          leftover     \* the days with a start that may come after their finish

vars == << day, held, leftover >>

Init == /\ day = [d \in Days |-> "none"]
        /\ held = {}
        /\ leftover = {}

(* The days of which none but d is under way.                              *)
Alone(d) == \A c \in Days \ {d} : day[c] \in {"none", "closed"}

Linger == /\ leftover \subseteq leftover'
          /\ leftover' \subseteq Days
          /\ UNCHANGED << day, held >>

(* A new day, when every day before it is closed.                          *)
Create(d) ==
  /\ day[d] = "none"
  /\ \A c \in Days : c < d => day[c] = "closed"
  /\ day' = [day EXCEPT ![d] = "idle"]
  /\ UNCHANGED << held, leftover >>

(* A day runs once, unless a start is left over for it.                    *)
Run(d) ==
  /\ \/ day[d] = "idle"
     \/ d \in leftover /\ day[d] # "none" /\ Alone(d)
  /\ day' = [day EXCEPT ![d] = "running"]
  /\ UNCHANGED << held, leftover >>

(* The close-out begins; it may be done over, even for a day that is       *)
(* closed, as long as no other day is under way.                           *)
Finish(d) ==
  /\ day[d] # "none" /\ Alone(d)
  /\ day' = [day EXCEPT ![d] = "ending"]
  /\ UNCHANGED << held, leftover >>

(* A day is closed when no position of it is open.                         *)
Close(d) ==
  /\ day[d] = "ending"
  /\ \A p \in held : p.day # d
  /\ day' = [day EXCEPT ![d] = "closed"]
  /\ UNCHANGED << held, leftover >>

(* The auto account enters while the day runs, a manual order any time     *)
(* after it began.                                                         *)
Enter(e, d, a) ==
  /\ \A p \in held : p.id # e /\ p.account # a
  /\ day[d] \in IF a = "auto" THEN {"running"} ELSE {"running", "ending", "closed"}
  /\ held' = held \cup {[id |-> e, day |-> d, account |-> a]}
  /\ UNCHANGED << day, leftover >>

Leave(p) == held' = held \ {p} /\ UNCHANGED << day, leftover >>

Next ==
  \/ Linger
  \/ \E d \in Days : Create(d) \/ Run(d) \/ Finish(d) \/ Close(d)
  \/ \E e \in Positions, d \in Days, a \in Accounts : Enter(e, d, a)
  \/ \E p \in held : Leave(p)

Spec == Init /\ [][Next]_vars
=============================================================================
