--------------------------- MODULE MCPaperRunner ---------------------------
(* PaperRunner on small instances: which commands clients may submit, and  *)
(* how much of everything else may happen beside them.  An instance is a   *)
(* union of scopes, each too small to mix all that can go wrong at once.   *)
EXTENDS PaperRunner, TLC

Auto(kind, n) == Command(kind, 1, "auto", n)
Placing  == {Command("order", 1, "manual", 1)}
Pausing  == {Auto("pause", 1)}
Controls == Pausing \cup {Auto("resume", 1)}
Close    == {Auto("close", e) : e \in Entries}
Closing  == {Auto("close_all", 1)} \cup Close

MCDays     == {FinishKey(d) : d \in Days} \cup {StartKey(d, a) : d \in Days, a \in Accounts}
MCOrders   == MCDays \cup Placing
MCControls == MCDays \cup Controls \cup Closing

(* The commands beside start_day and finish_day that have been sent.       *)
Sent   == {k \in Keys \ MCDays : status[k] # "absent"} \cup reading
Used   == Cardinality(Entries \ Fresh)
OneDay == \A d \in Days \ {1} : dayState[d] = "none"

(* The start-up jobs have not begun.                                       *)
Early  == phase = "down" \/ \A j \in StartupJobs : recovery[j] = "due"

(* The start-up job and the cycle recover beside each other, and a crash.  *)
Beside   == OneDay /\ faults = 0 /\ Sent = {}
(* An order and a crash, a failed call and a crash, an order and a failed  *)
(* call; and a second day after one that ran, or was begun, before a crash.*)
OrderDies  == OneDay /\ Early /\ faults = 0 /\ (crashes = 0 \/ 1 \notin expired)
FaultDies  == OneDay /\ Early /\ Sent = {} /\ (crashes = 0 \/ Used <= 1)
OrderFails == OneDay /\ Early /\ crashes = 0 /\ 1 \notin expired
TwoDays    == Early /\ faults = 0 /\ Sent = {}
                /\ (crashes = 0 \/ (Fresh = Entries /\ 1 \notin expired))

DaysScope == Beside \/ OrderDies \/ FaultDies \/ OrderFails \/ TwoDays
DaysSpec  == Init /\ [][Next /\ DaysScope']_vars

(* A crash and nothing sent, which is where liveness is checked: whatever  *)
(* fairness owes stays in this scope.  Pause and resume; one closing       *)
(* command; close and a crash; a pause beside the start-up job.            *)
Dying       == Sent = {}
Pauses      == Sent \subseteq Controls /\ Early /\ crashes = 0
Closes      == Sent \subseteq Closing /\ Cardinality(Sent) <= 1 /\ Early /\ crashes = 0
CloseDies   == Sent \subseteq Close /\ Early /\ 1 \notin expired
PauseBeside == Sent \subseteq Pausing /\ crashes = 0

ControlsScope == Dying \/ Pauses \/ Closes \/ CloseDies \/ PauseBeside
ControlsSpec  == Init /\ [][Next /\ ControlsScope']_vars /\ Fairness

Symmetric == Permutations(Entries)
=============================================================================
