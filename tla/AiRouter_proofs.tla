--------------------------- MODULE AiRouter_proofs ---------------------------
(***************************************************************************)
(* Proofs of the safety of AiRouter, for any tiers, chains, thresholds and *)
(* number of requests, whether the caller asks the breaker first or not.   *)
(*                                                                         *)
(* Sound(t, c, n) is what holds of circuit c of tier t with n test calls   *)
(* begun: every method of the breaker preserves it whatever it finds, so   *)
(* nothing needs to be known of which request calls it.  OpenShields needs *)
(* only that a question put to an open, uncooled circuit is refused and    *)
(* leaves it as it is.                                                     *)
(***************************************************************************)
EXTENDS AiRouter, TLAPS

Sound(t, c, n) ==
  /\ c \in Circuit /\ n \in Nat
  /\ c.state = "closed" =>
       c.successes = 0 /\ c.slots = 0 /\ c.failures < Threshold[t]
  /\ c.state # "closed" =>
       c.successes < HalfOpenMax /\ c.failures = Threshold[t]
  /\ c.state = "half_open" => n <= c.slots /\ c.slots <= HalfOpenMax

Circuits ==
  /\ circuit \in [Tiers -> Circuit] /\ tests \in [Tiers -> Nat]
  /\ \A t \in Tiers : Sound(t, circuit[t], tests[t])

RequestsOK ==
  /\ request \in [Requests -> [at : Step, left : Seq(Tiers), attempt : Nat]]
  /\ \A r \in Requests :
       request[r].at \in {"calling", "backoff"} => request[r].left # << >>

IInv == Circuits /\ RequestsOK

USE DEF Circuit

-----------------------------------------------------------------------------
(* The breaker's methods.                                                  *)

(* can_execute leaves a sound circuit, and a call that follows an answer   *)
(* of yes is within its slots.                                             *)
LEMMA AskSound ==
  ASSUME NEW t \in Tiers, NEW c, NEW n, Sound(t, c, n)
  PROVE  /\ Sound(t, Asked(c), IF Checked(c) = c THEN n ELSE 0)
         /\ Admits(c) /\ Checked(c).state = "half_open" =>
              Sound(t, Asked(c), (IF Checked(c) = c THEN n ELSE 0) + 1)
<1> USE SlotAssumption, RouterAssumption DEF Sound
<1>1. CASE c.state = "open" /\ c.cooled
  <2>1. Checked(c) = [state |-> "half_open", failures |-> c.failures,
          successes |-> c.successes, slots |-> 0, cooled |-> c.cooled]
    BY <1>1 DEF Checked
  <2>2. Checked(c) # c
    BY <1>1, <2>1
  <2>3. Asked(c) = [state |-> "half_open", failures |-> c.failures,
          successes |-> c.successes, slots |-> 1, cooled |-> c.cooled]
    BY <2>1 DEF Asked
  <2> QED
    BY <1>1, <2>2, <2>3
<1>2. CASE ~ (c.state = "open" /\ c.cooled)
  <2>1. Checked(c) = c
    BY <1>2 DEF Checked
  <2>2. CASE c.state = "half_open" /\ c.slots < HalfOpenMax
    <3>1. Asked(c) = [state |-> c.state, failures |-> c.failures,
            successes |-> c.successes, slots |-> c.slots + 1,
            cooled |-> c.cooled]
      BY <2>1, <2>2 DEF Asked
    <3> QED
      BY <2>1, <2>2, <3>1
  <2>3. CASE ~ (c.state = "half_open" /\ c.slots < HalfOpenMax)
    <3>1. Asked(c) = c
      BY <2>1, <2>3 DEF Asked
    <3>2. ~ (Admits(c) /\ Checked(c).state = "half_open")
      BY <2>1, <2>3 DEF Admits
    <3> QED
      BY <2>1, <3>1, <3>2
  <2> QED
    BY <2>2, <2>3
<1> QED
  BY <1>1, <1>2

(* record_success and record_failure leave a sound circuit.                *)
LEMMA SucceedSound ==
  ASSUME NEW t \in Tiers, NEW c, NEW n, Sound(t, c, n)
  PROVE  Sound(t, Succeeded(c), n)
<1> USE SlotAssumption, RouterAssumption DEF Sound
<1>1. CASE c.state = "half_open" /\ c.successes + 1 >= HalfOpenMax
  <2>1. Succeeded(c) = Fresh
    BY <1>1 DEF Succeeded, SucceedHalfOpen, Reset
  <2> QED
    BY <2>1 DEF Fresh
<1>2. CASE c.state = "half_open" /\ ~ (c.successes + 1 >= HalfOpenMax)
  <2>1. Succeeded(c) = [state |-> c.state, failures |-> c.failures,
          successes |-> c.successes + 1, slots |-> c.slots,
          cooled |-> c.cooled]
    BY <1>2 DEF Succeeded, SucceedHalfOpen
  <2> QED
    BY <1>2, <2>1
<1>3. CASE c.state = "closed"
  <2>1. Succeeded(c) = [state |-> c.state, failures |-> 0,
          successes |-> c.successes, slots |-> c.slots, cooled |-> c.cooled]
    BY <1>3 DEF Succeeded
  <2> QED
    BY <1>3, <2>1
<1>4. CASE c.state = "open"
  <2>1. Succeeded(c) = c
    BY <1>4 DEF Succeeded
  <2> QED
    BY <2>1
<1> QED
  BY <1>1, <1>2, <1>3, <1>4

LEMMA FailSound ==
  ASSUME NEW t \in Tiers, NEW c, NEW n, Sound(t, c, n)
  PROVE  Sound(t, Failed(c, Threshold[t]), n)
<1> USE SlotAssumption, RouterAssumption DEF Sound
<1> DEFINE f == Failed(c, Threshold[t])
           k == IF c.failures + 1 >= Threshold[t] THEN Threshold[t]
                ELSE c.failures + 1
           trips == c.state = "half_open"
                      \/ (c.state = "closed" /\ k = Threshold[t])
<1>1. f = [state |-> IF trips THEN "open" ELSE c.state, failures |-> k,
           successes |-> c.successes, slots |-> c.slots,
           cooled |-> IF trips THEN FALSE ELSE c.cooled]
  BY DEF Failed
<1>2. k \in Nat /\ k <= Threshold[t]
  OBVIOUS
<1>3. /\ f.state = (IF trips THEN "open" ELSE c.state)
      /\ f.failures = k /\ f.successes = c.successes /\ f.slots = c.slots
  BY <1>1
<1>4. f \in Circuit
  <2>1. c \in Circuit
    OBVIOUS
  <2>2. (IF trips THEN "open" ELSE c.state) \in {"closed", "open", "half_open"}
    BY <2>1
  <2>3. (IF trips THEN FALSE ELSE c.cooled) \in BOOLEAN
    BY <2>1
  <2>4. c.successes \in Nat /\ c.slots \in Nat
    BY <2>1
  <2>5. PICK s \in {"closed", "open", "half_open"} :
          s = IF trips THEN "open" ELSE c.state
    BY <2>2
  <2>6. PICK x \in BOOLEAN : x = IF trips THEN FALSE ELSE c.cooled
    BY <2>3
  <2>7. f = [state |-> s, failures |-> k, successes |-> c.successes,
             slots |-> c.slots, cooled |-> x]
    BY <1>1, <2>5, <2>6, Zenon
  <2> HIDE DEF f, trips, k
  <2> QED
    BY <1>2, <2>4, <2>7
<1>5. CASE c.state = "closed" /\ k # Threshold[t]
  BY <1>2, <1>3, <1>4, <1>5
<1>6. CASE c.state = "closed" /\ k = Threshold[t]
  BY <1>2, <1>3, <1>4, <1>6
<1>7. CASE c.state # "closed"
  <2>1. k = Threshold[t]
    BY <1>7
  <2> QED
    BY <1>3, <1>4, <1>7, <2>1
<1> QED
  BY <1>5, <1>6, <1>7

-----------------------------------------------------------------------------
(* The steps.                                                              *)

(* Asking a tier's breaker, at its own question or behind the router's     *)
(* gate, keeps the circuits sound.                                         *)
LEMMA AskCircuits ==
  ASSUME Circuits, NEW t \in Tiers, NEW c,
         c = circuit[t] \/ c = Asked(circuit[t]), Ask(t, c)
  PROVE  Circuits'
<1> DEFINE d == circuit[t]
           base == IF Checked(d) = d THEN tests[t] ELSE 0
           n == base + (IF Admits(c) /\ Checked(c).state = "half_open"
                        THEN 1 ELSE 0)
<1>1. /\ circuit' = [circuit EXCEPT ![t] = Asked(c)]
      /\ tests' = [tests EXCEPT ![t] = n]
  BY DEF Ask
<1>2. Sound(t, d, tests[t])
  BY DEF Circuits
<1>3. /\ Sound(t, Asked(d), base)
      /\ Admits(d) /\ Checked(d).state = "half_open"
           => Sound(t, Asked(d), base + 1)
  BY <1>2, AskSound
<1>4. base \in Nat
  BY DEF Circuits
<1>5. Sound(t, Asked(c), n)
  <2>1. CASE c = d
    <3>1. CASE Admits(d) /\ Checked(d).state = "half_open"
      <4>1. n = base + 1
        BY <2>1, <3>1
      <4> QED
        BY <1>3, <2>1, <3>1, <4>1
    <3>2. CASE ~ (Admits(d) /\ Checked(d).state = "half_open")
      <4>1. n = base
        BY <1>4, <2>1, <3>2
      <4> QED
        BY <1>3, <2>1, <4>1
    <3> QED
      BY <3>1, <3>2
  <2>2. CASE c = Asked(d)
    <3>1. Checked(c) = c
      <4>1. Checked(d).state # "open" \/ ~ Checked(d).cooled
        BY <1>2 DEF Checked, Sound
      <4>2. CASE Checked(d).state = "half_open" /\ Checked(d).slots < HalfOpenMax
        BY <2>2, <4>2 DEF Asked, Checked
      <4>3. CASE ~ (Checked(d).state = "half_open"
                      /\ Checked(d).slots < HalfOpenMax)
        BY <2>2, <4>1, <4>3 DEF Asked, Checked
      <4> QED
        BY <4>2, <4>3
    <3>2. /\ Sound(t, Asked(c), base)
          /\ Admits(c) /\ Checked(c).state = "half_open"
               => Sound(t, Asked(c), base + 1)
      BY <1>3, <2>2, <3>1, AskSound
    <3>3. CASE Admits(c) /\ Checked(c).state = "half_open"
      <4>1. n = base + 1
        BY <3>3
      <4> QED
        BY <3>2, <3>3, <4>1
    <3>4. CASE ~ (Admits(c) /\ Checked(c).state = "half_open")
      <4>1. n = base
        BY <1>4, <3>4
      <4> QED
        BY <3>2, <4>1
    <3> QED
      BY <3>3, <3>4
  <2> QED
    BY <2>1, <2>2
<1> HIDE DEF n
<1>6. Asked(c) \in Circuit /\ n \in Nat
  BY <1>5 DEF Sound
<1>7. /\ circuit' \in [Tiers -> Circuit] /\ tests' \in [Tiers -> Nat]
      /\ circuit'[t] = Asked(c) /\ tests'[t] = n
      /\ \A s \in Tiers \ {t} : circuit'[s] = circuit[s] /\ tests'[s] = tests[s]
  BY <1>1, <1>6 DEF Circuits
<1>8. ASSUME NEW s \in Tiers
      PROVE  Sound(s, circuit'[s], tests'[s])
  <2>1. CASE s = t
    BY <1>5, <1>7, <2>1
  <2>2. CASE s # t
    <3>1. circuit'[s] = circuit[s] /\ tests'[s] = tests[s]
      BY <1>7, <2>2
    <3>2. Sound(s, circuit[s], tests[s])
      BY DEF Circuits
    <3> QED
      BY <3>1, <3>2
  <2> QED
    BY <2>1, <2>2
<1> QED
  BY <1>7, <1>8 DEF Circuits

(* A result recorded on one circuit keeps them all sound.                  *)
LEMMA RecordCircuits ==
  ASSUME Circuits, NEW t \in Tiers, NEW c, Sound(t, c, tests[t]),
         circuit' = [circuit EXCEPT ![t] = c], UNCHANGED tests
  PROVE  Circuits'
<1>1. c \in Circuit
  BY DEF Sound
<1>2. /\ circuit' \in [Tiers -> Circuit] /\ tests' \in [Tiers -> Nat]
      /\ circuit'[t] = c
      /\ \A s \in Tiers \ {t} : circuit'[s] = circuit[s]
  BY <1>1 DEF Circuits
<1>3. ASSUME NEW s \in Tiers
      PROVE  Sound(s, circuit'[s], tests'[s])
  <2>1. CASE s = t
    <3>1. circuit'[s] = c /\ tests'[s] = tests[t]
      BY <1>2, <2>1
    <3> QED
      BY <2>1, <3>1
  <2>2. CASE s # t
    <3>1. circuit'[s] = circuit[s] /\ tests'[s] = tests[s]
      BY <1>2, <2>2
    <3>2. Sound(s, circuit[s], tests[s])
      BY DEF Circuits
    <3> QED
      BY <3>1, <3>2
  <2> QED
    BY <2>1, <2>2
<1> QED
  BY <1>2, <1>3 DEF Circuits

(* A request's next place in its chain.                                    *)
LEMMA BecomeOK ==
  ASSUME RequestsOK, NEW r \in Requests, NEW at \in Step,
         NEW left \in Seq(Tiers), NEW n \in Nat,
         at \in {"calling", "backoff"} => left # << >>,
         Become(r, at, left, n)
  PROVE  RequestsOK'
<1> DEFINE q == [at |-> at, left |-> left, attempt |-> n]
<1>1. q \in [at : Step, left : Seq(Tiers), attempt : Nat]
  OBVIOUS
<1>2. q.at = at /\ q.left = left
  OBVIOUS
<1>3. request' = [request EXCEPT ![r] = q]
  BY DEF Become
<1> HIDE DEF q
<1>4. request' \in [Requests -> [at : Step, left : Seq(Tiers), attempt : Nat]]
  BY <1>1, <1>3 DEF RequestsOK
<1>5. \A s \in Requests : request'[s] = IF s = r THEN q ELSE request[s]
  BY <1>3 DEF RequestsOK
<1>6. ASSUME NEW s \in Requests, request'[s].at \in {"calling", "backoff"}
      PROVE  request'[s].left # << >>
  <2>1. CASE s = r
    BY <1>2, <1>5, <1>6, <2>1
  <2>2. CASE s # r
    BY <1>5, <1>6, <2>2 DEF RequestsOK
  <2> QED
    BY <2>1, <2>2
<1> QED
  BY <1>4, <1>6 DEF RequestsOK

LEMMA IdleOK ==
  ASSUME RequestsOK, NEW r \in Requests, Become(r, "idle", << >>, 0)
  PROVE  RequestsOK'
<1>1. << >> \in Seq(Tiers) /\ "idle" \in Step
  BY DEF Step
<1>2. "idle" \notin {"calling", "backoff"}
  OBVIOUS
<1> QED
  BY <1>1, <1>2, BecomeOK

(* Where a request stands after a step that moved it.                      *)
LEMMA BecomeGives ==
  ASSUME RequestsOK, NEW r \in Requests, NEW at, NEW left, NEW n,
         Become(r, at, left, n)
  PROVE  request'[r].at = at /\ request'[r].left = left
<1> DEFINE q == [at |-> at, left |-> left, attempt |-> n]
<1>1. request'[r] = q
  BY DEF RequestsOK, Become
<1> QED
  BY <1>1

LEMMA AgainOK ==
  ASSUME RequestsOK, NEW r \in Requests, request[r].left # << >>,
         TryAgainOrNext(r)
  PROVE  RequestsOK'
<1> DEFINE left == request[r].left
           n == request[r].attempt
<1>1. left \in Seq(Tiers) /\ n \in Nat
  BY DEF RequestsOK
<1>2. Tail(left) \in Seq(Tiers)
  BY <1>1
<1>3. CASE Become(r, "backoff", left, n + 1)
  BY <1>1, <1>3, BecomeOK DEF Step
<1>4. CASE Become(r, "walking", Tail(left), 0)
  BY <1>2, <1>4, BecomeOK DEF Step
<1> QED
  BY <1>3, <1>4 DEF TryAgainOrNext

LEMMA TierOK ==
  ASSUME RequestsOK, NEW r \in Requests, request[r].left # << >>
  PROVE  Tier(r) \in Tiers
BY DEF RequestsOK, Tier

(* A refusal met on an open, uncooled circuit.                             *)
LEMMA OpenRefuses ==
  ASSUME NEW c, c.state = "open", ~ c.cooled
  PROVE  ~ Admits(c) /\ Asked(c) = c
BY DEF Admits, Asked, Checked

LEMMA InitIInv == Init => IInv
<1> SUFFICES ASSUME Init PROVE IInv
  OBVIOUS
<1> USE SlotAssumption, RouterAssumption DEF Init
<1>1. Fresh \in Circuit
  BY DEF Fresh
<1>2. ASSUME NEW t \in Tiers
      PROVE  Sound(t, circuit[t], tests[t])
  BY <1>1 DEF Sound, Fresh
<1>3. Circuits
  BY <1>1, <1>2 DEF Circuits
<1>4. Idle \in [at : Step, left : Seq(Tiers), attempt : Nat]
  BY DEF Idle, Step
<1>5. RequestsOK
  BY <1>4 DEF RequestsOK, Idle
<1> QED
  BY <1>3, <1>5 DEF IInv

(* What every service step does to the circuits and to its request.        *)
LEMMA ServeIInv ==
  ASSUME IInv, NEW r \in Requests, Serve(r)
  PROVE  IInv'
<1> DEFINE t == Tier(r)
           left == request[r].left
<1>1. Circuits /\ RequestsOK
  BY DEF IInv
<1>2. left \in Seq(Tiers) /\ request[r].attempt \in Nat
  BY <1>1 DEF RequestsOK
<1>3. left # << >> => t \in Tiers /\ Tail(left) \in Seq(Tiers)
  BY <1>1, <1>2, TierOK
<1>4. Gate(circuit[t]) = circuit[t] \/ Gate(circuit[t]) = Asked(circuit[t])
  BY DEF Gate
<1>5. CASE Begin(r)
  <2>1. left # << >> /\ Ask(t, Gate(circuit[t]))
          /\ Become(r, "calling", left, 0)
    BY <1>5 DEF Begin
  <2>2. Circuits'
    BY <1>1, <1>3, <1>4, <2>1, AskCircuits
  <2>3. RequestsOK'
    BY <1>1, <1>2, <2>1, BecomeOK DEF Step
  <2> QED
    BY <2>2, <2>3 DEF IInv
<1>6. CASE Refused(r)
  <2>1. left # << >> /\ Ask(t, Gate(circuit[t]))
    BY <1>6 DEF Refused
  <2>2. Circuits'
    BY <1>1, <1>3, <1>4, <2>1, AskCircuits
  <2>3. CASE Become(r, "walking", Tail(left), 0)
    BY <1>1, <1>3, <2>1, <2>2, <2>3, BecomeOK DEF Step, IInv
  <2>4. CASE TryAgainOrNext(r)
    BY <1>1, <2>1, <2>2, <2>4, AgainOK DEF IInv
  <2> QED
    BY <1>6, <2>3, <2>4 DEF Refused
<1>7. CASE GiveUp(r)
  <2>1. Become(r, "idle", << >>, 0)
    BY <1>7 DEF GiveUp, Become, Idle
  <2>2. RequestsOK'
    BY <1>1, <2>1, IdleOK
  <2>3. UNCHANGED << circuit, tests >>
    BY <1>7 DEF GiveUp
  <2>4. Circuits'
    BY <1>1, <2>3 DEF Circuits
  <2> QED
    BY <2>2, <2>4 DEF IInv
<1>8. CASE Return(r)
  <2>1. /\ request[r].at = "calling" /\ UNCHANGED tests
        /\ circuit' = [circuit EXCEPT ![t] = Succeeded(circuit[t])]
    BY <1>8 DEF Return
  <2>2. left # << >>
    BY <1>1, <2>1 DEF RequestsOK
  <2>3. Sound(t, Succeeded(circuit[t]), tests[t])
    BY <1>1, <1>3, <2>2, SucceedSound DEF Circuits
  <2>4. Circuits'
    BY <1>1, <1>3, <2>1, <2>2, <2>3, RecordCircuits
  <2>5. CASE request' = [request EXCEPT ![r] = Idle]
    <3>1. Become(r, "idle", << >>, 0)
      BY <2>5 DEF Become, Idle
    <3>2. RequestsOK'
      BY <1>1, <3>1, IdleOK
    <3> QED
      BY <2>4, <3>2 DEF IInv
  <2>6. CASE Become(r, "walking", Tail(left), 0)
    BY <1>1, <1>3, <2>2, <2>4, <2>6, BecomeOK DEF Step, IInv
  <2> QED
    BY <1>8, <2>5, <2>6 DEF Return
<1>9. CASE Raise(r)
  <2>1. /\ request[r].at = "calling" /\ UNCHANGED tests
        /\ circuit' = [circuit EXCEPT ![t] = Failed(circuit[t], Threshold[t])]
        /\ TryAgainOrNext(r)
    BY <1>9 DEF Raise
  <2>2. left # << >>
    BY <1>1, <2>1 DEF RequestsOK
  <2>3. Sound(t, Failed(circuit[t], Threshold[t]), tests[t])
    BY <1>1, <1>3, <2>2, FailSound DEF Circuits
  <2>4. Circuits'
    BY <1>1, <1>3, <2>1, <2>2, <2>3, RecordCircuits
  <2> QED
    BY <1>1, <2>1, <2>2, <2>4, AgainOK DEF IInv
<1>10. CASE Retry(r)
  <2>1. request[r].at = "backoff" /\ Ask(t, circuit[t])
    BY <1>10 DEF Retry
  <2>2. left # << >>
    BY <1>1, <2>1 DEF RequestsOK
  <2>3. Circuits'
    BY <1>1, <1>3, <2>1, <2>2, AskCircuits
  <2>4. CASE Become(r, "calling", left, request[r].attempt)
    BY <1>1, <1>2, <2>2, <2>3, <2>4, BecomeOK DEF Step, IInv
  <2>5. CASE TryAgainOrNext(r)
    BY <1>1, <2>2, <2>3, <2>5, AgainOK DEF IInv
  <2> QED
    BY <1>10, <2>4, <2>5 DEF Retry
<1> QED
  BY <1>5, <1>6, <1>7, <1>8, <1>9, <1>10 DEF Serve

LEMMA CooledSound ==
  ASSUME NEW t \in Tiers, NEW c, NEW n, Sound(t, c, n)
  PROVE  Sound(t, [c EXCEPT !.cooled = TRUE], n)
<1> DEFINE d == [c EXCEPT !.cooled = TRUE]
<1>1. c \in Circuit
  BY DEF Sound
<1>2. /\ d \in Circuit /\ d.state = c.state /\ d.failures = c.failures
      /\ d.successes = c.successes /\ d.slots = c.slots
  BY <1>1
<1> HIDE DEF d
<1> QED
  BY <1>2 DEF Sound

LEMMA NextIInv == IInv /\ [Next]_vars => IInv'
<1> SUFFICES ASSUME IInv, [Next]_vars PROVE IInv'
  OBVIOUS
<1>1. Circuits /\ RequestsOK
  BY DEF IInv
<1>2. ASSUME NEW r \in Requests, NEW chain \in Chains, Submit(r, chain)
      PROVE  IInv'
  <2>1. chain \in Seq(Tiers)
    BY RouterAssumption
  <2>2. Become(r, "walking", chain, 0) /\ UNCHANGED << circuit, tests >>
    BY <1>2 DEF Submit
  <2>3. RequestsOK'
    BY <1>1, <2>1, <2>2, BecomeOK DEF Step
  <2>4. Circuits'
    BY <1>1, <2>2 DEF Circuits
  <2> QED
    BY <2>3, <2>4 DEF IInv
<1>3. ASSUME NEW r \in Requests, Serve(r)
      PROVE  IInv'
  BY <1>3, ServeIInv
<1>4. ASSUME NEW t \in Tiers, Cool(t)
      PROVE  IInv'
  <2> DEFINE d == [circuit[t] EXCEPT !.cooled = TRUE]
  <2>1. Sound(t, circuit[t], tests[t])
    BY <1>1 DEF Circuits
  <2>3. Sound(t, d, tests[t])
    BY <2>1, CooledSound
  <2>4. circuit' = [circuit EXCEPT ![t] = d] /\ UNCHANGED << request, tests >>
    BY <1>4, Zenon DEF Cool
  <2>5. Circuits'
    BY <1>1, <2>3, <2>4, RecordCircuits
  <2>6. RequestsOK'
    BY <1>1, <2>4 DEF RequestsOK
  <2> QED
    BY <2>5, <2>6 DEF IInv
<1>5. CASE UNCHANGED vars
  <2>1. circuit' = circuit /\ request' = request /\ tests' = tests
    BY <1>5 DEF vars
  <2> QED
    BY <1>1, <2>1 DEF IInv, Circuits, RequestsOK
<1> QED
  BY <1>2, <1>3, <1>4, <1>5 DEF Next

-----------------------------------------------------------------------------
(* The theorems.                                                           *)

(* Every reachable state of the router has sound circuits and requests     *)
(* that stand where their chains allow.                                    *)
THEOREM Inductive == Spec => []IInv
<1>1. Init => IInv
  BY InitIInv
<1>2. IInv /\ [Next]_vars => IInv'
  BY NextIInv
<1> QED
  BY <1>1, <1>2, PTL DEF Spec

(* Every variable keeps its type: TypeOK is not inductive, a call must     *)
(* find the tier it was made for still at the head of its chain.           *)
THEOREM RouterTypeCorrect == Spec => []TypeOK
<1>1. IInv => TypeOK
  BY DEF IInv, Circuits, RequestsOK, TypeOK
<1> QED
  BY <1>1, Inductive, PTL

(* The counters a circuit is found with fit its state.                     *)
THEOREM RouterCountersFit == Spec => []CountersFit
<1>1. IInv => CountersFit
  BY DEF IInv, Circuits, Sound, CountersFit
<1> QED
  BY <1>1, Inductive, PTL

(* A half-open circuit lets at most half_open_max_calls calls through.     *)
THEOREM RouterFewTests == Spec => []FewTests
<1>1. IInv => FewTests
  <2> SUFFICES ASSUME IInv, NEW t \in Tiers, circuit[t].state = "half_open"
               PROVE  tests[t] <= HalfOpenMax
    BY DEF FewTests
  <2>1. Sound(t, circuit[t], tests[t])
    BY DEF IInv, Circuits
  <2> QED
    BY <2>1, SlotAssumption DEF Sound
<1> QED
  BY <1>1, Inductive, PTL

(* No call of a tier begins while its circuit is open and waiting.         *)
THEOREM RouterOpenShields == Spec => OpenShields
<1>1. IInv /\ [Next]_vars =>
        [\A t \in Tiers : circuit[t].state = "open" /\ ~ circuit[t].cooled =>
           \A r \in Requests : Busy(r, t)' => Busy(r, t)]_vars
  <2> SUFFICES ASSUME IInv, Next, NEW t \in Tiers,
                      circuit[t].state = "open", ~ circuit[t].cooled,
                      NEW r \in Requests, Busy(r, t)'
               PROVE  Busy(r, t)
    OBVIOUS
  <2>1. ~ Admits(circuit[t]) /\ Asked(circuit[t]) = circuit[t]
    BY OpenRefuses
  <2>2. request \in [Requests -> [at : Step, left : Seq(Tiers), attempt : Nat]]
    BY DEF IInv, RequestsOK
  <2>3. CASE request'[r] = request[r]
    BY <2>3 DEF Busy, Tier
  <2>4. CASE request'[r] # request[r]
    <3>1. PICK s \in Requests : Serve(s) \/ \E chain \in Chains : Submit(s, chain)
      BY <2>4 DEF Next, Cool
    <3>2. s = r
      BY <2>2, <2>4, <3>1 DEF Serve, Submit, Begin, Refused, GiveUp, Return,
           Raise, Retry, TryAgainOrNext, Become
    <3>3. request'[r].at = "calling" /\ Head(request'[r].left) = t
      BY DEF Busy, Tier
    <3>4. RequestsOK
      BY DEF IInv
    <3>5. CASE Begin(r)
      <4>0. Become(r, "calling", request[r].left, 0)
        BY <3>5 DEF Begin
      <4>1. request'[r].left = request[r].left /\ Admits(Gate(circuit[Tier(r)]))
        BY <3>4, <3>5, <4>0, BecomeGives DEF Begin
      <4>2. Tier(r) = t
        BY <3>3, <4>1 DEF Tier
      <4>3. Gate(circuit[t]) = circuit[t]
        BY <2>1 DEF Gate
      <4> QED
        BY <2>1, <4>1, <4>2, <4>3
    <3>6. CASE Retry(r) /\ Admits(circuit[Tier(r)])
      <4>0. Become(r, "calling", request[r].left, request[r].attempt)
        BY <3>6 DEF Retry
      <4>1. request'[r].left = request[r].left
        BY <3>4, <4>0, BecomeGives
      <4>2. Tier(r) = t
        BY <3>3, <4>1 DEF Tier
      <4> QED
        BY <2>1, <3>6, <4>2
    <3>7. TryAgainOrNext(r) => request'[r].at # "calling"
      <4>1. \A left, n : ~ (Become(r, "backoff", left, n)
                              /\ request'[r].at = "calling")
        BY <3>4, BecomeGives
      <4>2. \A left, n : ~ (Become(r, "walking", left, n)
                              /\ request'[r].at = "calling")
        BY <3>4, BecomeGives
      <4> QED
        BY <4>1, <4>2, Zenon DEF TryAgainOrNext
    <3>8. ~ Refused(r) /\ ~ Raise(r) /\ ~ (Retry(r) /\ ~ Admits(circuit[Tier(r)]))
      <4>1. \A left, n : ~ Become(r, "walking", left, n)
        BY <3>3, <3>4, BecomeGives
      <4>2. ~ TryAgainOrNext(r)
        BY <3>3, <3>7
      <4> QED
        BY <4>1, <4>2, Zenon DEF Refused, Raise, Retry
    <3>9. ~ GiveUp(r) /\ ~ Return(r) /\ \A chain \in Chains : ~ Submit(r, chain)
      <4>1. request' = [request EXCEPT ![r] = Idle] => request'[r].at # "calling"
        BY <2>2 DEF Idle
      <4>2. \A left, n : ~ Become(r, "walking", left, n)
        BY <3>3, <3>4, BecomeGives
      <4> QED
        BY <3>3, <4>1, <4>2, Zenon DEF GiveUp, Return, Submit
    <3> QED
      BY <3>1, <3>2, <3>5, <3>6, <3>8, <3>9 DEF Serve
  <2> QED
    BY <2>3, <2>4
<1> QED
  BY <1>1, Inductive, PTL DEF Spec, OpenShields
=============================================================================
