------------------------------ MODULE AiRouter ------------------------------
(***************************************************************************)
(* Requests to the language models through one circuit breaker per tier:   *)
(* the walk down the fallback chain (_call_with_fallback, llm_source and   *)
(* call_raw of the bot; FallbackEngine of the gateway), and around each    *)
(* call the stack retry -> circuit breaker -> timeout of                   *)
(* ResilienceOrchestrator.                                                 *)
(*                                                                         *)
(* The bot asks the breaker twice: its router calls can_execute before     *)
(* handler.execute, and CircuitBreaker.execute calls it again.  The        *)
(* gateway's adapter calls handler.execute alone.  Gated tells which of    *)
(* the two is modelled.  Nothing between the router's question and the     *)
(* breaker's own suspends, so the two are one step.                        *)
(*                                                                         *)
(* Of the gateway's two engines bootstrap.py wires that of                 *)
(* routing/service.py, whose walk is the one of Serve.  It hands the       *)
(* adapter one AIRequest where OpenAICompatibleAdapter.invoke takes model  *)
(* and messages, and the bot handler calls it with the parameters of       *)
(* routing/fallback_engine.py: as wired, a request fails before it gets to *)
(* a breaker.  The model is of the walk with the call as the adapter       *)
(* declares it.                                                            *)
(*                                                                         *)
(* A cancelled call would be neither a success nor a failure               *)
(* (CircuitBreaker.execute catches Exception).  Only the end of the        *)
(* process cancels one, and the circuits end with it: there is no action   *)
(* for it.                                                                 *)
(***************************************************************************)
EXTENDS CircuitBreaker, Sequences

CONSTANTS
  Tiers,      \* the models behind a breaker of their own
  Requests,   \* requests in progress at one time
  Chains,     \* the fallback chains requests walk
  Threshold,  \* failure_threshold of each tier
  MaxRetries, \* max_retries of each tier
  Gated       \* the caller asks can_execute before handler.execute

ASSUME RouterAssumption ==
  /\ Chains \subseteq Seq(Tiers)
  /\ Threshold \in [Tiers -> Nat \ {0}]
  /\ MaxRetries \in [Tiers -> Nat]
  /\ Gated \in BOOLEAN

VARIABLES
  circuit,  \* tier -> its breaker
  request,  \* request -> where it stands in its chain
  tests     \* history: calls begun on the tier since it went half open

vars == << circuit, request, tests >>

Step == {"idle", "walking", "calling", "backoff"}

(* left: the rest of the chain, the tier at hand first; attempt: the       *)
(* number of calls of this tier that already failed.                       *)
TypeOK ==
  /\ circuit \in [Tiers -> Circuit]
  /\ request \in [Requests -> [at : Step, left : Seq(Tiers), attempt : Nat]]
  /\ tests \in [Tiers -> Nat]

Idle == [at |-> "idle", left |-> << >>, attempt |-> 0]

Init ==
  /\ circuit = [t \in Tiers |-> Fresh]
  /\ request = [r \in Requests |-> Idle]
  /\ tests = [t \in Tiers |-> 0]

Tier(r) == Head(request[r].left)

Busy(r, t) == request[r].at = "calling" /\ Tier(r) = t

Become(r, at, left, attempt) ==
  request' = [request EXCEPT ![r] =
                [at |-> at, left |-> left, attempt |-> attempt]]

(* A call of the tier at hand ended badly: RetryHandler tries again after  *)
(* a delay while attempts are left -- a CircuitBreakerError is retried     *)
(* like any other -- and then the router goes to the next tier.            *)
TryAgainOrNext(r) ==
  LET left == request[r].left
      n == request[r].attempt
  IN  \/ /\ n < MaxRetries[Tier(r)]
         /\ Become(r, "backoff", left, n + 1)
      \/ /\ n >= MaxRetries[Tier(r)]
         /\ Become(r, "walking", Tail(left), 0)

(* Seeded defect: the gateway's adapter asks first too.                    *)
GateAlways(c) == Asked(c)

(* The circuit the breaker's own question finds, on a first attempt.       *)
Gate(c) == IF Gated THEN Asked(c) ELSE c

(* The question that precedes a call, of circuit c of tier t: its answer   *)
(* is Admits(c).  tests starts again with the probation.                   *)
Ask(t, c) ==
  /\ circuit' = [circuit EXCEPT ![t] = Asked(c)]
  /\ tests' = [tests EXCEPT ![t] =
       (IF Checked(circuit[t]) = circuit[t] THEN tests[t] ELSE 0)
       + (IF Admits(c) /\ Checked(c).state = "half_open" THEN 1 ELSE 0)]

-----------------------------------------------------------------------------
(* A message, a job or a proposal needs a model.                           *)
Submit(r, chain) ==
  /\ request[r].at = "idle"
  /\ Become(r, "walking", chain, 0)
  /\ UNCHANGED << circuit, tests >>

(* The first attempt on the tier at hand: the gate and the breaker itself  *)
(* let it through and the call is made.                                    *)
Begin(r) ==
  LET t == Tier(r)
      c == Gate(circuit[t])
  IN  /\ request[r].at = "walking" /\ request[r].left # << >>
      /\ Gated => Admits(circuit[t])
      /\ Admits(c)
      /\ Ask(t, c)
      /\ Become(r, "calling", request[r].left, 0)

(* It is let in by neither: a closed gate sends the router to the next     *)
(* tier, the breaker's own refusal is an error that is retried.            *)
Refused(r) ==
  LET t == Tier(r)
      c == Gate(circuit[t])
      gateShut == Gated /\ ~ Admits(circuit[t])
  IN  /\ request[r].at = "walking" /\ request[r].left # << >>
      /\ gateShut \/ ~ Admits(c)
      /\ Ask(t, c)
      /\ IF gateShut
         THEN Become(r, "walking", Tail(request[r].left), 0)
         ELSE TryAgainOrNext(r)

(* The chain is used up: every model is unavailable.                       *)
GiveUp(r) ==
  /\ request[r].at = "walking" /\ request[r].left = << >>
  /\ request' = [request EXCEPT ![r] = Idle]
  /\ UNCHANGED << circuit, tests >>

(* The call returns; an answer the caller cannot read sends it on to the   *)
(* next tier, the breaker has counted a success all the same.              *)
Return(r) ==
  LET t == Tier(r)
  IN  /\ request[r].at = "calling"
      /\ circuit' = [circuit EXCEPT ![t] = Succeeded(circuit[t])]
      /\ \/ request' = [request EXCEPT ![r] = Idle]
         \/ Become(r, "walking", Tail(request[r].left), 0)
      /\ UNCHANGED tests

(* The call raises or its timeout passes.                                  *)
Raise(r) ==
  LET t == Tier(r)
  IN  /\ request[r].at = "calling"
      /\ circuit' = [circuit EXCEPT ![t] = Failed(circuit[t], Threshold[t])]
      /\ TryAgainOrNext(r)
      /\ UNCHANGED tests

(* Seeded defect: the retry goes round the breaker.                        *)
RetryInside(r) ==
  /\ request[r].at = "backoff"
  /\ Become(r, "calling", request[r].left, request[r].attempt)
  /\ UNCHANGED << circuit, tests >>

(* The delay is over: only the breaker itself is asked again.              *)
Retry(r) ==
  LET t == Tier(r)
      c == circuit[t]
  IN  /\ request[r].at = "backoff"
      /\ Ask(t, c)
      /\ IF Admits(c)
         THEN Become(r, "calling", request[r].left, request[r].attempt)
         ELSE TryAgainOrNext(r)

(* recovery_timeout passes since the circuit opened.                       *)
Cool(t) ==
  /\ circuit[t].state = "open" /\ ~ circuit[t].cooled
  /\ circuit' = [circuit EXCEPT ![t].cooled = TRUE]
  /\ UNCHANGED << request, tests >>

Serve(r) ==
  Begin(r) \/ Refused(r) \/ GiveUp(r) \/ Return(r) \/ Raise(r) \/ Retry(r)

Next ==
  \/ \E r \in Requests, chain \in Chains : Submit(r, chain)
  \/ \E r \in Requests : Serve(r)
  \/ \E t \in Tiers : Cool(t)

Spec == Init /\ [][Next]_vars

(* A request in progress is a coroutine the event loop resumes, a call     *)
(* ends by its timeout if not before, and time passes.                     *)
FairSpec ==
  /\ Spec
  /\ \A r \in Requests : WF_vars(Serve(r))
  /\ \A t \in Tiers : WF_vars(Cool(t))

(* Besides, requests for every chain keep coming: scheduled jobs and users *)
(* never stop.                                                             *)
BusySpec ==
  /\ FairSpec
  /\ \A r \in Requests, chain \in Chains : SF_vars(Submit(r, chain))

-----------------------------------------------------------------------------
(* Properties.                                                             *)

(* The counters each state may be found with: a closed circuit starts      *)
(* with no success or slot of an old probation, an open or half-open one   *)
(* has seen its threshold, and no circuit stays half open with all the     *)
(* successes it waits for (record_failure, record_success, _reset).        *)
CountersFit ==
  \A t \in Tiers :
    LET c == circuit[t]
    IN  /\ c.state = "closed" =>
             c.successes = 0 /\ c.slots = 0 /\ c.failures < Threshold[t]
        /\ c.state # "closed" =>
             c.successes < HalfOpenMax /\ c.failures = Threshold[t]

(* A recovering provider is spared: however requests, retries and late     *)
(* results interleave, a half-open circuit lets no more than               *)
(* half_open_max_calls calls through until it opens or closes.             *)
FewTests ==
  \A t \in Tiers : circuit[t].state = "half_open" => tests[t] <= HalfOpenMax

(* Between a trip and the end of recovery_timeout no call of the tier is   *)
(* begun, not by a retry either.                                           *)
OpenShields ==
  [][\A t \in Tiers : circuit[t].state = "open" /\ ~ circuit[t].cooled =>
       \A r \in Requests : Busy(r, t)' => Busy(r, t)]_vars

(* A half-open circuit is only testing: while requests keep coming it      *)
(* closes or opens again.                                                  *)
ProbationEnds ==
  \A t \in Tiers :
    circuit[t].state = "half_open" ~> circuit[t].state # "half_open"
=============================================================================
