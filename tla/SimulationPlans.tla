--------------------------- MODULE SimulationPlans ---------------------------
(***************************************************************************)
(* The V3 simulation plans, the sessions started from them and the agent's *)
(* proposals.  The dashboard (webui/simulation_api.py, simulation_proposal *)
(* .py) and the Telegram bot (chatbot/services/simulation_plans.py,        *)
(* simulation_proposals.py) share one set of rows through the stores of    *)
(* trading_math.  No operation holds a transaction: each is a chain of     *)
(* single statements with awaits in between, so every later statement acts *)
(* on what an earlier one read.                                            *)
(*                                                                         *)
(* What a handler has read is a record of `flight'.  A step reads such a   *)
(* record and leaves it there, because another handler may have read the   *)
(* same (a double press); Leave drops it when the last of them is done or  *)
(* has died.  Every gate that looks at the clock, the quote or the candle  *)
(* coverage may refuse: a refusal changes nothing and is not a step.       *)
(***************************************************************************)
EXTENDS Sequences, Naturals

CONSTANTS
  Plans,        \* ids of plan versions
  Bodies,       \* normalised plans; equal bodies are equal plan hashes
  Sound,        \* the bodies check_plan_semantics has nothing against
  Unparsed,     \* the plan of a draft that never passed normalize_plan
  Keys,         \* idempotency keys of session starts; one session each
  Proposals,    \* ids of proposals
  NoPlan        \* no plan id

ASSUME SoundAreBodies == Sound \subseteq Bodies
ASSUME UnparsedIsNone == Unparsed \notin Bodies
ASSUME NoPlanIsNone   == NoPlan \notin Plans

VARIABLES
  status,         \* of each plan row
  body,           \* its plan (and so its plan_hash)
  consumed,       \* its consumed_by_sessions
  session,        \* the session row of each key
  offer,          \* the proposal rows
  asking,         \* proposals whose agent call is running
  cards,          \* confirmation cards sent to the chat: plan and hash
  flight,         \* what the handlers in flight have read
  toldApproved,   \* answers given: this plan is approved with this hash,
  toldSession,    \* this key started this plan with this hash,
  toldDraft       \* this proposal became this draft

rows == << status, body, consumed, session, offer, asking >>
told == << toldApproved, toldSession, toldDraft >>
vars == << rows, cards, flight, told >>
-----------------------------------------------------------------------------
SessionStates ==
  {"starting", "running", "closing", "settlement_pending", "closed", "rejected", "expired"}

SessionTransitions ==
  [s \in SessionStates |->
     CASE s = "starting"           -> {"running", "rejected", "expired"}
       [] s = "running"            -> {"closing", "expired"}
       [] s = "closing"            -> {"settlement_pending"}
       [] s = "settlement_pending" -> {"closed"}
       [] OTHER                    -> {}]

Contents == Bodies \cup {Unparsed}

SessionRows ==
  [status : SessionStates \cup {"absent"}, plan : Plans \cup {NoPlan},
   body : Contents, log : Seq((SessionStates \cup {"approved"}) \X SessionStates)]

ProposalRows ==
  [status : {"none", "pending", "completed", "failed"}, draft : Contents,
   adopted : Plans \cup {NoPlan}]

\* An approval is fresh until an edit changes the draft it has checked.
Approvals == [op : {"confirmed", "checked", "pinned"}, plan : Plans,
              card : Bodies, fresh : BOOLEAN]
Starts    == [op : {"start", "attach"}, key : Keys, plan : Plans, body : Bodies]
Moves     == [op : {"move"}, key : Keys, from : SessionStates, to : SessionStates]
Adoptions == [op : {"adopt"}, offer : Proposals, draft : Bodies]
Bindings  == [op : {"bind"}, offer : Proposals, plan : Plans]
Jobs      == Approvals \cup Starts \cup Moves \cup Adoptions \cup Bindings

Init ==
  /\ status = [p \in Plans |-> "none"]
  /\ body = [p \in Plans |-> Unparsed]
  /\ consumed = [p \in Plans |-> {}]
  /\ session = [k \in Keys |-> [status |-> "absent", plan |-> NoPlan,
                                body |-> Unparsed, log |-> << >>]]
  /\ offer = [q \in Proposals |-> [status |-> "none", draft |-> Unparsed,
                                   adopted |-> NoPlan]]
  /\ asking = {}
  /\ cards = {}
  /\ flight = {}
  /\ toldApproved = {} /\ toldSession = {} /\ toldDraft = {}

Leave ==
  /\ \E j \in flight : flight' = flight \ {j}
  /\ UNCHANGED << rows, cards, told >>
-----------------------------------------------------------------------------
(* Plans.                                                                  *)

\* create_plan of the store, for a form, a chat draft or an adopted proposal.
Insert(p, b) ==
  /\ status[p] = "none"
  /\ status' = [status EXCEPT ![p] = "draft"]
  /\ body' = [body EXCEPT ![p] = b]
  /\ UNCHANGED << consumed, session, offer, asking >>

CreateDraft(p, b) == Insert(p, b) /\ UNCHANGED << cards, flight, told >>

Stale(p) ==
  {IF j \in Approvals /\ j.plan = p THEN [j EXCEPT !.fresh = FALSE] ELSE j : j \in flight}

\* Seeded defect: the status is not part of the statement.
EditAnyPlan(p, b) ==
  /\ status[p] # "none"
  /\ body' = [body EXCEPT ![p] = b]
  /\ flight' = Stale(p)
  /\ UNCHANGED << status, consumed, session, offer, asking, cards, told >>

\* replace_draft: both surfaces end in this statement.  What set_field read
\* before it decides nothing more: the merged plan may be any body.
EditDraft(p, b) ==
  /\ status[p] = "draft"
  /\ body' = [body EXCEPT ![p] = b]
  /\ flight' = Stale(p)
  /\ UNCHANGED << status, consumed, session, offer, asking, cards, told >>

\* approve_step1: the card names the version it was drawn for.
ShowCard(p) ==
  /\ status[p] = "draft" /\ body[p] \in Sound
  /\ cards' = cards \cup {<< p, body[p] >>}
  /\ UNCHANGED << rows, flight, told >>

Approving(p, b) ==
  [op |-> "confirmed", plan |-> p, card |-> b, fresh |-> TRUE]

\* Seeded defect: the card names the plan only.
ConfirmByName(p, b) ==
  /\ << p, b >> \in cards
  /\ status[p] = "draft" /\ body[p] \in Sound
  /\ flight' = flight \cup {Approving(p, b)}
  /\ UNCHANGED << rows, cards, told >>

\* approve_step2 and approve: the row must still have the card's hash.
Confirm(p, b) ==
  /\ << p, b >> \in cards
  /\ status[p] = "draft" /\ body[p] = b
  /\ flight' = flight \cup {Approving(p, b)}
  /\ UNCHANGED << rows, cards, told >>

\* The dashboard approves whatever the row holds, if it is sound.
ApproveOnWeb(p) ==
  /\ status[p] = "draft" /\ body[p] \in Sound
  /\ flight' = flight \cup {Approving(p, body[p])}
  /\ UNCHANGED << rows, cards, told >>

\* approve_plan of the store: read the status, write, read the answer.
CheckDraft(j) ==
  /\ j.op = "confirmed" /\ status[j.plan] = "draft"
  /\ flight' = flight \cup {[j EXCEPT !.op = "checked"]}
  /\ UNCHANGED << rows, cards, told >>

Pin(j) ==
  /\ j.op = "checked"
  /\ status' = [status EXCEPT ![j.plan] = IF @ = "draft" THEN "approved" ELSE @]
  /\ flight' = flight \cup {[j EXCEPT !.op = "pinned"]}
  /\ UNCHANGED << body, consumed, session, offer, asking, cards, told >>

AnswerApproval(j) ==
  /\ j.op = "pinned"
  /\ toldApproved' = toldApproved \cup {<< j.plan, body[j.plan] >>}
  /\ UNCHANGED << rows, cards, flight, toldSession, toldDraft >>
-----------------------------------------------------------------------------
(* Sessions.                                                               *)

\* create_session of the API, up to the start gate.
StartSession(k, p) ==
  /\ status[p] = "approved" /\ body[p] # Unparsed
  /\ flight' = flight \cup {[op |-> "start", key |-> k, plan |-> p, body |-> body[p]]}
  /\ UNCHANGED << rows, cards, told >>

Taken(k) == session[k].status # "absent"
Started(j) == << j.key, j.plan, j.body >>

InsertSession(j) ==
  /\ j.op = "start" /\ ~ Taken(j.key)
  /\ session' = [session EXCEPT ![j.key] =
                   [status |-> "starting", plan |-> j.plan, body |-> j.body,
                    log |-> << << "approved", "starting" >> >>]]
  /\ flight' = flight \cup {[j EXCEPT !.op = "attach"]}
  /\ UNCHANGED << status, body, consumed, offer, asking, cards, told >>

SamePayload(j) == session[j.key].plan = j.plan /\ session[j.key].body = j.body

\* The key is taken: the same payload is answered with the stored session,
\* another one is refused.
ReplaySession(j) ==
  /\ j.op = "start" /\ Taken(j.key) /\ SamePayload(j)
  /\ toldSession' = toldSession \cup {Started(j)}
  /\ UNCHANGED << rows, cards, flight, toldApproved, toldDraft >>

AttachSession(j) ==
  /\ j.op = "attach"
  /\ consumed' = [consumed EXCEPT ![j.plan] = @ \cup {j.key}]
  /\ toldSession' = toldSession \cup {Started(j)}
  /\ UNCHANGED << status, body, session, offer, asking, cards, flight,
                  toldApproved, toldDraft >>

\* transition_session: read the row, then write if it still has that status.
ReadMove(k, to) ==
  /\ Taken(k) /\ to \in SessionTransitions[session[k].status]
  /\ flight' = flight \cup
       {[op |-> "move", key |-> k, from |-> session[k].status, to |-> to]}
  /\ UNCHANGED << rows, cards, told >>

Step(j) ==
  session' = [session EXCEPT ![j.key].status = j.to,
                             ![j.key].log = Append(@, << j.from, j.to >>)]

\* Seeded defect: the UPDATE does not compare the status.
MoveBlindly(j) ==
  /\ j.op = "move"
  /\ Step(j)
  /\ UNCHANGED << status, body, consumed, offer, asking, cards, flight, told >>

Move(j) ==
  /\ j.op = "move" /\ session[j.key].status = j.from
  /\ Step(j)
  /\ UNCHANGED << status, body, consumed, offer, asking, cards, flight, told >>
-----------------------------------------------------------------------------
(* Proposals.                                                              *)

\* The row is inserted before the agent is asked.
Propose(q) ==
  /\ offer[q].status = "none"
  /\ offer' = [offer EXCEPT ![q].status = "pending"]
  /\ asking' = asking \cup {q}
  /\ UNCHANGED << status, body, consumed, session, cards, flight, told >>

Answers ==
  [status : {"completed"}, draft : Contents, adopted : {NoPlan}]
    \cup [status : {"failed"}, draft : {Unparsed}, adopted : {NoPlan}]

\* Seeded defect: the agent is asked again on the same record.
SettleAndAskAgain(q) ==
  /\ q \in asking
  /\ \E r \in Answers : offer' = [offer EXCEPT ![q] = r]
  /\ UNCHANGED << status, body, consumed, session, asking, cards, flight, told >>

\* run_proposal ends, by an answer, an error or the timeout: save writes the
\* whole result, the binding of the record it was started with included.
SettleProposal(q) ==
  /\ q \in asking
  /\ \E r \in Answers : offer' = [offer EXCEPT ![q] = r]
  /\ asking' = asking \ {q}
  /\ UNCHANGED << status, body, consumed, session, cards, flight, told >>

\* The process dies or the save fails: the row stays pending.
LoseProposal(q) ==
  /\ asking' = asking \ {q}
  /\ q \in asking
  /\ UNCHANGED << status, body, consumed, session, offer, cards, flight, told >>

\* adopt, on the row it read: refused unless the validator passed the draft.
Adopt(q) ==
  /\ offer[q].status = "completed" /\ offer[q].adopted = NoPlan
  /\ offer[q].draft \in Sound
  /\ flight' = flight \cup {[op |-> "adopt", offer |-> q, draft |-> offer[q].draft]}
  /\ UNCHANGED << rows, cards, told >>

\* A second tap that finds the binding answers with the draft that exists.
AdoptAgain(q) ==
  /\ offer[q].adopted # NoPlan
  /\ toldDraft' = toldDraft \cup {<< q, offer[q].adopted >>}
  /\ UNCHANGED << rows, cards, flight, toldApproved, toldSession >>

DraftFromOffer(j, p) ==
  /\ j.op = "adopt"
  /\ Insert(p, j.draft)
  /\ flight' = flight \cup {[op |-> "bind", offer |-> j.offer, plan |-> p]}
  /\ UNCHANGED << cards, told >>

\* mark_adopted: the last tap's draft replaces the binding of an earlier one.
Bind(j) ==
  /\ j.op = "bind"
  /\ offer' = [offer EXCEPT ![j.offer].adopted = j.plan]
  /\ toldDraft' = toldDraft \cup {<< j.offer, j.plan >>}
  /\ UNCHANGED << status, body, consumed, session, asking, cards, flight,
                  toldApproved, toldSession >>
-----------------------------------------------------------------------------
Planning ==
  \/ \E p \in Plans : ShowCard(p) \/ ApproveOnWeb(p)
  \/ \E p \in Plans, b \in Contents : CreateDraft(p, b) \/ EditDraft(p, b)
  \/ \E p \in Plans, b \in Bodies : Confirm(p, b)
  \/ \E j \in flight : CheckDraft(j) \/ Pin(j) \/ AnswerApproval(j)

Trading ==
  \/ \E k \in Keys, p \in Plans : StartSession(k, p)
  \/ \E k \in Keys, to \in SessionStates : ReadMove(k, to)
  \/ \E j \in flight : InsertSession(j) \/ ReplaySession(j) \/ AttachSession(j) \/ Move(j)

Proposing ==
  \/ \E q \in Proposals : \/ Propose(q) \/ SettleProposal(q) \/ LoseProposal(q)
                          \/ Adopt(q) \/ AdoptAgain(q)
  \/ \E j \in flight : Bind(j) \/ \E p \in Plans : DraftFromOffer(j, p)

Next == Planning \/ Trading \/ Proposing \/ Leave
Spec == Init /\ [][Next]_vars
-----------------------------------------------------------------------------
TypeOK ==
  /\ status \in [Plans -> {"none", "draft", "approved"}]
  /\ body \in [Plans -> Contents]
  /\ consumed \in [Plans -> SUBSET Keys]
  /\ session \in [Keys -> SessionRows]
  /\ offer \in [Proposals -> ProposalRows]
  /\ asking \subseteq Proposals
  /\ cards \subseteq Plans \X Bodies
  /\ flight \subseteq Jobs
  /\ toldApproved \subseteq Plans \X Contents
  /\ toldSession \subseteq Keys \X Plans \X Bodies
  /\ toldDraft \subseteq Proposals \X Plans

(* MC-11: a session runs exactly the version that was approved.  Whatever  *)
(* edits, approvals and starts interleave on the two surfaces, the plan of *)
(* a session is approved and holds the body the session froze, and a plan  *)
(* lists as its consumers only sessions of its own.                        *)
SessionRunsItsPlan ==
  \A k \in Keys :
    /\ Taken(k) => /\ status[session[k].plan] = "approved"
                   /\ body[session[k].plan] = session[k].body
    /\ \A p \in Plans : k \in consumed[p] => Taken(k) /\ session[k].plan = p

(* The log of a session is a path of SESSION_TRANSITIONS from its start to *)
(* its status, although callers move it on a status they read earlier: no  *)
(* session leaves a final state and none is logged in two at once.         *)
Path(log, end) ==
  /\ Len(log) > 0 /\ log[1] = << "approved", "starting" >>
  /\ log[Len(log)][2] = end
  /\ \A i \in 2 .. Len(log) :
       log[i][1] = log[i - 1][2] /\ log[i][2] \in SessionTransitions[log[i][1]]

LogIsAPath == \A k \in Keys : Taken(k) => Path(session[k].log, session[k].status)

(* A draft is approved only in a sound version that a handler checked (in  *)
(* chat: the version on the card that was confirmed), unless an edit fell  *)
(* between that check and the UPDATE, which does not compare the hash.     *)
PinsWhatWasShown ==
  [][\A p \in Plans : status[p] = "draft" /\ status'[p] = "approved" =>
       \E j \in flight : /\ j.op = "checked" /\ j.plan = p
                         /\ j.fresh => body'[p] = j.card /\ j.card \in Sound]_vars

(* Every success a surface answered stays true, whatever the other one     *)
(* does later: an approved plan keeps status and hash, an idempotency key  *)
(* the session of the payload it answered, and an adopted proposal stays   *)
(* bound to a draft.                                                       *)
AnswersHold ==
  /\ \A t \in toldApproved : status[t[1]] = "approved" /\ body[t[1]] = t[2]
  /\ \A t \in toldSession :
       Taken(t[1]) /\ session[t[1]].plan = t[2] /\ session[t[1]].body = t[3]
  /\ \A t \in toldDraft :
       status[t[2]] # "none" /\ offer[t[1]].adopted # NoPlan
=============================================================================
