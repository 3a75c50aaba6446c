----------------------- MODULE SimulationPlans_proofs -----------------------
(***************************************************************************)
(* Plans, sessions and proposals for any number of rows, bodies, keys and  *)
(* handlers in flight.                                                     *)
(***************************************************************************)
EXTENDS SimulationPlans, SequenceTheorems, TLAPS

USE SoundAreBodies, UnparsedIsNone, NoPlanIsNone

\* What a handler has read is still true of the rows: an approved plan and a
\* stored session never change, and a draft changes only by making the
\* approvals that have checked it stale.
ApprovalFits(j) ==
  /\ j.card \in Sound /\ status[j.plan] # "none"
  /\ j.fresh => body[j.plan] = j.card
  /\ j.op = "pinned" => status[j.plan] = "approved"

StartFits(j) ==
  /\ status[j.plan] = "approved" /\ body[j.plan] = j.body
  /\ j.op = "attach" => Taken(j.key) /\ SamePayload(j)

JobFits(j) ==
  /\ j \in Approvals => ApprovalFits(j)
  /\ j \in Starts    => StartFits(j)
  /\ j \in Moves     => Taken(j.key) /\ j.to \in SessionTransitions[j.from]
  /\ j \in Adoptions => offer[j.offer].status = "completed"
  /\ j \in Bindings  => offer[j.offer].status = "completed" /\ status[j.plan] # "none"

FlightFits == \A j \in flight : JobFits(j)

\* A proposal that an agent still works on is pending, so a result is saved
\* once, before it can be adopted; a binding names a draft.
OffersFit ==
  \A q \in Proposals :
    /\ q \in asking => offer[q].status = "pending"
    /\ offer[q].adopted # NoPlan =>
         offer[q].status = "completed" /\ status[offer[q].adopted] # "none"

SessionsFit ==
  \A k \in Keys : Taken(k) => session[k].plan \in Plans /\ session[k].body \in Bodies
                             /\ session[k].status \in SessionStates

CardsFit == \A t \in cards : t[2] \in Sound

IInv == /\ TypeOK /\ SessionsFit /\ CardsFit /\ FlightFits /\ OffersFit
        /\ SessionRunsItsPlan /\ AnswersHold /\ LogIsAPath

-----------------------------------------------------------------------------
(* Jobs and logs.                                                          *)

\* The operation of a job tells what kind of record it is.
LEMMA JobKinds ==
  ASSUME NEW j \in Jobs
  PROVE  /\ j \in Approvals <=> j.op \in {"confirmed", "checked", "pinned"}
         /\ j \in Starts    <=> j.op \in {"start", "attach"}
         /\ j \in Moves     <=> j.op = "move"
         /\ j \in Adoptions <=> j.op = "adopt"
         /\ j \in Bindings  <=> j.op = "bind"
BY DEF Jobs, Approvals, Starts, Moves, Adoptions, Bindings

\* A log grows along the transitions of its last status.
LEMMA PathGrows ==
  ASSUME NEW E, NEW log \in Seq(E \X SessionStates), NEW s \in SessionStates, s \in E,
         NEW to \in SessionTransitions[s], to \in SessionStates, Path(log, s)
  PROVE  Path(Append(log, << s, to >>), to)
<1> DEFINE new == Append(log, << s, to >>)
           n   == Len(log)
<1>1. n \in Nat /\ n > 0 /\ Len(new) = n + 1
  BY DEF Path
<1>2. new[n + 1] = << s, to >> /\ \A i \in 1 .. n : new[i] = log[i]
  <2>1. << s, to >> \in E \X SessionStates
    OBVIOUS
  <2> QED BY <2>1, AppendProperties
<1>3. new[1] = << "approved", "starting" >> /\ new[Len(new)][2] = to
  BY <1>1, <1>2 DEF Path
<1>4. ASSUME NEW i \in 2 .. Len(new)
      PROVE  new[i][1] = new[i - 1][2] /\ new[i][2] \in SessionTransitions[new[i][1]]
  <2>1. CASE i = n + 1
    <3>1. i - 1 = n /\ new[i - 1] = log[n]
      BY <2>1, <1>1, <1>2
    <3>2. log[n][2] = s
      BY DEF Path
    <3>3. new[i] = << s, to >>
      BY <2>1, <1>2
    <3> HIDE DEF new, n
    <3>4. new[i][1] = s /\ new[i][2] = to
      BY <3>3
    <3> QED BY <3>1, <3>2, <3>4
  <2>2. CASE i # n + 1
    <3>1. i \in 2 .. n /\ i - 1 \in 1 .. n /\ i \in 1 .. n
      BY <2>2, <1>1
    <3>2. new[i] = log[i] /\ new[i - 1] = log[i - 1]
      BY <3>1, <1>2
    <3> QED BY <3>1, <3>2 DEF Path
  <2> QED BY <2>1, <2>2
<1> HIDE DEF new, n
<1>5. Path(new, to)
  BY <1>1, <1>3, <1>4 DEF Path
<1> QED BY <1>5 DEF new

-----------------------------------------------------------------------------
LEMMA InitOK == Init => IInv
<1> SUFFICES ASSUME Init PROVE IInv
  OBVIOUS
<1> USE DEF Init
<1>1. TypeOK
  <2>1. << >> \in Seq((SessionStates \cup {"approved"}) \X SessionStates)
    OBVIOUS
  <2>2. session \in [Keys -> SessionRows] /\ offer \in [Proposals -> ProposalRows]
    BY <2>1 DEF SessionRows, ProposalRows, Contents
  <2> QED BY <2>2 DEF TypeOK, Contents
<1>2. \A k \in Keys : ~ Taken(k)
  BY DEF Taken
<1>3. SessionRunsItsPlan /\ LogIsAPath /\ AnswersHold
  BY <1>2 DEF SessionRunsItsPlan, LogIsAPath, AnswersHold
<1>4. SessionsFit /\ CardsFit /\ FlightFits /\ OffersFit
  BY <1>2 DEF SessionsFit, CardsFit, FlightFits, OffersFit
<1> QED BY <1>1, <1>3, <1>4 DEF IInv

-----------------------------------------------------------------------------
(* What a job has read survives a step of the rows.                        *)

\* A plan row may be inserted, an unapproved one approved; sessions and
\* bindings may be added.
RowsGrow ==
  /\ \A p \in Plans : status[p] # "none" => status'[p] # "none"
  /\ \A p \in Plans : status[p] = "approved" =>
                         status'[p] = "approved" /\ body'[p] = body[p]
  /\ \A k \in Keys : Taken(k) => /\ Taken(k)'
                                  /\ session'[k].plan = session[k].plan
                                  /\ session'[k].body = session[k].body
  /\ \A q \in Proposals : offer[q].status = "completed" => offer'[q].status = "completed"

LEMMA JobKept ==
  ASSUME RowsGrow, TypeOK, NEW j \in Jobs, JobFits(j),
         j \in Approvals /\ j.fresh => body'[j.plan] = body[j.plan]
  PROVE  JobFits(j)'
<1>1. CASE j \in Approvals
  <2>1. ApprovalFits(j)'
    BY <1>1 DEF JobFits, ApprovalFits, RowsGrow, Approvals
  <2> QED BY <1>1, <2>1, JobKinds DEF JobFits
<1>2. CASE j \in Starts
  <2>1. StartFits(j)'
    BY <1>2 DEF JobFits, StartFits, SamePayload, RowsGrow, Starts
  <2> QED BY <1>2, <2>1, JobKinds DEF JobFits
<1>3. CASE j \in Moves
  <2>1. Taken(j.key)' /\ j.to \in SessionTransitions[j.from]
    BY <1>3 DEF JobFits, RowsGrow, Moves
  <2> QED BY <1>3, <2>1, JobKinds DEF JobFits
<1>4. CASE j \in Adoptions
  <2>1. offer'[j.offer].status = "completed"
    BY <1>4 DEF JobFits, RowsGrow, Adoptions
  <2> QED BY <1>4, <2>1, JobKinds DEF JobFits
<1>5. CASE j \in Bindings
  <2>1. offer'[j.offer].status = "completed" /\ status'[j.plan] # "none"
    BY <1>5 DEF JobFits, RowsGrow, Bindings
  <2> QED BY <1>5, <2>1, JobKinds DEF JobFits
<1> QED BY <1>1, <1>2, <1>3, <1>4, <1>5 DEF Jobs

\* The jobs that were in flight still fit after a step that spares the body of
\* every row that exists.
LEMMA OldJobsKept ==
  ASSUME IInv, RowsGrow, \A p \in Plans : body'[p] = body[p] \/ status[p] = "none",
         NEW j \in flight
  PROVE  JobFits(j)'
<1>1. j \in Jobs /\ JobFits(j) /\ TypeOK
  BY DEF IInv, TypeOK, FlightFits
<1>2. j \in Approvals => j.plan \in Plans /\ status[j.plan] # "none"
  BY <1>1 DEF JobFits, ApprovalFits, Approvals
<1> QED BY <1>1, <1>2, JobKept

LEMMA FlightKept ==
  ASSUME IInv, RowsGrow, \A p \in Plans : body'[p] = body[p] \/ status[p] = "none",
         flight' \subseteq flight
  PROVE  FlightFits'
BY OldJobsKept DEF FlightFits

LEMMA FlightGrows ==
  ASSUME IInv, RowsGrow, \A p \in Plans : body'[p] = body[p] \/ status[p] = "none",
         NEW new, JobFits(new)', flight' = flight \cup {new}
  PROVE  FlightFits'
<1> SUFFICES ASSUME NEW j \in flight' PROVE JobFits(j)'
  BY DEF FlightFits
<1>1. CASE j \in flight
  BY <1>1, OldJobsKept
<1>2. CASE j = new
  BY <1>2
<1> QED BY <1>1, <1>2

\* What is true of sessions and answers survives too.
LEMMA TruthsKept ==
  ASSUME IInv, RowsGrow, UNCHANGED << consumed, session, told >>,
         \A q \in Proposals : offer[q].adopted # NoPlan => offer'[q].adopted # NoPlan
  PROVE  SessionsFit' /\ SessionRunsItsPlan' /\ AnswersHold' /\ LogIsAPath'
<1>2. \A k \in Keys : Taken(k)' <=> Taken(k)
  BY DEF Taken
<1>3. LogIsAPath'
  BY <1>2 DEF IInv, LogIsAPath, Path
<1>4. SessionRunsItsPlan'
  <2>1. \A k \in Keys : Taken(k) => session[k].plan \in Plans
    BY DEF IInv, SessionsFit
  <2> QED BY <1>2, <2>1 DEF IInv, SessionRunsItsPlan, RowsGrow
<1>5. AnswersHold'
  BY <1>2 DEF IInv, TypeOK, AnswersHold, RowsGrow, told
<1>6. SessionsFit'
  BY <1>2 DEF IInv, SessionsFit
<1> QED BY <1>3, <1>4, <1>5, <1>6

\* A binding still names a draft when no proposal row changed.
LEMMA OffersKept ==
  ASSUME IInv, RowsGrow, UNCHANGED << offer, asking >>
  PROVE  OffersFit'
<1>1. \A q \in Proposals : offer[q].adopted # NoPlan => offer[q].adopted \in Plans
  BY DEF IInv, TypeOK, ProposalRows
<1> QED BY <1>1 DEF IInv, OffersFit, RowsGrow

-----------------------------------------------------------------------------
(* Steps that only read the rows, and steps that only answer.              *)

\* All of the invariant but what a read may add to.
LEMMA RowsStay ==
  ASSUME IInv, UNCHANGED << rows, told >>, flight' \subseteq Jobs,
         cards' \subseteq Plans \X Bodies
  PROVE  /\ TypeOK' /\ RowsGrow /\ OffersFit' /\ SessionsFit'
         /\ SessionRunsItsPlan' /\ AnswersHold' /\ LogIsAPath'
<1> USE DEF rows, told
<1>1. TypeOK'
  BY DEF IInv, TypeOK
<1>2. RowsGrow
  BY DEF RowsGrow, Taken
<1>3. OffersFit'
  BY <1>2, OffersKept
<1>4. SessionsFit' /\ SessionRunsItsPlan' /\ AnswersHold' /\ LogIsAPath'
  BY <1>2, TruthsKept
<1> QED BY <1>1, <1>2, <1>3, <1>4

LEMMA ReadOK ==
  ASSUME IInv, UNCHANGED << rows, cards, told >>,
         NEW new \in Jobs, JobFits(new), flight' = flight \cup {new}
  PROVE  IInv'
<1>1. UNCHANGED << rows, told >> /\ UNCHANGED cards
  OBVIOUS
<1>2. flight' \subseteq Jobs /\ cards' \subseteq Plans \X Bodies
  BY <1>1 DEF IInv, TypeOK
<1>3. /\ TypeOK' /\ RowsGrow /\ OffersFit' /\ SessionsFit'
      /\ SessionRunsItsPlan' /\ AnswersHold' /\ LogIsAPath'
  BY <1>1, <1>2, RowsStay
<1>4. CardsFit'
  BY <1>1 DEF IInv, CardsFit
<1>5. JobFits(new)'
  BY <1>1 DEF JobFits, ApprovalFits, StartFits, SamePayload, Taken, rows
<1>6. FlightFits'
  BY <1>1, <1>3, <1>5, FlightGrows DEF rows
<1> QED BY <1>3, <1>4, <1>6 DEF IInv

LEMMA AnswerOK ==
  ASSUME IInv, UNCHANGED << rows, cards, flight >>, AnswersHold',
         toldApproved' \subseteq Plans \X Contents,
         toldSession' \subseteq Keys \X Plans \X Bodies,
         toldDraft' \subseteq Proposals \X Plans
  PROVE  IInv'
<1> USE DEF rows
<1>1. TypeOK' /\ CardsFit'
  BY DEF IInv, TypeOK, CardsFit
<1>2. RowsGrow
  BY DEF RowsGrow, Taken
<1>3. FlightFits'
  BY <1>2, FlightKept
<1>4. OffersFit'
  BY <1>2, OffersKept
<1>5. SessionsFit' /\ SessionRunsItsPlan' /\ LogIsAPath'
  BY DEF IInv, SessionsFit, SessionRunsItsPlan, LogIsAPath, Path, Taken
<1> QED BY <1>1, <1>3, <1>4, <1>5 DEF IInv

LEMMA LeaveOK == ASSUME IInv, Leave PROVE IInv'
<1>1. UNCHANGED << rows, told >> /\ UNCHANGED cards /\ flight' \subseteq flight
  BY DEF Leave
<1>2. flight' \subseteq Jobs /\ cards' \subseteq Plans \X Bodies
  BY <1>1 DEF IInv, TypeOK
<1>3. /\ TypeOK' /\ RowsGrow /\ OffersFit' /\ SessionsFit'
      /\ SessionRunsItsPlan' /\ AnswersHold' /\ LogIsAPath'
  BY <1>1, <1>2, RowsStay
<1>4. CardsFit' /\ FlightFits'
  BY <1>1, <1>3, FlightKept DEF IInv, CardsFit, rows
<1> QED BY <1>3, <1>4 DEF IInv

LEMMA ShowCardOK == ASSUME IInv, NEW p \in Plans, ShowCard(p) PROVE IInv'
<1>1. UNCHANGED << rows, told >> /\ UNCHANGED flight
  BY DEF ShowCard
<1>2. cards' = cards \cup {<< p, body[p] >>} /\ body[p] \in Sound
  BY DEF ShowCard
<1>3. flight' \subseteq Jobs /\ cards' \subseteq Plans \X Bodies
  BY <1>1, <1>2 DEF IInv, TypeOK
<1>4. /\ TypeOK' /\ RowsGrow /\ OffersFit' /\ SessionsFit'
      /\ SessionRunsItsPlan' /\ AnswersHold' /\ LogIsAPath'
  BY <1>1, <1>3, RowsStay
<1>5. FlightFits'
  BY <1>1, <1>4, FlightKept DEF rows
<1>6. CardsFit'
  BY <1>2 DEF IInv, CardsFit
<1> QED BY <1>4, <1>5, <1>6 DEF IInv

\* An approval begins on a sound draft.
LEMMA ApprovingFits ==
  ASSUME NEW p \in Plans, status[p] = "draft", body[p] \in Sound
  PROVE  Approving(p, body[p]) \in Jobs /\ JobFits(Approving(p, body[p]))
<1> DEFINE j == Approving(p, body[p])
<1>1. j \in Approvals /\ j \in Jobs
  BY DEF Approving, Approvals, Jobs
<1>2. ApprovalFits(j)
  BY DEF ApprovalFits, Approving
<1>3. j.op = "confirmed"
  BY DEF Approving
<1> HIDE DEF j
<1> QED BY <1>1, <1>2, <1>3, JobKinds DEF JobFits, j

LEMMA ConfirmOK ==
  ASSUME IInv, NEW p \in Plans, NEW b \in Bodies, Confirm(p, b)
  PROVE  IInv'
<1>1. b = body[p] /\ b \in Sound /\ status[p] = "draft"
  BY DEF Confirm, IInv, CardsFit
<1>2. Approving(p, b) \in Jobs /\ JobFits(Approving(p, b))
  BY <1>1, ApprovingFits
<1> QED BY <1>2, ReadOK DEF Confirm

LEMMA ApproveOnWebOK == ASSUME IInv, NEW p \in Plans, ApproveOnWeb(p) PROVE IInv'
<1>1. Approving(p, body[p]) \in Jobs /\ JobFits(Approving(p, body[p]))
  BY ApprovingFits DEF ApproveOnWeb
<1> QED BY <1>1, ReadOK DEF ApproveOnWeb

\* An approval in flight, one step on.
LEMMA NextApproval ==
  ASSUME IInv, NEW j \in flight, j.op \in {"confirmed", "checked"},
         NEW o \in {"checked", "pinned"}
  PROVE  LET k == [j EXCEPT !.op = o] IN
         /\ j \in Approvals /\ ApprovalFits(j) /\ k \in Approvals /\ k \in Jobs
         /\ k.op = o /\ k.plan = j.plan /\ k.card = j.card /\ k.fresh = j.fresh
<1>1. j \in Jobs /\ JobFits(j)
  BY DEF IInv, TypeOK, FlightFits
<1>2. j \in Approvals
  BY <1>1, JobKinds
<1> QED BY <1>1, <1>2 DEF JobFits, Approvals, Jobs

LEMMA CheckDraftOK == ASSUME IInv, NEW j \in flight, CheckDraft(j) PROVE IInv'
<1> DEFINE k == [j EXCEPT !.op = "checked"]
<1>1. /\ ApprovalFits(j) /\ k \in Approvals /\ k \in Jobs
      /\ k.op = "checked" /\ k.plan = j.plan /\ k.card = j.card /\ k.fresh = j.fresh
  BY NextApproval DEF CheckDraft
<1>2. flight' = flight \cup {k} /\ UNCHANGED << rows, cards, told >>
  BY DEF CheckDraft
<1> HIDE DEF k
<1>3. JobFits(k)
  BY <1>1, JobKinds DEF JobFits, ApprovalFits
<1> QED BY <1>1, <1>2, <1>3, ReadOK

LEMMA AnswerApprovalOK == ASSUME IInv, NEW j \in flight, AnswerApproval(j) PROVE IInv'
<1>1. j \in Jobs /\ JobFits(j)
  BY DEF IInv, TypeOK, FlightFits
<1>2. j \in Approvals /\ status[j.plan] = "approved"
  BY <1>1, JobKinds DEF AnswerApproval, JobFits, ApprovalFits
<1>3. << j.plan, body[j.plan] >> \in Plans \X Contents
  BY <1>2 DEF Approvals, IInv, TypeOK
<1>4. AnswersHold'
  BY <1>2 DEF AnswerApproval, IInv, AnswersHold, rows, Taken
<1> QED BY <1>3, <1>4, AnswerOK DEF AnswerApproval, IInv, TypeOK

-----------------------------------------------------------------------------
(* Plans are inserted, edited and approved.                                *)

LEMMA InsertGrows ==
  ASSUME IInv, NEW p \in Plans, NEW b \in Contents, Insert(p, b)
  PROVE  /\ RowsGrow
         /\ status' \in [Plans -> {"none", "draft", "approved"}]
         /\ body' \in [Plans -> Contents]
         /\ \A q \in Plans : body'[q] = body[q] \/ status[q] = "none"
BY DEF Insert, IInv, TypeOK, RowsGrow, Taken

LEMMA CreateDraftOK ==
  ASSUME IInv, NEW p \in Plans, NEW b \in Contents, CreateDraft(p, b)
  PROVE  IInv'
<1> USE DEF CreateDraft, Insert, told
<1>1. /\ RowsGrow /\ status' \in [Plans -> {"none", "draft", "approved"}]
      /\ body' \in [Plans -> Contents]
      /\ \A q \in Plans : body'[q] = body[q] \/ status[q] = "none"
  BY InsertGrows
<1>2. TypeOK' /\ CardsFit'
  BY <1>1 DEF IInv, TypeOK, CardsFit
<1>3. FlightFits' /\ OffersFit'
  BY <1>1, FlightKept, OffersKept
<1>4. SessionsFit' /\ SessionRunsItsPlan' /\ AnswersHold' /\ LogIsAPath'
  BY <1>1, TruthsKept
<1> QED BY <1>2, <1>3, <1>4 DEF IInv

LEMMA EditDraftOK ==
  ASSUME IInv, NEW p \in Plans, NEW b \in Contents, EditDraft(p, b)
  PROVE  IInv'
<1> USE DEF EditDraft, told
<1>1. RowsGrow /\ \A q \in Plans : q # p => body'[q] = body[q]
  BY DEF IInv, TypeOK, RowsGrow, Taken
<1>2. ASSUME NEW j \in flight'
      PROVE  j \in Jobs /\ JobFits(j)'
  <2>1. PICK i \in flight :
          j = IF i \in Approvals /\ i.plan = p THEN [i EXCEPT !.fresh = FALSE] ELSE i
    BY DEF Stale
  <2>2. i \in Jobs /\ JobFits(i) /\ TypeOK
    BY DEF IInv, TypeOK, FlightFits
  <2>3. CASE i \in Approvals /\ i.plan = p
    <3>1. j \in Approvals /\ j.plan = p /\ j.card = i.card /\ j.op = i.op /\ ~ j.fresh
      BY <2>1, <2>3 DEF Approvals
    <3>2. ApprovalFits(i)
      BY <2>2, <2>3 DEF JobFits
    <3>3. ApprovalFits(j)'
      BY <3>1, <3>2, <2>3 DEF ApprovalFits
    <3>4. j \in Jobs
      BY <3>1 DEF Jobs
    <3> QED BY <3>1, <3>3, <3>4, JobKinds DEF JobFits
  <2>4. CASE ~ (i \in Approvals /\ i.plan = p)
    <3>1. j = i
      BY <2>1, <2>4
    <3>2. j \in Approvals => body'[j.plan] = body[j.plan]
      BY <3>1, <2>4, <1>1 DEF Approvals
    <3> QED BY <3>1, <3>2, <2>2, <1>1, JobKept
  <2> QED BY <2>3, <2>4
<1>3. TypeOK' /\ CardsFit'
  <2>1. body' \in [Plans -> Contents] /\ flight' \subseteq Jobs
    BY <1>2 DEF IInv, TypeOK
  <2> QED BY <2>1 DEF IInv, TypeOK, CardsFit
<1>4. FlightFits'
  BY <1>2 DEF FlightFits
<1>5. OffersFit'
  BY <1>1, OffersKept
<1>6. SessionsFit' /\ SessionRunsItsPlan' /\ AnswersHold' /\ LogIsAPath'
  BY <1>1, TruthsKept
<1> QED BY <1>3, <1>4, <1>5, <1>6 DEF IInv

LEMMA PinOK == ASSUME IInv, NEW j \in flight, Pin(j) PROVE IInv'
<1> DEFINE k == [j EXCEPT !.op = "pinned"]
<1> USE DEF Pin
<1>1. /\ j \in Approvals /\ ApprovalFits(j) /\ k \in Approvals /\ k \in Jobs
      /\ k.op = "pinned" /\ k.plan = j.plan /\ k.card = j.card /\ k.fresh = j.fresh
  BY NextApproval
<1>2. flight' = flight \cup {k}
  OBVIOUS
<1> HIDE DEF k
<1>3. j.plan \in Plans /\ status[j.plan] \in {"draft", "approved"}
  BY <1>1 DEF Approvals, ApprovalFits, IInv, TypeOK
<1>4. /\ status' \in [Plans -> {"none", "draft", "approved"}] /\ status'[j.plan] = "approved"
      /\ RowsGrow /\ UNCHANGED << consumed, session, told >>
  BY <1>3 DEF RowsGrow, Taken, IInv, TypeOK
<1>5. JobFits(k)'
  <2>1. ApprovalFits(k)'
    BY <1>1, <1>4 DEF ApprovalFits
  <2> QED BY <2>1, <1>1, JobKinds DEF JobFits
<1>6. TypeOK' /\ CardsFit'
  BY <1>1, <1>2, <1>4 DEF IInv, TypeOK, CardsFit, told
<1>7. FlightFits'
  BY <1>2, <1>4, <1>5, FlightGrows
<1>8. OffersFit'
  BY <1>4, OffersKept
<1>9. SessionsFit' /\ SessionRunsItsPlan' /\ AnswersHold' /\ LogIsAPath'
  BY <1>4, TruthsKept
<1> QED BY <1>6, <1>7, <1>8, <1>9 DEF IInv

-----------------------------------------------------------------------------
(* Sessions are started and moved.                                         *)

LEMMA StartSessionOK ==
  ASSUME IInv, NEW k \in Keys, NEW p \in Plans, StartSession(k, p)
  PROVE  IInv'
<1> DEFINE j == [op |-> "start", key |-> k, plan |-> p, body |-> body[p]]
<1>1. status[p] = "approved" /\ body[p] \in Bodies
  BY DEF StartSession, IInv, TypeOK, Contents
<1>2. j \in Starts /\ j \in Jobs /\ StartFits(j)
  BY <1>1 DEF Starts, Jobs, StartFits
<1>3. flight' = flight \cup {j} /\ UNCHANGED << rows, cards, told >>
  BY DEF StartSession
<1>4. j.op = "start"
  OBVIOUS
<1> HIDE DEF j
<1>5. JobFits(j)
  BY <1>2, <1>4, JobKinds DEF JobFits
<1> QED BY <1>2, <1>3, <1>5, ReadOK

\* A start in flight.
LEMMA StartKnows ==
  ASSUME IInv, NEW j \in flight, j.op \in {"start", "attach"}
  PROVE  /\ j \in Starts /\ j \in Jobs /\ StartFits(j) /\ Started(j) \in Keys \X Plans \X Bodies
         /\ j.key \in Keys /\ j.plan \in Plans /\ j.body \in Bodies
<1>1. j \in Jobs /\ JobFits(j)
  BY DEF IInv, TypeOK, FlightFits
<1>2. j \in Starts /\ StartFits(j)
  BY <1>1, JobKinds DEF JobFits
<1> QED BY <1>1, <1>2 DEF Starts, Started

LEMMA InsertSessionOK == ASSUME IInv, NEW j \in flight, InsertSession(j) PROVE IInv'
<1> DEFINE k == [j EXCEPT !.op = "attach"]
           r == [status |-> "starting", plan |-> j.plan, body |-> j.body,
                 log |-> << << "approved", "starting" >> >>]
<1> USE DEF InsertSession
<1>1. /\ j \in Starts /\ StartFits(j)
      /\ j.key \in Keys /\ j.plan \in Plans /\ j.body \in Bodies
  BY StartKnows
<1>2. k \in Starts /\ k \in Jobs /\ k.op = "attach" /\ k.key = j.key
      /\ k.plan = j.plan /\ k.body = j.body
  BY <1>1 DEF Starts, Jobs
<1>3. r \in SessionRows /\ Path(r.log, r.status)
  <2>1. "starting" \in SessionStates
    BY DEF SessionStates
  <2>2. << << "approved", "starting" >> >> \in Seq((SessionStates \cup {"approved"}) \X SessionStates)
    BY <2>1
  <2>3. r \in SessionRows
    BY <2>1, <2>2, <1>1 DEF SessionRows, Contents
  <2>4. Path(r.log, r.status)
    BY DEF Path
  <2> QED BY <2>3, <2>4
<1>4. /\ r.status = "starting" /\ r.plan = j.plan /\ r.body = j.body
      /\ flight' = flight \cup {k} /\ session' = [session EXCEPT ![j.key] = r]
  OBVIOUS
<1> HIDE DEF k, r
<1>5. session' \in [Keys -> SessionRows] /\ session'[j.key] = r
      /\ \A i \in Keys : i # j.key => session'[i] = session[i]
  BY <1>1, <1>3, <1>4 DEF IInv, TypeOK
<1>6. \A i \in Keys : Taken(i)' <=> (i = j.key \/ Taken(i))
  BY <1>1, <1>4, <1>5 DEF Taken
<1>7. ~ Taken(j.key)
  OBVIOUS
<1>8. RowsGrow
  BY <1>5, <1>6, <1>7 DEF RowsGrow
<1>9. JobFits(k)'
  <2>1. StartFits(k)'
    BY <1>1, <1>2, <1>4, <1>5, <1>6 DEF StartFits, SamePayload
  <2> QED BY <2>1, <1>2, JobKinds DEF JobFits
<1>10. TypeOK' /\ CardsFit'
  BY <1>2, <1>4, <1>5 DEF IInv, TypeOK, CardsFit, told
<1>11. FlightFits'
  BY <1>4, <1>8, <1>9, FlightGrows
<1>12. OffersFit'
  BY <1>8, OffersKept
<1>13. SessionsFit'
  BY <1>1, <1>4, <1>5, <1>6 DEF IInv, SessionsFit, SessionStates
<1>14. SessionRunsItsPlan'
  BY <1>1, <1>4, <1>5, <1>6, <1>7 DEF IInv, SessionRunsItsPlan, StartFits
<1>15. LogIsAPath'
  BY <1>3, <1>5, <1>6 DEF IInv, LogIsAPath
<1>16. AnswersHold'
  BY <1>5, <1>6, <1>7 DEF IInv, TypeOK, AnswersHold, told
<1> QED BY <1>10, <1>11, <1>12, <1>13, <1>14, <1>15, <1>16 DEF IInv

LEMMA ReplaySessionOK == ASSUME IInv, NEW j \in flight, ReplaySession(j) PROVE IInv'
<1> USE DEF ReplaySession
<1>1. Started(j) \in Keys \X Plans \X Bodies
  BY StartKnows
<1>2. AnswersHold'
  BY DEF IInv, AnswersHold, Started, SamePayload, Taken, rows
<1> QED BY <1>1, <1>2, AnswerOK DEF IInv, TypeOK

LEMMA AttachSessionOK == ASSUME IInv, NEW j \in flight, AttachSession(j) PROVE IInv'
<1> USE DEF AttachSession
<1>1. /\ StartFits(j) /\ Started(j) \in Keys \X Plans \X Bodies
      /\ j.key \in Keys /\ j.plan \in Plans /\ j.body \in Bodies
  BY StartKnows
<1>2. Taken(j.key) /\ session[j.key].plan = j.plan /\ session[j.key].body = j.body
  BY <1>1 DEF StartFits, SamePayload
<1>3. consumed' \in [Plans -> SUBSET Keys] /\ RowsGrow
      /\ \A i \in Keys : Taken(i)' <=> Taken(i)
  BY <1>1 DEF IInv, TypeOK, RowsGrow, Taken
<1>4. TypeOK' /\ CardsFit'
  BY <1>1, <1>3 DEF IInv, TypeOK, CardsFit
<1>5. FlightFits' /\ OffersFit'
  BY <1>3, FlightKept, OffersKept
<1>6. SessionsFit' /\ LogIsAPath'
  BY <1>3 DEF IInv, SessionsFit, LogIsAPath, Path
<1>7. SessionRunsItsPlan'
  <2>1. \A p \in Plans, i \in Keys :
          i \in consumed'[p] => i \in consumed[p] \/ (p = j.plan /\ i = j.key)
    BY DEF IInv, TypeOK
  <2> QED BY <1>2, <1>3, <2>1 DEF IInv, SessionRunsItsPlan
<1>8. AnswersHold'
  <2>1. \A t \in toldSession' : t \in toldSession \/ t = << j.key, j.plan, j.body >>
    BY DEF Started
  <2>2. \A t \in toldSession' :
          Taken(t[1])' /\ session'[t[1]].plan = t[2] /\ session'[t[1]].body = t[3]
    BY <1>1, <1>2, <1>3, <2>1 DEF IInv, TypeOK, AnswersHold
  <2> QED BY <2>2 DEF IInv, AnswersHold
<1> QED BY <1>4, <1>5, <1>6, <1>7, <1>8 DEF IInv

LEMMA Transitions ==
  \A s \in SessionStates : SessionTransitions[s] \subseteq SessionStates
BY DEF SessionTransitions, SessionStates

LEMMA ReadMoveOK ==
  ASSUME IInv, NEW k \in Keys, NEW to \in SessionStates, ReadMove(k, to)
  PROVE  IInv'
<1> DEFINE j == [op |-> "move", key |-> k, from |-> session[k].status, to |-> to]
<1>1. Taken(k) /\ session[k].status \in SessionStates
      /\ to \in SessionTransitions[session[k].status]
  BY DEF ReadMove, IInv, SessionsFit
<1>2. /\ j \in Moves /\ j \in Jobs /\ j.op = "move" /\ j.key = k
      /\ j.from = session[k].status /\ j.to = to
  BY <1>1 DEF Moves, Jobs
<1>3. flight' = flight \cup {j} /\ UNCHANGED << rows, cards, told >>
  BY DEF ReadMove
<1> HIDE DEF j
<1>4. JobFits(j)
  BY <1>1, <1>2, JobKinds DEF JobFits
<1> QED BY <1>2, <1>3, <1>4, ReadOK

LEMMA MoveOK == ASSUME IInv, NEW j \in flight, Move(j) PROVE IInv'
<1> DEFINE Log == Seq((SessionStates \cup {"approved"}) \X SessionStates)
<1> USE DEF Move, Step
<1>1. j \in Jobs /\ JobFits(j)
  BY DEF IInv, TypeOK, FlightFits
<1>2. /\ j.key \in Keys /\ j.from \in SessionStates /\ j.to \in SessionStates
      /\ Taken(j.key) /\ j.to \in SessionTransitions[j.from]
  BY <1>1, JobKinds DEF JobFits, Moves
<1>3. session[j.key] \in SessionRows /\ session[j.key].log \in Log
  BY <1>2 DEF IInv, TypeOK, SessionRows
<1>4. /\ session'[j.key].status = j.to
      /\ session'[j.key].log = Append(session[j.key].log, << j.from, j.to >>)
      /\ session'[j.key].plan = session[j.key].plan
      /\ session'[j.key].body = session[j.key].body
      /\ \A k \in Keys : k # j.key => session'[k] = session[k]
  BY <1>2, <1>3 DEF IInv, TypeOK, SessionRows
<1>5. Append(session[j.key].log, << j.from, j.to >>) \in Log
  <2>1. << j.from, j.to >> \in (SessionStates \cup {"approved"}) \X SessionStates
    BY <1>2
  <2> QED BY <2>1, <1>3, AppendProperties
<1>6. session' \in [Keys -> SessionRows]
  BY <1>2, <1>3, <1>5 DEF IInv, TypeOK, SessionRows
<1>7. j.to # "absent"
  BY <1>2 DEF SessionStates
<1>8. \A k \in Keys : Taken(k)' <=> Taken(k)
  BY <1>2, <1>4, <1>7 DEF Taken
<1>9. \A k \in Keys : /\ session'[k].plan = session[k].plan
                       /\ session'[k].body = session[k].body
  BY <1>4
<1>10. RowsGrow
  BY <1>8, <1>9 DEF RowsGrow
<1>11. TypeOK' /\ CardsFit'
  BY <1>6 DEF IInv, TypeOK, CardsFit, told
<1>12. FlightFits' /\ OffersFit'
  BY <1>10, FlightKept, OffersKept
<1>13. SessionsFit' /\ SessionRunsItsPlan'
  <2>1. UNCHANGED << status, body, consumed >>
    OBVIOUS
  <2> HIDE DEF Move, Step
  <2>2. SessionsFit'
    BY <1>2, <1>4, <1>8, <1>9 DEF IInv, SessionsFit
  <2>3. SessionRunsItsPlan'
    BY <1>8, <1>9, <2>1 DEF IInv, SessionRunsItsPlan
  <2> QED BY <2>2, <2>3
<1>14. AnswersHold'
  BY <1>8, <1>9 DEF IInv, TypeOK, AnswersHold, told
<1>15. LogIsAPath'
  <2>1. Path(session'[j.key].log, j.to)
    <3>1. Path(session[j.key].log, j.from)
      BY <1>2 DEF IInv, LogIsAPath
    <3> QED BY <3>1, <1>2, <1>3, <1>4, PathGrows
  <2>2. \A k \in Keys : Taken(k) /\ k # j.key => Path(session'[k].log, session'[k].status)
    BY <1>4 DEF IInv, LogIsAPath
  <2> QED BY <1>4, <1>8, <2>1, <2>2 DEF LogIsAPath
<1> QED BY <1>11, <1>12, <1>13, <1>14, <1>15 DEF IInv

-----------------------------------------------------------------------------
(* Proposals are made, settled and adopted.                                *)

\* A step of the proposal rows that keeps those that have completed.
LEMMA OfferStepOK ==
  ASSUME IInv, UNCHANGED << status, body, consumed, session, cards, flight, told >>,
         offer' \in [Proposals -> ProposalRows], asking' \subseteq Proposals, OffersFit',
         \A q \in Proposals : offer[q].status = "completed" => offer'[q] = offer[q]
  PROVE  IInv'
<1>1. RowsGrow
  BY DEF RowsGrow, Taken
<1>2. TypeOK' /\ CardsFit'
  BY DEF IInv, TypeOK, CardsFit, told
<1>3. FlightFits'
  BY <1>1, FlightKept
<1>4. SessionsFit' /\ SessionRunsItsPlan' /\ AnswersHold' /\ LogIsAPath'
  <2>1. \A q \in Proposals : offer[q].adopted # NoPlan => offer'[q].adopted # NoPlan
    BY DEF IInv, OffersFit
  <2> QED BY <1>1, <2>1, TruthsKept
<1> QED BY <1>2, <1>3, <1>4 DEF IInv

LEMMA ProposeOK == ASSUME IInv, NEW q \in Proposals, Propose(q) PROVE IInv'
<1> USE DEF Propose
<1>1. offer' \in [Proposals -> ProposalRows] /\ asking' \subseteq Proposals
  BY DEF IInv, TypeOK, ProposalRows
<1>2. offer'[q].status = "pending" /\ offer'[q].adopted = offer[q].adopted
      /\ \A i \in Proposals : i # q => offer'[i] = offer[i]
  BY DEF IInv, TypeOK, ProposalRows
<1>3. OffersFit'
  BY <1>2 DEF IInv, OffersFit
<1> QED BY <1>1, <1>2, <1>3, OfferStepOK

LEMMA SettleProposalOK == ASSUME IInv, NEW q \in Proposals, SettleProposal(q) PROVE IInv'
<1> USE DEF SettleProposal
<1>1. PICK r \in Answers : offer' = [offer EXCEPT ![q] = r]
  OBVIOUS
<1>2. r \in ProposalRows /\ r.adopted = NoPlan
  BY DEF Answers, ProposalRows, Contents
<1>3. offer' \in [Proposals -> ProposalRows] /\ asking' \subseteq Proposals
  BY <1>1, <1>2 DEF IInv, TypeOK
<1>4. offer'[q] = r /\ \A i \in Proposals : i # q => offer'[i] = offer[i]
  BY <1>1 DEF IInv, TypeOK
<1>5. OffersFit' /\ offer[q].status = "pending"
  BY <1>2, <1>4 DEF IInv, OffersFit
<1> QED BY <1>3, <1>4, <1>5, OfferStepOK

LEMMA LoseProposalOK == ASSUME IInv, NEW q \in Proposals, LoseProposal(q) PROVE IInv'
<1>1. OffersFit' /\ offer' \in [Proposals -> ProposalRows] /\ asking' \subseteq Proposals
  BY DEF LoseProposal, IInv, TypeOK, OffersFit
<1> QED BY <1>1, OfferStepOK DEF LoseProposal

LEMMA AdoptOK == ASSUME IInv, NEW q \in Proposals, Adopt(q) PROVE IInv'
<1> DEFINE j == [op |-> "adopt", offer |-> q, draft |-> offer[q].draft]
<1>1. /\ j \in Adoptions /\ j \in Jobs /\ j.op = "adopt" /\ j.offer = q
      /\ offer[q].status = "completed"
  BY DEF Adopt, Adoptions, Jobs
<1>2. flight' = flight \cup {j} /\ UNCHANGED << rows, cards, told >>
  BY DEF Adopt
<1> HIDE DEF j
<1>3. JobFits(j)
  BY <1>1, JobKinds DEF JobFits
<1> QED BY <1>1, <1>2, <1>3, ReadOK

LEMMA AdoptAgainOK == ASSUME IInv, NEW q \in Proposals, AdoptAgain(q) PROVE IInv'
<1> USE DEF AdoptAgain
<1>1. offer[q].adopted \in Plans /\ status[offer[q].adopted] # "none"
  BY DEF IInv, TypeOK, ProposalRows, OffersFit
<1>2. AnswersHold'
  BY <1>1 DEF IInv, AnswersHold, Taken, rows
<1> QED BY <1>1, <1>2, AnswerOK DEF IInv, TypeOK

LEMMA DraftFromOfferOK ==
  ASSUME IInv, NEW j \in flight, NEW p \in Plans, DraftFromOffer(j, p)
  PROVE  IInv'
<1> DEFINE k == [op |-> "bind", offer |-> j.offer, plan |-> p]
<1>1. j \in Jobs /\ JobFits(j)
  BY DEF IInv, TypeOK, FlightFits
<1>2. j \in Adoptions /\ offer[j.offer].status = "completed" /\ j.draft \in Contents
      /\ j.offer \in Proposals
  BY <1>1, JobKinds DEF DraftFromOffer, JobFits, Adoptions, Contents
<1>3. k \in Bindings /\ k \in Jobs /\ k.op = "bind" /\ k.offer = j.offer /\ k.plan = p
  BY <1>2 DEF Bindings, Jobs
<1>4. /\ flight' = flight \cup {k} /\ Insert(p, j.draft)
      /\ UNCHANGED << consumed, session, offer, asking, cards, told >>
  BY DEF DraftFromOffer, Insert
<1> HIDE DEF k
<1>5. /\ RowsGrow /\ status' \in [Plans -> {"none", "draft", "approved"}]
      /\ body' \in [Plans -> Contents] /\ status'[p] # "none"
      /\ \A q \in Plans : body'[q] = body[q] \/ status[q] = "none"
  <2>1. status'[p] # "none"
    BY <1>4 DEF Insert, IInv, TypeOK
  <2> QED BY <1>2, <1>4, <2>1, InsertGrows
<1>6. JobFits(k)'
  BY <1>2, <1>3, <1>4, <1>5, JobKinds DEF JobFits
<1>7. TypeOK' /\ CardsFit'
  BY <1>3, <1>4, <1>5 DEF IInv, TypeOK, CardsFit, told
<1>8. FlightFits' /\ OffersFit'
  BY <1>4, <1>5, <1>6, FlightGrows, OffersKept
<1>9. SessionsFit' /\ SessionRunsItsPlan' /\ AnswersHold' /\ LogIsAPath'
  BY <1>4, <1>5, TruthsKept
<1> QED BY <1>7, <1>8, <1>9 DEF IInv

LEMMA BindOK == ASSUME IInv, NEW j \in flight, Bind(j) PROVE IInv'
<1> USE DEF Bind
<1>1. j \in Jobs /\ JobFits(j)
  BY DEF IInv, TypeOK, FlightFits
<1>2. /\ j \in Bindings /\ j.offer \in Proposals /\ j.plan \in Plans
      /\ offer[j.offer].status = "completed" /\ status[j.plan] # "none"
  BY <1>1, JobKinds DEF JobFits, Bindings
<1>3. /\ offer' \in [Proposals -> ProposalRows]
      /\ offer'[j.offer].adopted = j.plan /\ offer'[j.offer].status = "completed"
      /\ \A q \in Proposals : q # j.offer => offer'[q] = offer[q]
  BY <1>2 DEF IInv, TypeOK, ProposalRows
<1>4. RowsGrow
  BY <1>2, <1>3 DEF RowsGrow, Taken
<1>5. TypeOK' /\ CardsFit'
  BY <1>2, <1>3 DEF IInv, TypeOK, CardsFit
<1>6. FlightFits'
  BY <1>4, FlightKept
<1>7. OffersFit'
  BY <1>2, <1>3 DEF IInv, OffersFit
<1>8. SessionsFit' /\ SessionRunsItsPlan' /\ LogIsAPath'
  BY DEF IInv, SessionsFit, SessionRunsItsPlan, LogIsAPath, Path, Taken
<1>9. AnswersHold'
  <2>1. \A t \in toldDraft' : t \in toldDraft \/ t = << j.offer, j.plan >>
    OBVIOUS
  <2>2. \A t \in toldDraft' : status'[t[2]] # "none" /\ offer'[t[1]].adopted # NoPlan
    BY <1>2, <1>3, <2>1 DEF IInv, TypeOK, AnswersHold
  <2> QED BY <2>2 DEF IInv, AnswersHold, Taken
<1> QED BY <1>5, <1>6, <1>7, <1>8, <1>9 DEF IInv

-----------------------------------------------------------------------------
(* The theorems.                                                           *)

LEMMA NextOK == ASSUME IInv, [Next]_vars PROVE IInv'
<1>1. CASE Planning
  BY <1>1, ShowCardOK, ApproveOnWebOK, CreateDraftOK, EditDraftOK, ConfirmOK,
     CheckDraftOK, PinOK, AnswerApprovalOK DEF Planning
<1>2. CASE Trading
  BY <1>2, StartSessionOK, ReadMoveOK, InsertSessionOK, ReplaySessionOK,
     AttachSessionOK, MoveOK DEF Trading
<1>3. CASE Proposing
  BY <1>3, ProposeOK, SettleProposalOK, LoseProposalOK, AdoptOK, AdoptAgainOK,
     BindOK, DraftFromOfferOK DEF Proposing
<1>4. CASE Leave
  BY <1>4, LeaveOK
<1>5. CASE UNCHANGED vars
  <2>1. UNCHANGED << rows, cards, flight >> /\ UNCHANGED told
    BY <1>5 DEF vars
  <2>2. AnswersHold'
    BY <2>1 DEF IInv, AnswersHold, Taken, rows, told
  <2> QED BY <2>1, <2>2, AnswerOK DEF told, IInv, TypeOK
<1> QED BY <1>1, <1>2, <1>3, <1>4, <1>5 DEF Next

LEMMA Invariance == Spec => []IInv
<1>1. Init => IInv
  BY InitOK
<1>2. IInv /\ [Next]_vars => IInv'
  BY NextOK
<1> QED BY <1>1, <1>2, PTL DEF Spec

\* The rows, the cards and what the handlers have read keep their types.
THEOREM PlansTypeCorrect == Spec => []TypeOK
<1>1. IInv => TypeOK
  BY DEF IInv
<1> QED BY <1>1, Invariance, PTL

\* MC-11, for any number of plans, sessions and handlers in flight: a session
\* runs the approved version it was started from.
THEOREM SessionsRunTheirPlans == Spec => []SessionRunsItsPlan
<1>1. IInv => SessionRunsItsPlan
  BY DEF IInv
<1> QED BY <1>1, Invariance, PTL

\* However late the callers of transition_session write, the log of a session
\* is one path of the transition table.
THEOREM LogsArePaths == Spec => []LogIsAPath
<1>1. IInv => LogIsAPath
  BY DEF IInv
<1> QED BY <1>1, Invariance, PTL

\* What a surface has answered about a plan, a session or a proposal is never
\* made false by a later request on either surface.
THEOREM AnswersStayTrue == Spec => []AnswersHold
<1>1. IInv => AnswersHold
  BY DEF IInv
<1> QED BY <1>1, Invariance, PTL

\* A plan is pinned in the version its approval was about, unless an edit fell
\* between the approval's check and its UPDATE.
THEOREM PinsAreShown == Spec => PinsWhatWasShown
<1> DEFINE Shown(p) ==
      \E j \in flight : /\ j.op = "checked" /\ j.plan = p
                        /\ j.fresh => body'[p] = j.card /\ j.card \in Sound
<1>1. ASSUME IInv, [Next]_vars, NEW p \in Plans,
             status[p] = "draft", status'[p] = "approved"
      PROVE  Shown(p)
  <2>1. PICK j \in flight : Pin(j)
    BY <1>1 DEF IInv, TypeOK, Next, vars, rows, Leave, Planning, Trading, Proposing,
       ShowCard, ApproveOnWeb, CreateDraft, EditDraft, Confirm, CheckDraft,
       AnswerApproval, StartSession, ReadMove, InsertSession, ReplaySession,
       AttachSession, Move, Propose, SettleProposal, LoseProposal, Adopt,
       AdoptAgain, Bind, DraftFromOffer, Insert
  <2>2. j.op = "checked" /\ j.plan = p /\ UNCHANGED body
    BY <2>1, <1>1 DEF Pin, IInv, TypeOK
  <2>3. ApprovalFits(j)
    BY <2>2, <1>1, NextApproval
  <2> QED BY <2>2, <2>3 DEF ApprovalFits
<1>2. IInv /\ [Next]_vars =>
        [\A p \in Plans : status[p] = "draft" /\ status'[p] = "approved" => Shown(p)]_vars
  BY <1>1
<1> QED BY <1>2, Invariance, PTL DEF Spec, PinsWhatWasShown
=============================================================================
