----------------------- MODULE ForecastQueue_proofs -----------------------
(***************************************************************************)
(* The safety of the forecast queue for any number of web processes,       *)
(* requests, keys and intents, and any daily budget.                       *)
(***************************************************************************)
EXTENDS ForecastQueue, FiniteSetTheorems, TLAPS

\* An id no row has yet and a deleted row carry nothing.
EmptyRows ==
    \A r \in Requests : /\ row[r].status = "none" => row[r] = NoRow
                        /\ row[r].status = "gone" => row[r] = Gone

\* The uncommitted row of an attempt is the queued row with the running mark and,
\* once the runner has answered, its quality; nobody else settles or deletes it.
DraftFits(p) ==
    LET d == work[p].draft IN
    /\ work[p].req \in Requests
    /\ row[work[p].req].job = "queued"
    /\ d.job = "running"
    /\ d.source = row[work[p].req].source
    /\ d.key = row[work[p].req].key
    /\ d.intent = row[work[p].req].intent
    /\ d.by = row[work[p].req].by
    /\ d.result = "none" \/ (d.exec = d.result /\ d.status = "active")

DraftsFit == \A p \in Web : Attempting(p) => DraftFits(p)

\* A key of a source is on one row, and every answer names a row as inserted.
KeysUnique ==
    \A r, q \in Requests :
        /\ Exists(r) /\ Exists(q) /\ row[r].key # NoKey
        /\ row[r].key = row[q].key /\ row[r].source = row[q].source
        => r = q

AnswersFit ==
    \A a \in answers :
        /\ a \in {"legacy", "v3"} \X Keys \X Intents \X Requests
        /\ a[2] # NoKey
        /\ ~Unborn(a[4])
        /\ Exists(a[4]) => /\ row[a[4]].source = a[1]
                           /\ row[a[4]].key = a[2]
                           /\ row[a[4]].intent = a[3]

\* Past its in-flight read, a refresher has nothing of its own in flight.
AutosBy(p) == {r \in InFlight : row[r].source = "auto" /\ row[r].by = p}

CyclesFit == \A p \in Web : fresh[p] \in {"budget", "enqueue"} => AutosBy(p) = {}

IInv ==
    /\ TypeOK
    /\ EmptyRows
    /\ RowsAgree
    /\ OneAttempt
    /\ DraftsFit
    /\ KeysUnique
    /\ AnswersFit
    /\ OneAutoPerWeb
    /\ CyclesFit

USE QueueAssumption DEF Requests

\* The initial rows satisfy the invariant.
LEMMA InitOK == Init => IInv
<1> SUFFICES ASSUME Init PROVE IInv
  OBVIOUS
<1>1. NoRow \in States
  BY DEF NoRow, States
<1>2. TypeOK
  <2>1. row \in [Requests -> States]
    BY <1>1 DEF Init
  <2>2. work \in [Web -> [req : Requests \cup {0}, draft : States]]
    BY <1>1 DEF Init, Idle
  <2> QED BY <2>1, <2>2 DEF Init, TypeOK, Fresh, Old
<1>3. \A r \in Requests : row[r] = NoRow /\ ~Exists(r)
  BY DEF Init, NoRow, Exists
<1>4. EmptyRows
  BY <1>3 DEF EmptyRows, NoRow
<1>5. RowsAgree /\ KeysUnique
  BY <1>3 DEF RowsAgree, KeysUnique
<1>6. OneAttempt /\ DraftsFit
  BY DEF OneAttempt, DraftsFit, Attempting, Init, Idle
<1>7. AnswersFit
  BY DEF AnswersFit, Init
<1>8. OneAutoPerWeb /\ CyclesFit
  <2>1. InFlight = {}
    BY <1>3 DEF InFlight, NoRow
  <2> QED BY <2>1 DEF OneAutoPerWeb, CyclesFit, AutosBy
<1> QED BY <1>2, <1>4, <1>5, <1>6, <1>7, <1>8 DEF IInv

\* A step that leaves rows, attempts and answers alone, and lets a refresher pass
\* its in-flight read only when nothing is in flight, keeps the invariant.
LEMMA QuietOK ==
    ASSUME IInv, TypeOK', UNCHANGED <<row, work, answers>>,
           \A p \in Web : \/ fresh'[p] = fresh[p]
                          \/ fresh'[p] \notin {"budget", "enqueue"}
                          \/ fresh[p] = "flight" /\ InFlight = {}
                          \/ fresh[p] = "budget"
    PROVE  IInv'
<1>1. EmptyRows' /\ RowsAgree' /\ KeysUnique' /\ AnswersFit' /\ OneAutoPerWeb'
  BY DEF IInv, EmptyRows, RowsAgree, RowAgrees, KeysUnique, AnswersFit, OneAutoPerWeb,
         InFlight, Exists, Unborn
<1>2. OneAttempt' /\ DraftsFit'
  BY DEF IInv, OneAttempt, DraftsFit, DraftFits, Attempting
<1>3. CyclesFit'
  BY DEF IInv, CyclesFit, AutosBy, InFlight
<1> QED BY <1>1, <1>2, <1>3 DEF IInv

\* A step of one worker's transaction that keeps the fit of its draft.
LEMMA WorkOK ==
    ASSUME IInv, UNCHANGED <<row, age, lapsed, fresh, answers, beat>>,
           NEW p \in Web,
           NEW e \in [req : Requests \cup {0}, draft : States],
           work' = [work EXCEPT ![p] = e],
           e.req # 0 => /\ DraftFits(p)'
                        /\ \A q \in Web \ {p} : work[q].req # e.req
    PROVE  IInv'
<1>1. /\ work' \in [Web -> [req : Requests \cup {0}, draft : States]]
      /\ work'[p] = e
      /\ \A q \in Web \ {p} : work'[q] = work[q]
  BY DEF IInv, TypeOK
<1>2. TypeOK'
  BY <1>1 DEF IInv, TypeOK
<1>3. EmptyRows' /\ RowsAgree' /\ KeysUnique' /\ AnswersFit' /\ OneAutoPerWeb' /\ CyclesFit'
  BY DEF IInv, EmptyRows, RowsAgree, RowAgrees, KeysUnique, AnswersFit, OneAutoPerWeb,
         CyclesFit, AutosBy, InFlight, Exists, Unborn
<1>4. OneAttempt'
  <2> SUFFICES ASSUME NEW q1 \in Web, NEW q2 \in Web,
                      work'[q1].req # 0, work'[q1].req = work'[q2].req
               PROVE  q1 = q2
    BY DEF OneAttempt, Attempting
  <2>1. CASE q1 # p /\ q2 # p
    BY <1>1, <2>1 DEF IInv, OneAttempt, Attempting
  <2>2. CASE q1 = p \/ q2 = p
    BY <1>1, <2>2
  <2> QED BY <2>1, <2>2
<1>5. DraftsFit'
  <2> SUFFICES ASSUME NEW q \in Web, work'[q].req # 0 PROVE DraftFits(q)'
    BY DEF DraftsFit, Attempting
  <2>1. CASE q = p
    BY <1>1, <2>1
  <2>2. CASE q # p
    BY <1>1, <2>2 DEF IInv, DraftsFit, DraftFits, Attempting
  <2> QED BY <2>1, <2>2
<1> QED BY <1>2, <1>3, <1>4, <1>5 DEF IInv

\* Inserting a row under a key its source does not hold yet.
LEMMA InsertOK ==
    ASSUME IInv, NEW s \in Sources, NEW k \in Keys \cup {NoKey},
           NEW i \in Intents \cup {"session"}, NEW p \in Web \cup {"operator"},
           Previous(s, k) = {}, Insert(s, k, i, p),
           s = "auto" => p \in Web /\ AutosBy(p) = {} /\ fresh'[p] = "rest" /\ k = NoKey,
           s # "auto" => p = "operator" /\ i \in Intents,
           \A q \in Web : fresh'[q] = fresh[q] \/ fresh'[q] = "rest",
           fresh' \in [Web -> {"rest", "flight", "budget", "enqueue"}],
           UNCHANGED <<age, lapsed, beat, work>>
    PROVE  IInv'
<1> DEFINE new == Queued(s, k, i, p)
<1>1. PICK r \in Requests :
        /\ Unborn(r)
        /\ row' = [row EXCEPT ![r] = new]
        /\ answers' = IF k = NoKey THEN answers ELSE answers \cup {<<s, k, i, r>>}
  BY DEF Insert
<1>2. /\ new \in States
      /\ new.status = "pending" /\ new.job = "queued" /\ new.exec = "queued"
      /\ new.result = "none" /\ new.source = s /\ new.key = k /\ new.intent = i
      /\ new.by = p
  BY DEF Queued, States, Sources
<1> HIDE DEF new
<1>3. /\ row \in [Requests -> States] /\ row' \in [Requests -> States]
      /\ row'[r] = new /\ row[r] = NoRow
      /\ \A q \in Requests \ {r} : row'[q] = row[q]
  BY <1>1, <1>2 DEF IInv, TypeOK, EmptyRows, Unborn
<1>4. /\ row[r].job = "none" /\ ~Exists(r)
      /\ \A q \in Web : Attempting(q) => work[q].req # r
  <2>1. row[r].job = "none" /\ ~Exists(r)
    BY <1>3 DEF NoRow, Exists
  <2> QED BY <2>1 DEF IInv, DraftsFit, DraftFits
<1>5. \A a \in answers : a[4] # r /\ a[4] \in Requests
  BY <1>1 DEF IInv, AnswersFit
<1>6. TypeOK'
  <2>1. answers' \subseteq {"legacy", "v3"} \X Keys \X Intents \X Requests
    BY <1>1 DEF IInv, TypeOK, Sources
  <2> QED BY <1>3, <2>1 DEF IInv, TypeOK
<1>7. EmptyRows' /\ RowsAgree'
  <2>1. ASSUME NEW q \in Requests, q # r
        PROVE  row'[q] = row[q]
    BY <1>3, <2>1
  <2> QED BY <1>2, <1>3, <2>1 DEF IInv, EmptyRows, RowsAgree, RowAgrees, Exists
<1>8. OneAttempt' /\ DraftsFit'
  BY <1>3, <1>4 DEF IInv, OneAttempt, DraftsFit, DraftFits, Attempting
<1>9. KeysUnique'
  <2> SUFFICES ASSUME NEW q1 \in Requests, NEW q2 \in Requests,
                      Exists(q1)', Exists(q2)', row'[q1].key # NoKey,
                      row'[q1].key = row'[q2].key, row'[q1].source = row'[q2].source
               PROVE  q1 = q2
    BY DEF KeysUnique
  <2>1. CASE q1 # r /\ q2 # r
    BY <1>3, <2>1 DEF IInv, KeysUnique, Exists
  <2>2. CASE q1 = r /\ q2 # r
    BY <1>2, <1>3, <2>2 DEF Previous, Exists
  <2>3. CASE q1 # r /\ q2 = r
    BY <1>2, <1>3, <2>3 DEF Previous, Exists
  <2> QED BY <2>1, <2>2, <2>3
<1>10. AnswersFit'
  <2> SUFFICES ASSUME NEW a \in answers'
               PROVE  /\ a \in {"legacy", "v3"} \X Keys \X Intents \X Requests
                      /\ a[2] # NoKey
                      /\ ~Unborn(a[4])'
                      /\ Exists(a[4])' => /\ row'[a[4]].source = a[1]
                                          /\ row'[a[4]].key = a[2]
                                          /\ row'[a[4]].intent = a[3]
    BY DEF AnswersFit
  <2>1. CASE a \in answers
    BY <1>3, <1>5, <2>1 DEF IInv, AnswersFit, Exists, Unborn
  <2>2. CASE a \notin answers
    <3>1. a = <<s, k, i, r>> /\ k # NoKey
      BY <1>1, <2>2
    <3>2. a[1] = s /\ a[2] = k /\ a[3] = i /\ a[4] = r
      BY <3>1
    <3>3. a \in {"legacy", "v3"} \X Keys \X Intents \X Requests
      BY <3>1 DEF Sources
    <3> QED BY <1>2, <1>3, <3>1, <3>2, <3>3 DEF Unborn
  <2> QED BY <2>1, <2>2
<1>11. InFlight' = InFlight \cup {r} /\ r \notin InFlight
  BY <1>2, <1>3, <1>4 DEF InFlight
<1>12. OneAutoPerWeb'
  <2> SUFFICES ASSUME NEW q1 \in InFlight', NEW q2 \in InFlight',
                      row'[q1].source = "auto", row'[q2].source = "auto",
                      row'[q1].by = row'[q2].by
               PROVE  q1 = q2
    BY DEF OneAutoPerWeb
  <2>1. \A q \in InFlight : row'[q] = row[q] /\ q \in Requests
    BY <1>3, <1>11 DEF InFlight
  <2>2. \A q \in InFlight : row'[q].source = "auto" /\ s = "auto" => row'[q].by # p
    BY <2>1 DEF AutosBy
  <2>3. row'[r].source = s /\ row'[r].by = p
    BY <1>2, <1>3
  <2> QED BY <1>11, <2>1, <2>2, <2>3 DEF IInv, OneAutoPerWeb
<1>13. CyclesFit'
  <2> SUFFICES ASSUME NEW q \in Web, fresh'[q] \in {"budget", "enqueue"}
               PROVE  AutosBy(q)' = {}
    BY DEF CyclesFit
  <2>1. AutosBy(q) = {} /\ fresh'[q] # "rest"
    BY DEF IInv, CyclesFit
  <2>2. ~(row'[r].source = "auto" /\ row'[r].by = q)
    BY <1>2, <1>3, <2>1
  <2> QED BY <1>3, <1>11, <2>1, <2>2 DEF AutosBy, InFlight
<1> QED BY <1>6, <1>7, <1>8, <1>9, <1>10, <1>12, <1>13 DEF IInv

\* A step that settles or deletes one queued or settled row nobody attempts any
\* more, keeping what it was asked for, keeps the invariant.
LEMMA ReplaceOK ==
    ASSUME IInv, NEW r \in Requests, Exists(r), NEW d \in States,
           row' = [row EXCEPT ![r] = d],
           d = Gone \/ /\ d.status # "gone"
                       /\ d.job \in Settled
                       /\ d.source = row[r].source /\ d.key = row[r].key
                       /\ d.intent = row[r].intent /\ d.by = row[r].by
                       /\ RowAgrees(r)',
           lapsed' \subseteq lapsed,
           work' \in [Web -> [req : Requests \cup {0}, draft : States]],
           \A q \in Web : /\ work'[q] = work[q] \/ work'[q] = Idle
                          /\ work'[q].req # r,
           UNCHANGED <<age, beat, fresh, answers>>
    PROVE  IInv'
<1>0. Gone.status = "gone" /\ Gone.job = "none" /\ Gone.key = NoKey
  BY DEF Gone, NoRow
<1>1. /\ row \in [Requests -> States] /\ row' \in [Requests -> States]
      /\ row'[r] = d
      /\ \A q \in Requests \ {r} : row'[q] = row[q]
  BY DEF IInv, TypeOK
<1>2. d = Gone \/ Exists(r)'
  <2> SUFFICES ASSUME d # Gone PROVE Exists(r)'
    OBVIOUS
  <2>1. d.status \in {"failed", "completed"}
    BY <1>1 DEF RowAgrees, Settled
  <2> QED BY <1>1, <2>1 DEF Exists
<1>3. TypeOK'
  BY <1>1 DEF IInv, TypeOK
<1>4. EmptyRows' /\ RowsAgree'
  <2>1. EmptyRows'
    BY <1>0, <1>1, <1>2 DEF IInv, EmptyRows, Exists
  <2>2. RowsAgree'
    <3> SUFFICES ASSUME NEW q \in Requests, Exists(q)' PROVE RowAgrees(q)'
      BY DEF RowsAgree
    <3>1. CASE q = r
      BY <1>0, <1>1, <3>1 DEF Exists
    <3>2. CASE q # r
      BY <1>1, <3>2 DEF IInv, RowsAgree, RowAgrees, Exists
    <3> QED BY <3>1, <3>2
  <2> QED BY <2>1, <2>2
<1>5. \A q \in Web : work'[q].req # 0 => work'[q] = work[q] /\ work[q].req # r
  BY DEF Idle
<1>6. OneAttempt'
  BY <1>5 DEF IInv, OneAttempt, Attempting
<1>7. DraftsFit'
  BY <1>1, <1>5 DEF IInv, DraftsFit, DraftFits, Attempting
<1>8. KeysUnique'
  BY <1>0, <1>1, <1>2 DEF IInv, KeysUnique, Exists
<1>9. AnswersFit'
  BY <1>0, <1>1, <1>2 DEF IInv, AnswersFit, Exists, Unborn
<1>10. InFlight' \subseteq InFlight /\ \A q \in InFlight' : row'[q] = row[q]
  BY <1>0, <1>1 DEF InFlight, Settled
<1>11. OneAutoPerWeb' /\ CyclesFit'
  BY <1>10 DEF IInv, OneAutoPerWeb, CyclesFit, AutosBy
<1> QED BY <1>3, <1>4, <1>6, <1>7, <1>8, <1>9, <1>11 DEF IInv

\* A queued row exists, and its attempts are excluded from what a worker picks.
LEMMA PicksFact ==
    ASSUME IInv, NEW p \in Web, NEW r \in Requests, Picks(p, r)
    PROVE  /\ Exists(r) /\ row[r].job = "queued" /\ row[r] \in States
           /\ row[r].result = "none" /\ work[p].req = 0
           /\ \A q \in Web : work[q].req # r
<1>1. row[r].job \in {"queued", "running"} /\ work[p].req = 0 /\ \A q \in Web : work[q].req # r
  BY DEF Picks, Waiting, Unlocked
<1>2. Exists(r)
  <2>1. NoRow.job = "none" /\ Gone.job = "none"
    BY DEF NoRow, Gone
  <2> QED BY <1>1, <2>1 DEF IInv, EmptyRows, Exists
<1> QED BY <1>1, <1>2 DEF IInv, TypeOK, RowsAgree, RowAgrees

\* The steps of a worker.
LEMMA ExpireOK == ASSUME IInv, NEW p \in Web, Expire(p) PROVE IInv'
<1>1. PICK r \in Requests :
        /\ Picks(p, r)
        /\ row' = [row EXCEPT ![r].job = "expired", ![r].exec = "expired",
                              ![r].status = "failed"]
        /\ UNCHANGED <<age, lapsed, beat, work, fresh, answers>>
  BY DEF Expire
<1> DEFINE d == [row[r] EXCEPT !.job = "expired", !.exec = "expired", !.status = "failed"]
<1>2. /\ Exists(r) /\ row[r] \in States /\ row[r].result = "none"
      /\ \A q \in Web : work[q].req # r
  BY <1>1, PicksFact
<1>3. /\ d \in States
      /\ d.job = "expired" /\ d.exec = "expired" /\ d.status = "failed" /\ d.result = "none"
      /\ d.source = row[r].source /\ d.key = row[r].key
      /\ d.intent = row[r].intent /\ d.by = row[r].by
  BY <1>2 DEF States
<1>4. row' = [row EXCEPT ![r] = d]
  BY <1>1 DEF IInv, TypeOK
<1> HIDE DEF d
<1>5. row'[r] = d
  BY <1>4 DEF IInv, TypeOK
<1>6. RowAgrees(r)'
  BY <1>3, <1>5 DEF RowAgrees
<1>7. work \in [Web -> [req : Requests \cup {0}, draft : States]]
  BY DEF IInv, TypeOK
<1>8. UNCHANGED <<age, lapsed, beat, work, fresh, answers>>
  BY <1>1
<1> QED BY <1>2, <1>3, <1>4, <1>6, <1>7, <1>8, ReplaceOK DEF Settled

LEMMA PickUpOK == ASSUME IInv, NEW p \in Web, PickUp(p) PROVE IInv'
<1>1. PICK r \in Requests :
        /\ Picks(p, r)
        /\ work' = [work EXCEPT ![p] =
              [req |-> r, draft |-> [row[r] EXCEPT !.job = "running", !.exec = "running"]]]
        /\ UNCHANGED <<row, age, lapsed, beat, fresh, answers>>
  BY DEF PickUp
<1> DEFINE d == [row[r] EXCEPT !.job = "running", !.exec = "running"]
<1> DEFINE e == [req |-> r, draft |-> d]
<1>2. /\ row[r] \in States /\ row[r].job = "queued" /\ row[r].result = "none"
      /\ \A q \in Web : work[q].req # r
  BY <1>1, PicksFact
<1>3. /\ d \in States /\ d.job = "running" /\ d.result = "none"
      /\ d.source = row[r].source /\ d.key = row[r].key
      /\ d.intent = row[r].intent /\ d.by = row[r].by
  BY <1>2 DEF States
<1> HIDE DEF d
<1>4. /\ e \in [req : Requests \cup {0}, draft : States]
      /\ e.req = r /\ e.draft = d
  BY <1>3
<1>5. work' = [work EXCEPT ![p] = e]
  BY <1>1 DEF d
<1> HIDE DEF e
<1>6. work'[p] = e
  BY <1>5 DEF IInv, TypeOK
<1>7. DraftFits(p)'
  BY <1>1, <1>2, <1>3, <1>4, <1>6 DEF DraftFits
<1>8. UNCHANGED <<row, age, lapsed, beat, fresh, answers>>
  BY <1>1
<1> QED BY <1>2, <1>4, <1>5, <1>7, <1>8, WorkOK

LEMMA RunnerWritesOK ==
    ASSUME IInv, NEW p \in Web, NEW quality \in {"partial", "completed"},
           RunnerWrites(p, quality)
    PROVE  IInv'
<1> DEFINE d == [work[p].draft EXCEPT !.status = "active", !.exec = quality,
                                     !.result = quality]
<1> DEFINE e == [work[p] EXCEPT !.draft = d]
<1>1. /\ work[p] \in [req : Requests \cup {0}, draft : States]
      /\ work[p].req # 0 /\ DraftFits(p)
  BY DEF RunnerWrites, Attempting, IInv, TypeOK, DraftsFit
<1>2. /\ d \in States /\ d.job = "running" /\ d.exec = quality /\ d.result = quality
      /\ d.status = "active"
      /\ d.source = work[p].draft.source /\ d.key = work[p].draft.key
      /\ d.intent = work[p].draft.intent /\ d.by = work[p].draft.by
  BY <1>1 DEF States, DraftFits
<1>3. work' = [work EXCEPT ![p] = e]
  BY <1>1 DEF RunnerWrites, IInv, TypeOK
<1> HIDE DEF d
<1>4. /\ e \in [req : Requests \cup {0}, draft : States]
      /\ e.req = work[p].req /\ e.draft = d
  BY <1>1, <1>2
<1> HIDE DEF e
<1>5. work'[p] = e
  BY <1>3 DEF IInv, TypeOK
<1>6. UNCHANGED <<row, age, lapsed, beat, fresh, answers>>
  BY DEF RunnerWrites
<1>7. DraftFits(p)'
  BY <1>1, <1>2, <1>4, <1>5, <1>6 DEF DraftFits
<1>8. \A q \in Web \ {p} : work[q].req # e.req
  BY <1>1, <1>4 DEF IInv, OneAttempt, Attempting
<1> QED BY <1>3, <1>4, <1>6, <1>7, <1>8, WorkOK

\* What the end of an attempt relies on: its row is still queued, so it exists.
LEMMA AttemptFact ==
    ASSUME IInv, NEW p \in Web, Attempting(p)
    PROVE  /\ work[p].req \in Requests /\ Exists(work[p].req)
           /\ work[p].draft \in States /\ DraftFits(p)
           /\ [work EXCEPT ![p] = Idle] \in [Web -> [req : Requests \cup {0}, draft : States]]
           /\ \A q \in Web \ {p} : work[q].req # work[p].req
<1>1. DraftFits(p)
  BY DEF IInv, DraftsFit
<1>2. NoRow \in States /\ NoRow.job = "none" /\ Gone.job = "none"
  BY DEF NoRow, States, Gone
<1>3. Idle \in [req : Requests \cup {0}, draft : States]
  BY <1>2 DEF Idle
<1>4. Exists(work[p].req)
  BY <1>1, <1>2 DEF DraftFits, IInv, EmptyRows, Exists
<1> QED BY <1>1, <1>3, <1>4 DEF IInv, TypeOK, DraftFits, OneAttempt, Attempting

LEMMA RunnerRaisesOK == ASSUME IInv, NEW p \in Web, RunnerRaises(p) PROVE IInv'
<1> DEFINE d == FailedRow(work[p].draft)
<1>0. PICK r \in Requests : r = work[p].req
  BY AttemptFact DEF RunnerRaises
<1>1. /\ r \in Requests /\ Exists(r) /\ work[p].draft \in States /\ DraftFits(p)
      /\ [work EXCEPT ![p] = Idle] \in [Web -> [req : Requests \cup {0}, draft : States]]
      /\ \A q \in Web \ {p} : work[q].req # r
  BY <1>0, AttemptFact DEF RunnerRaises
<1>2. /\ d \in States /\ d.job = "failed" /\ d.exec = "failed" /\ d.status = "failed"
      /\ d.result = "none"
      /\ d.source = work[p].draft.source /\ d.key = work[p].draft.key
      /\ d.intent = work[p].draft.intent /\ d.by = work[p].draft.by
  BY <1>1 DEF States, FailedRow, RunnerRaises, Answered
<1>3. row' = [row EXCEPT ![r] = d] /\ work' = [work EXCEPT ![p] = Idle]
  BY <1>0 DEF RunnerRaises
<1> HIDE DEF d
<1>4. row'[r] = d
  BY <1>1, <1>3 DEF IInv, TypeOK
<1>5. RowAgrees(r)'
  BY <1>2, <1>4 DEF RowAgrees
<1>6. \A q \in Web : (work'[q] = work[q] \/ work'[q] = Idle) /\ work'[q].req # r
  BY <1>1, <1>3 DEF IInv, TypeOK, Idle
<1>7. UNCHANGED <<age, lapsed, beat, fresh, answers>>
  BY DEF RunnerRaises
<1>8. /\ d.source = row[r].source /\ d.key = row[r].key
      /\ d.intent = row[r].intent /\ d.by = row[r].by
  BY <1>0, <1>1, <1>2 DEF DraftFits
<1>9. /\ work' \in [Web -> [req : Requests \cup {0}, draft : States]]
      /\ lapsed' \subseteq lapsed
  BY <1>1, <1>3, <1>7
<1> QED BY <1>1, <1>2, <1>3, <1>5, <1>6, <1>7, <1>8, <1>9, ReplaceOK DEF Settled

LEMMA CommitOK == ASSUME IInv, NEW p \in Web, Commit(p) PROVE IInv'
<1> DEFINE d == CompletedRow(work[p].draft)
<1>0. PICK r \in Requests : r = work[p].req
  BY AttemptFact DEF Commit
<1>1. /\ r \in Requests /\ Exists(r) /\ work[p].draft \in States /\ DraftFits(p)
      /\ [work EXCEPT ![p] = Idle] \in [Web -> [req : Requests \cup {0}, draft : States]]
      /\ \A q \in Web \ {p} : work[q].req # r
  BY <1>0, AttemptFact DEF Commit
<1>2. work[p].draft.exec = work[p].draft.result /\ work[p].draft.result # "none"
  BY <1>1 DEF Commit, Answered, DraftFits
<1>3. /\ d \in States /\ d.job = "completed" /\ d.exec = d.result /\ d.status = "completed"
      /\ d.result # "none"
      /\ d.source = work[p].draft.source /\ d.key = work[p].draft.key
      /\ d.intent = work[p].draft.intent /\ d.by = work[p].draft.by
  <2> DEFINE x == IF work[p].draft.exec = "none" THEN "completed" ELSE work[p].draft.exec
  <2>1. x = work[p].draft.result
    BY <1>2
  <2>2. x \in {"partial", "completed"}
    BY <1>1, <1>2, <2>1 DEF States
  <2>3. d = [work[p].draft EXCEPT !.job = "completed", !.status = "completed", !.exec = x]
    BY DEF CompletedRow
  <2> HIDE DEF x
  <2> DEFINE y == [work[p].draft EXCEPT !.job = "completed", !.status = "completed", !.exec = x]
  <2>4. /\ y \in States /\ y.job = "completed" /\ y.exec = x /\ y.status = "completed"
        /\ y.result = work[p].draft.result
        /\ y.source = work[p].draft.source /\ y.key = work[p].draft.key
        /\ y.intent = work[p].draft.intent /\ y.by = work[p].draft.by
    BY <1>1, <2>2 DEF States
  <2> HIDE DEF y
  <2>5. d = y
    BY <2>3 DEF y
  <2> HIDE DEF d
  <2> QED BY <1>2, <2>1, <2>4, <2>5
<1>4. row' = [row EXCEPT ![r] = d] /\ work' = [work EXCEPT ![p] = Idle]
  BY <1>0 DEF Commit
<1> HIDE DEF d
<1>5. row'[r] = d
  BY <1>1, <1>4 DEF IInv, TypeOK
<1>6. RowAgrees(r)'
  BY <1>3, <1>5 DEF RowAgrees
<1>7. \A q \in Web : (work'[q] = work[q] \/ work'[q] = Idle) /\ work'[q].req # r
  BY <1>1, <1>4 DEF IInv, TypeOK, Idle
<1>8. UNCHANGED <<age, lapsed, beat, fresh, answers>>
  BY DEF Commit
<1>9. /\ d.source = row[r].source /\ d.key = row[r].key
      /\ d.intent = row[r].intent /\ d.by = row[r].by
  BY <1>0, <1>1, <1>3 DEF DraftFits
<1>10. /\ work' \in [Web -> [req : Requests \cup {0}, draft : States]]
       /\ lapsed' \subseteq lapsed
  BY <1>1, <1>4, <1>8
<1> QED BY <1>1, <1>3, <1>4, <1>6, <1>7, <1>8, <1>9, <1>10, ReplaceOK DEF Settled

\* A row the attempt held goes back to waiting, as it was.
LEMMA RollBackOK == ASSUME IInv, NEW p \in Web, RollBack(p) PROVE IInv'
<1>1. Idle \in [req : Requests \cup {0}, draft : States] /\ Idle.req = 0
  BY DEF Idle, NoRow, States
<1>2. UNCHANGED <<row, age, lapsed, beat, fresh, answers>> /\ work' = [work EXCEPT ![p] = Idle]
  BY DEF RollBack
<1> QED BY <1>1, <1>2, WorkOK

\* A replay adds the stored answer again under the key it was given for.
LEMMA ReplayOK ==
    ASSUME IInv, NEW s \in {"legacy", "v3"}, NEW k \in Keys, NEW i \in Intents,
           NEW r \in Previous(s, k), SameIntent(r, i),
           answers' = answers \cup {<<s, k, i, r>>},
           UNCHANGED <<row, age, lapsed, beat, work, fresh>>
    PROVE  IInv'
<1>1. /\ r \in Requests /\ Exists(r) /\ k # NoKey
      /\ row[r].key = k /\ row[r].source = s /\ row[r].intent = i
  BY DEF Previous, SameIntent
<1>2. TypeOK'
  BY <1>1 DEF IInv, TypeOK
<1>3. EmptyRows' /\ RowsAgree' /\ KeysUnique' /\ OneAutoPerWeb' /\ CyclesFit'
  BY DEF IInv, EmptyRows, RowsAgree, RowAgrees, KeysUnique, OneAutoPerWeb,
         CyclesFit, AutosBy, InFlight, Exists, Unborn
<1>4. OneAttempt' /\ DraftsFit'
  BY DEF IInv, OneAttempt, DraftsFit, DraftFits, Attempting
<1>5. AnswersFit'
  <2> SUFFICES ASSUME NEW a \in answers'
               PROVE  /\ a \in {"legacy", "v3"} \X Keys \X Intents \X Requests
                      /\ a[2] # NoKey
                      /\ ~Unborn(a[4])'
                      /\ Exists(a[4])' => /\ row'[a[4]].source = a[1]
                                          /\ row'[a[4]].key = a[2]
                                          /\ row'[a[4]].intent = a[3]
    BY DEF AnswersFit
  <2>1. CASE a \in answers
    BY <2>1 DEF IInv, AnswersFit, Exists, Unborn
  <2>2. CASE a = <<s, k, i, r>>
    <3>1. a[1] = s /\ a[2] = k /\ a[3] = i /\ a[4] = r
      BY <2>2
    <3>2. a \in {"legacy", "v3"} \X Keys \X Intents \X Requests
      BY <1>1, <2>2
    <3> QED BY <1>1, <3>1, <3>2 DEF Exists, Unborn
  <2> QED BY <2>1, <2>2
<1> QED BY <1>2, <1>3, <1>4, <1>5 DEF IInv

\* Both endpoints insert or replay.
LEMMA AskOK ==
    ASSUME IInv, NEW s \in {"legacy", "v3"}, NEW k \in Keys, NEW i \in Intents,
           Ask(s, k, i, "operator"), UNCHANGED <<age, lapsed, beat, work, fresh>>
    PROVE  IInv'
<1>1. CASE Previous(s, k) = {}
  <2>1. fresh' \in [Web -> {"rest", "flight", "budget", "enqueue"}]
    BY DEF IInv, TypeOK
  <2>2. s \in Sources /\ s # "auto" /\ Insert(s, k, i, "operator")
    BY <1>1 DEF Sources, Ask
  <2> QED BY <1>1, <2>1, <2>2, InsertOK
<1>2. CASE Previous(s, k) # {}
  <2>1. PICK r \in Previous(s, k) : SameIntent(r, i) /\ answers' = answers \cup {<<s, k, i, r>>}
                                    /\ UNCHANGED row
    BY <1>2 DEF Ask
  <2> QED BY <2>1, ReplayOK
<1> QED BY <1>1, <1>2

LEMMA ClientOK == ASSUME IInv, Client PROVE IInv'
BY AskOK DEF Client, QueuePrediction, CreateForecast

\* The refresher queues only with nothing of its own in flight.
LEMMA RefreshEnqueueOK == ASSUME IInv, NEW p \in Web, RefreshEnqueue(p) PROVE IInv'
<1>1. Previous("auto", NoKey) = {}
  BY DEF Previous
<1>2. Insert("auto", NoKey, "session", p)
  BY <1>1 DEF RefreshEnqueue, Ask
<1>3. AutosBy(p) = {}
  BY DEF RefreshEnqueue, IInv, CyclesFit
<1>4. /\ fresh' \in [Web -> {"rest", "flight", "budget", "enqueue"}]
      /\ \A q \in Web : fresh'[q] = fresh[q] \/ fresh'[q] = "rest"
      /\ fresh'[p] = "rest"
  BY DEF RefreshEnqueue, IInv, TypeOK
<1>5. UNCHANGED <<age, lapsed, beat, work>>
  BY DEF RefreshEnqueue
<1> QED BY <1>1, <1>2, <1>3, <1>4, <1>5, InsertOK DEF Sources

LEMMA RefresherOK ==
    ASSUME IInv, NEW p \in Web, Refresher(p) \/ AbandonCycle(p) PROVE IInv'
<1>1. CASE ReadTarget(p) \/ ReadFlight(p) \/ ReadBudget(p) \/ AbandonCycle(p)
  <2>1. TypeOK' /\ UNCHANGED <<row, work, answers>>
    BY <1>1 DEF ReadTarget, ReadFlight, ReadBudget, AbandonCycle, IInv, TypeOK
  <2>2. \A q \in Web : \/ fresh'[q] = fresh[q]
                       \/ fresh'[q] \notin {"budget", "enqueue"}
                       \/ fresh[q] = "flight" /\ InFlight = {}
                       \/ fresh[q] = "budget"
    BY <1>1 DEF ReadTarget, ReadFlight, ReadBudget, AbandonCycle, IInv, TypeOK
  <2> QED BY <2>1, <2>2, QuietOK
<1> QED BY <1>1, RefreshEnqueueOK DEF Refresher

\* The delete waits for the attempt, so no draft is left behind.
LEMMA DeleteOK == ASSUME IInv, NEW r \in Requests, DeleteRequest(r) PROVE IInv'
<1>1. Gone \in States
  BY DEF Gone, NoRow, States
<1>2. /\ row' = [row EXCEPT ![r] = Gone] /\ Exists(r)
      /\ lapsed' \subseteq lapsed /\ UNCHANGED <<age, beat, work, fresh, answers>>
      /\ \A q \in Web : work[q].req # r
  BY DEF DeleteRequest
<1>3. work' \in [Web -> [req : Requests \cup {0}, draft : States]]
  BY <1>2 DEF IInv, TypeOK
<1> QED BY <1>1, <1>2, <1>3, ReplaceOK

\* Heartbeats and time touch neither rows nor attempts.
LEMMA TimeOK ==
    ASSUME IInv,
           \/ \E p \in Web : Heartbeat(p)
           \/ \E r \in Requests : HeartbeatLost(r) \/ Age(r) \/ Lapse(r)
    PROVE  IInv'
<1>1. UNCHANGED <<row, work, answers, fresh>>
  BY DEF Heartbeat, HeartbeatLost, Age, Lapse
<1>2. TypeOK'
  <2>1. age' \in [Requests -> Fresh..Old]
    <3>1. ASSUME NEW r \in Requests, Age(r) PROVE age' \in [Requests -> Fresh..Old]
      BY <3>1 DEF Age, IInv, TypeOK, Fresh, Old
    <3>2. CASE age' = age
      BY <3>2 DEF IInv, TypeOK
    <3> QED BY <3>1, <3>2 DEF Heartbeat, HeartbeatLost, Lapse
  <2>2. lapsed' \subseteq Requests
    BY DEF Heartbeat, HeartbeatLost, Age, Lapse, IInv, TypeOK, Completed
  <2>3. beat' \subseteq Requests
    <3>1. ASSUME NEW p \in Web, Heartbeat(p) PROVE beat' \subseteq Requests
      <4>1. work[p].req \in Requests
        BY <3>1 DEF Heartbeat, Attempting, IInv, TypeOK
      <4> QED BY <3>1, <4>1 DEF Heartbeat, IInv, TypeOK
    <3>2. CASE beat' \subseteq beat
      BY <3>2 DEF IInv, TypeOK
    <3> QED BY <3>1, <3>2 DEF HeartbeatLost, Age, Lapse
  <2> QED BY <1>1, <2>1, <2>2, <2>3 DEF IInv, TypeOK
<1> QED BY <1>1, <1>2, QuietOK

LEMMA NextOK == ASSUME IInv, [Next]_vars PROVE IInv'
<1>1. CASE Client
  BY <1>1, ClientOK
<1>2. ASSUME NEW p \in Web, Worker(p) \/ RollBack(p) PROVE IInv'
  BY <1>2, ExpireOK, PickUpOK, RunnerWritesOK, RunnerRaisesOK, CommitOK, RollBackOK, TimeOK
  DEF Worker, Attempt
<1>3. ASSUME NEW p \in Web, Refresher(p) \/ AbandonCycle(p) PROVE IInv'
  BY <1>3, RefresherOK
<1>4. ASSUME NEW r \in Requests, DeleteRequest(r) \/ HeartbeatLost(r) \/ Age(r) \/ Lapse(r)
      PROVE  IInv'
  BY <1>4, DeleteOK, TimeOK
<1>5. CASE UNCHANGED vars
  BY <1>5, QuietOK DEF vars, IInv, TypeOK
<1> QED BY <1>1, <1>2, <1>3, <1>4, <1>5 DEF Next

\* The inductive invariant holds in every state the queue reaches.
THEOREM Inductive == Spec => []IInv
<1> QED BY InitOK, NextOK, PTL DEF Spec

\* Two workers never run one request at once, however many poll the table.
THEOREM QueueOneAttempt == Spec => []OneAttempt
<1>1. IInv => OneAttempt
  BY DEF IInv
<1> QED BY <1>1, Inductive, PTL

\* The request, its job and its results agree after any commit and any crash.
THEOREM QueueRowsAgree == Spec => []RowsAgree
<1>1. IInv => RowsAgree
  BY DEF IInv
<1> QED BY <1>1, Inductive, PTL

\* A key of a source stands for one request and one intent.
THEOREM QueueKeyNamesOne == Spec => []KeyNamesOne
<1>1. IInv => KeyNamesOne
  BY DEF IInv, KeyNamesOne, AnswersFit, KeysUnique
<1> QED BY <1>1, Inductive, PTL

\* A refresher has at most one forecast of its own in flight.
THEOREM QueueOneAutoPerWeb == Spec => []OneAutoPerWeb
<1>1. IInv => OneAutoPerWeb
  BY DEF IInv
<1> QED BY <1>1, Inductive, PTL

\* What a step may do to a row: insert it, settle it while it is queued, delete it.
LEMMA RowStep ==
    ASSUME IInv, [Next]_vars, NEW r \in Requests
    PROVE  \/ row'[r] = row[r]
           \/ Unborn(r) /\ \A p \in Web : row'[r].by = p => RefreshEnqueue(p)
           \/ Exists(r) /\ row'[r] = Gone
           \/ /\ Exists(r) /\ row[r].job = "queued"
              /\ row'[r].source = row[r].source /\ row'[r].by = row[r].by
<1> DEFINE Goal == \/ row'[r] = row[r]
                   \/ Unborn(r) /\ \A p \in Web : row'[r].by = p => RefreshEnqueue(p)
                   \/ Exists(r) /\ row'[r] = Gone
                   \/ /\ Exists(r) /\ row[r].job = "queued"
                      /\ row'[r].source = row[r].source /\ row'[r].by = row[r].by
<1>0. row \in [Requests -> States]
  BY DEF IInv, TypeOK
<1>1. ASSUME NEW s, NEW k, NEW i, NEW p, Ask(s, k, i, p),
             p \in Web => RefreshEnqueue(p)
      PROVE  Goal
  <2>1. CASE UNCHANGED row
    BY <2>1
  <2>2. CASE Insert(s, k, i, p)
    <3>1. PICK q \in Requests : Unborn(q) /\ row' = [row EXCEPT ![q] = Queued(s, k, i, p)]
      BY <2>2 DEF Insert
    <3>2. CASE q = r
      <4>1. row'[r].by = p
        BY <1>0, <3>1, <3>2 DEF Queued
      <4> QED BY <1>1, <3>1, <3>2, <4>1
    <3>3. CASE q # r
      BY <1>0, <3>1, <3>3
    <3> QED BY <3>2, <3>3
  <2> QED BY <1>1, <2>1, <2>2 DEF Ask
<1>2. ASSUME NEW p \in Web, Expire(p) PROVE Goal
  <2>1. PICK q \in Requests :
          /\ Picks(p, q)
          /\ row' = [row EXCEPT ![q].job = "expired", ![q].exec = "expired",
                                ![q].status = "failed"]
    BY <1>2 DEF Expire
  <2>2. CASE q = r
    BY <1>0, <2>1, <2>2, PicksFact DEF States
  <2>3. CASE q # r
    BY <1>0, <2>1, <2>3
  <2> QED BY <2>2, <2>3
<1>3. ASSUME NEW p \in Web, RunnerRaises(p) PROVE Goal
  <2>1. row' = [row EXCEPT ![work[p].req] = FailedRow(work[p].draft)]
    BY <1>3 DEF RunnerRaises
  <2>2. /\ DraftFits(p) /\ Exists(work[p].req) /\ work[p].draft \in States
    BY <1>3, AttemptFact DEF RunnerRaises
  <2>3. CASE r = work[p].req
    <3>1. row'[r] = FailedRow(work[p].draft)
      BY <1>0, <2>1, <2>3
    <3>2. /\ row'[r].source = work[p].draft.source
          /\ row'[r].by = work[p].draft.by
      BY <2>2, <3>1 DEF FailedRow, States
    <3> QED BY <2>2, <2>3, <3>2 DEF DraftFits
  <2>4. CASE r # work[p].req
    BY <1>0, <2>1, <2>4
  <2> QED BY <2>3, <2>4
<1>4. ASSUME NEW p \in Web, Commit(p) PROVE Goal
  <2>1. row' = [row EXCEPT ![work[p].req] = CompletedRow(work[p].draft)]
    BY <1>4 DEF Commit
  <2>2. /\ DraftFits(p) /\ Exists(work[p].req) /\ work[p].draft \in States
    BY <1>4, AttemptFact DEF Commit
  <2>3. CASE r = work[p].req
    <3>1. row'[r] = CompletedRow(work[p].draft)
      BY <1>0, <2>1, <2>3
    <3>2. /\ row'[r].source = work[p].draft.source
          /\ row'[r].by = work[p].draft.by
      BY <2>2, <3>1 DEF CompletedRow, States
    <3> QED BY <2>2, <2>3, <3>2 DEF DraftFits
  <2>4. CASE r # work[p].req
    BY <1>0, <2>1, <2>4
  <2> QED BY <2>3, <2>4
<1>5. ASSUME NEW q \in Requests, DeleteRequest(q) PROVE Goal
  BY <1>0, <1>5 DEF DeleteRequest
<1>6. CASE row' = row
  BY <1>6
<1>7. CASE Client
  BY <1>1, <1>7 DEF Client, QueuePrediction, CreateForecast
<1>8. ASSUME NEW p \in Web, Worker(p) \/ RollBack(p) PROVE Goal
  <2>1. CASE Expire(p) \/ RunnerRaises(p) \/ Commit(p)
    BY <2>1, <1>2, <1>3, <1>4
  <2>2. CASE \/ PickUp(p) \/ Heartbeat(p) \/ RollBack(p)
             \/ \E quality \in {"partial", "completed"} : RunnerWrites(p, quality)
    <3>1. row' = row
      BY <2>2 DEF PickUp, Heartbeat, RollBack, RunnerWrites
    <3> QED BY <3>1
  <2> HIDE DEF Goal
  <2> QED BY <1>8, <2>1, <2>2 DEF Worker, Attempt
<1>9. ASSUME NEW p \in Web, Refresher(p) \/ AbandonCycle(p) PROVE Goal
  <2>1. CASE RefreshEnqueue(p)
    BY <2>1, <1>1 DEF RefreshEnqueue
  <2>2. CASE ReadTarget(p) \/ ReadFlight(p) \/ ReadBudget(p) \/ AbandonCycle(p)
    BY <2>2, <1>6 DEF ReadTarget, ReadFlight, ReadBudget, AbandonCycle
  <2> HIDE DEF Goal
  <2> QED BY <1>9, <2>1, <2>2 DEF Refresher
<1>10. ASSUME NEW q \in Requests, DeleteRequest(q) \/ HeartbeatLost(q) \/ Age(q) \/ Lapse(q)
       PROVE  Goal
  BY <1>10, <1>5, <1>6 DEF HeartbeatLost, Age, Lapse
<1>11. CASE UNCHANGED vars
  BY <1>6, <1>11 DEF vars
<1>12. CASE Next
  <2>1. CASE \E p \in Web : Worker(p) \/ RollBack(p) \/ Refresher(p) \/ AbandonCycle(p)
    BY <2>1, <1>8, <1>9
  <2>2. CASE \E q \in Requests : DeleteRequest(q) \/ HeartbeatLost(q) \/ Age(q) \/ Lapse(q)
    BY <2>2, <1>10
  <2> QED BY <1>12, <2>1, <2>2, <1>7 DEF Next
<1> QED BY <1>11, <1>12

\* A deleted request never comes back.
THEOREM QueueGoneStaysGone == Spec => GoneStaysGone
<1> DEFINE Kept == \A r \in Requests : (row[r].status = "gone") => row'[r] = row[r]
<1>1. ASSUME IInv, [Next]_vars, NEW r \in Requests, row[r].status = "gone"
      PROVE  row'[r] = row[r]
  BY <1>1, RowStep DEF Exists, Unborn
<1>2. IInv /\ [Next]_vars => Kept
  BY <1>1
<1> QED BY <1>2, Inductive, PTL DEF Spec, GoneStaysGone

\* Once a request is settled, every poll answers its outcome, and always the same.
THEOREM QueueAnswerIsFinal == Spec => AnswerIsFinal
<1> DEFINE Final == \A r \in Requests :
          (Exists(r) /\ row[r].job \in Settled /\ row'[r].status # "gone")
              => Answer(r) = row[r].exec /\ Answer(r)' = Answer(r)
<1>1. ASSUME IInv, [Next]_vars, NEW r \in Requests,
             Exists(r), row[r].job \in Settled, row'[r].status # "gone"
      PROVE  Answer(r) = row[r].exec /\ Answer(r)' = Answer(r)
  <2>1. row'[r] = row[r]
    BY <1>1, RowStep DEF Exists, Unborn, Settled, Gone, NoRow
  <2>2. row[r].status \in {"completed", "failed"}
    BY <1>1 DEF IInv, RowsAgree, RowAgrees, Settled
  <2> QED BY <2>1, <2>2 DEF Answer, ResolveExecutionState
<1>2. IInv /\ [Next]_vars => [Final]_vars
  BY <1>1
<1> QED BY <1>2, Inductive, PTL DEF Spec, AnswerIsFinal

\* The budget: what a refresher queued in the last day, with room for one more
\* while its decision to queue is pending.
Own(p) == {r \in AutoRows : row[r].by = p}

BudgetInv ==
    \A p \in Web : /\ Cardinality(Own(p)) <= MaxPerDay
                   /\ fresh[p] = "enqueue" => Cardinality(Own(p)) < MaxPerDay

LEMMA FiniteRows ==
    /\ IsFiniteSet(AutoRows) /\ Cardinality(AutoRows) \in Nat
    /\ \A p : IsFiniteSet(Own(p)) /\ Cardinality(Own(p)) \in Nat
          /\ Cardinality(Own(p)) <= Cardinality(AutoRows)
<1>1. IsFiniteSet(Requests)
  BY FS_Interval
<1>2. IsFiniteSet(AutoRows)
  BY <1>1, FS_Subset DEF AutoRows
<1>3. \A p : Own(p) \subseteq AutoRows
  BY DEF Own
<1> QED BY <1>2, <1>3, FS_Subset, FS_CardinalityType

\* Whoever acts, a refresher's rows in the window grow only by its own enqueue.
LEMMA OwnShrinks ==
    ASSUME IInv, [Next]_vars, NEW p \in Web, ~RefreshEnqueue(p)
    PROVE  Own(p)' \subseteq Own(p)
<1> SUFFICES ASSUME NEW r \in Requests, Exists(r)', row'[r].source = "auto",
                    age'[r] < Old, row'[r].by = p
             PROVE  Exists(r) /\ row[r].source = "auto" /\ age[r] < Old /\ row[r].by = p
  BY DEF Own, AutoRows
<1>1. Exists(r) /\ row[r].source = "auto" /\ row[r].by = p
  <2>1. row'[r] # Gone
    BY DEF Exists, Gone, NoRow
  <2> QED BY <2>1, RowStep DEF Exists
<1>2. age[r] < Old
  <2>1. age' = age \/ \E q \in Requests : age' = [age EXCEPT ![q] = @ + 1]
    BY DEF Next, vars, Client, QueuePrediction, CreateForecast, Worker, Expire, PickUp,
           Heartbeat, Attempt, RunnerWrites, RunnerRaises, Commit, RollBack, Refresher,
           ReadTarget, ReadFlight, ReadBudget, RefreshEnqueue, AbandonCycle,
           DeleteRequest, HeartbeatLost, Age, Lapse
  <2>2. age[r] \in Fresh..Old
    BY DEF IInv, TypeOK
  <2> QED BY <2>1, <2>2 DEF Fresh, Old, IInv, TypeOK
<1> QED BY <1>1, <1>2

\* Its own enqueue adds one row at most.
LEMMA OwnGrowsByOne ==
    ASSUME IInv, NEW p \in Web, RefreshEnqueue(p)
    PROVE  Cardinality(Own(p)') <= Cardinality(Own(p)) + 1
<1>1. Insert("auto", NoKey, "session", p)
  <2>1. Previous("auto", NoKey) = {}
    BY DEF Previous
  <2> QED BY <2>1 DEF RefreshEnqueue, Ask
<1>2. PICK r \in Requests : row' = [row EXCEPT ![r] = Queued("auto", NoKey, "session", p)]
  BY <1>1 DEF Insert
<1>3. Own(p)' \subseteq Own(p) \cup {r}
  <2> SUFFICES ASSUME NEW q \in Requests, q # r, Exists(q)', row'[q].source = "auto",
                      age'[q] < Old, row'[q].by = p
               PROVE  Exists(q) /\ row[q].source = "auto" /\ age[q] < Old /\ row[q].by = p
    BY DEF Own, AutoRows
  <2>1. row'[q] = row[q]
    BY <1>2 DEF IInv, TypeOK
  <2>2. age' = age
    BY DEF RefreshEnqueue
  <2> QED BY <2>1, <2>2 DEF Exists
<1>4. /\ IsFiniteSet(Own(p) \cup {r})
      /\ Cardinality(Own(p) \cup {r}) <= Cardinality(Own(p)) + 1
  <2>1. IsFiniteSet(Own(p)) /\ Cardinality(Own(p)) \in Nat
    BY FiniteRows
  <2>2. /\ IsFiniteSet(Own(p) \cup {r})
        /\ \/ Cardinality(Own(p) \cup {r}) = Cardinality(Own(p))
           \/ Cardinality(Own(p) \cup {r}) = Cardinality(Own(p)) + 1
    BY <2>1, FS_AddElement
  <2> QED BY <2>1, <2>2
<1> DEFINE bigger == Own(p) \cup {r}
<1>5. Own(p)' \subseteq bigger /\ IsFiniteSet(bigger)
  BY <1>3, <1>4
<1>6. Cardinality(Own(p)') <= Cardinality(bigger)
  BY <1>5, FS_Subset
<1>7. Cardinality(Own(p)') \in Nat /\ Cardinality(bigger) \in Nat
  BY <1>5, FS_Subset, FS_CardinalityType
<1> QED BY <1>4, <1>6, <1>7, FiniteRows

LEMMA BudgetStep == ASSUME IInv, BudgetInv, [Next]_vars PROVE BudgetInv'
<1> SUFFICES ASSUME NEW p \in Web
             PROVE  /\ Cardinality(Own(p)') <= MaxPerDay
                    /\ fresh'[p] = "enqueue" => Cardinality(Own(p)') < MaxPerDay
  BY DEF BudgetInv
<1>1. CASE RefreshEnqueue(p)
  <2>1. fresh'[p] = "rest" /\ fresh[p] = "enqueue"
    BY <1>1 DEF RefreshEnqueue, IInv, TypeOK
  <2>3. Cardinality(Own(p)) < MaxPerDay
    BY <2>1 DEF BudgetInv
  <2>2. Cardinality(Own(p)') \in Nat
    <3>1. IsFiniteSet(Requests) /\ Own(p)' \subseteq Requests
      BY FS_Interval DEF Own, AutoRows
    <3> QED BY <3>1, FS_Subset, FS_CardinalityType
  <2>4. Cardinality(Own(p)') <= Cardinality(Own(p)) + 1 /\ Cardinality(Own(p)) \in Nat
    BY <1>1, OwnGrowsByOne, FiniteRows
  <2> QED BY <2>1, <2>2, <2>3, <2>4
<1>2. CASE ~RefreshEnqueue(p)
  <2>1. /\ Cardinality(Own(p)') <= Cardinality(Own(p))
        /\ Cardinality(Own(p)') \in Nat
    BY <1>2, OwnShrinks, FiniteRows, FS_Subset, FS_CardinalityType
  <2>2. fresh'[p] = "enqueue" => fresh[p] = "enqueue" \/ DecideRefresh(AutoRows)
    BY DEF Next, vars, Client, QueuePrediction, CreateForecast, Worker, Expire, PickUp,
           Heartbeat, Attempt, RunnerWrites, RunnerRaises, Commit, RollBack, Refresher,
           ReadTarget, ReadFlight, ReadBudget, RefreshEnqueue, AbandonCycle,
           DeleteRequest, HeartbeatLost, Age, Lapse, IInv, TypeOK
  <2>3. DecideRefresh(AutoRows) => Cardinality(Own(p)) < MaxPerDay
    BY FiniteRows DEF DecideRefresh
  <2>4. /\ Cardinality(Own(p)) <= MaxPerDay /\ Cardinality(Own(p)) \in Nat
        /\ fresh[p] = "enqueue" => Cardinality(Own(p)) < MaxPerDay
    BY FiniteRows DEF BudgetInv
  <2> QED BY <2>1, <2>2, <2>3, <2>4
<1> QED BY <1>1, <1>2

\* No refresher has more surviving forecasts of a day than the budget, for any
\* number of refreshers.
THEOREM QueueBudgetHolds == Spec => []BudgetHolds
<1>1. Init => BudgetInv
  <2> SUFFICES ASSUME Init, NEW p \in Web
               PROVE  Cardinality(Own(p)) <= MaxPerDay /\ fresh[p] # "enqueue"
    BY DEF BudgetInv
  <2>1. Own(p) = {}
    BY DEF Init, Own, AutoRows, NoRow
  <2> QED BY <2>1, FS_EmptySet DEF Init
<1>2. IInv /\ BudgetInv /\ [Next]_vars => BudgetInv'
  BY BudgetStep
<1>3. BudgetInv => BudgetHolds
  <2> SUFFICES ASSUME BudgetInv, NEW p \in Web PROVE Cardinality(Own(p)) <= MaxPerDay
    BY DEF BudgetHolds, Own
  <2> QED BY DEF BudgetInv
<1> QED BY <1>1, <1>2, <1>3, Inductive, PTL DEF Spec
=============================================================================
