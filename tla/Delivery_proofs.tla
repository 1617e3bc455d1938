-------------------------- MODULE Delivery_proofs --------------------------
(***************************************************************************)
(* Theorems about Delivery, for any exchanges, file size and restarts.     *)
(***************************************************************************)
EXTENDS Delivery, TLAPS, FiniteSetTheorems

-----------------------------------------------------------------------------
(***************************************************************************)
(* Types.                                                                  *)
(***************************************************************************)

LEMMA SaveTyped ==
    ASSUME TypeOK, NEW e \in Exchanges, NEW outcome \in Outcomes, NEW status \in Statuses \cup {0},
           NEW sent \in 0..Size, Save(e, outcome, status, sent)
    PROVE  /\ row' \in [Exchanges -> Rows]
           /\ capture' \in Captures
<1> DEFINE new == [outcome |-> outcome, status |-> status, sent |-> sent]
<1>1. new \in Rows
  BY DEF Rows
<1>2. Failed \in Captures
  BY DEF TypeOK, Failed, Captures
<1>3. row' = row \/ row' = [row EXCEPT ![e] = new]
  BY DEF Save
<1>4. capture' = capture \/ capture' = Failed
  BY DEF Save
<1> HIDE DEF new
<1> QED
  BY <1>1, <1>2, <1>3, <1>4 DEF TypeOK

LEMMA OutcomeTyped == \A status : OutcomeOf(status) \in Outcomes
BY DEF OutcomeOf, Outcomes

LEMMA StatusesTyped == 0 \in 0..Size /\ {200, 500, 503} \subseteq Statuses /\ Statuses \subseteq Nat
BY SizeAssumption, StatusesAssumption DEF Statuses

LEMMA WithoutTyped ==
    \A step \in Steps : Without(step) \in Requests
BY StatusesTyped DEF Without, Requests

-----------------------------------------------------------------------------
(***************************************************************************)
(* The inductive invariant: what is so of an exchange at each of its steps. *)
(***************************************************************************)

Agrees(e) ==
    /\ attempts[e] = 1 \/ row[e].outcome = "download_served" => wire[e].bytes = Size
    /\ row[e].outcome = "transfer_incomplete" =>
          attempts[e] = 0 /\ row[e].sent \in {wire[e].bytes, wire[e].bytes + 1}
    /\ row[e].status # 0 /\ wire[e].status # 0 => row[e].status = wire[e].status

Unfinished == {"none", "received", "streaming"}

BeforeAnswer(e) ==
    exchange[e].step \in {"new", "routed", "opened", "answered", "ready"} =>
        /\ wire[e].status = 0 /\ wire[e].bytes = 0 /\ attempts[e] = 0
        /\ exchange[e].sent = 0 /\ exchange[e].completed = FALSE

Unanswered(e) ==
    exchange[e].step \in {"new", "routed", "opened"} =>
        /\ row[e].outcome \in {"none", "received"} /\ row[e].status = 0
        /\ exchange[e].step = "new" => row[e] = NoRow
        /\ object[e] = IF exchange[e].step = "opened" THEN "open" ELSE "none"

Answered(e) ==
    exchange[e].step \in {"answered", "ready"} =>
        /\ row[e].status \in {0, exchange[e].status}
        /\ object[e] = "open" => exchange[e].status = 200 /\ row[e].outcome \in Unfinished
        /\ object[e] # "open" => \/ row[e].outcome \in {"none", "received"}
                                 \/ /\ row[e].outcome \in Ledger!Replies
                                    /\ exchange[e].status \in Ledger!StatusesOf(row[e].outcome)
        /\ exchange[e].responded = FALSE =>
              /\ object[e] = "none" /\ exchange[e].status \in Refusals
              /\ row[e].outcome \in {"none", "received"} /\ row[e].status = 0

Streaming(e) ==
    exchange[e].step \in {"pulling", "yielded", "recording", "closing"} =>
        /\ wire[e].status = 200 /\ row[e].outcome \in Unfinished /\ row[e].status \in {0, 200}
        /\ exchange[e].step # "closing" => attempts[e] = 0 /\ exchange[e].completed = FALSE
        /\ exchange[e].step = "pulling" => wire[e].bytes = exchange[e].sent
        /\ exchange[e].step = "yielded" => wire[e].bytes + 1 = exchange[e].sent
        /\ exchange[e].step = "recording" => wire[e].bytes = Size /\ exchange[e].sent = Size
        /\ exchange[e].step = "closing" =>
              IF exchange[e].completed THEN wire[e].bytes = Size /\ exchange[e].sent = Size
              ELSE attempts[e] = 0 /\ exchange[e].sent \in {wire[e].bytes, wire[e].bytes + 1}

Released(e) ==
    object[e] = "open" =>
        exchange[e].step \in {"opened", "answered", "ready", "pulling", "yielded", "left"}

Sound(e) ==
    /\ row[e].outcome = "none" => row[e] = NoRow
    /\ Agrees(e) /\ BeforeAnswer(e) /\ Unanswered(e) /\ Answered(e) /\ Streaming(e) /\ Released(e)

DeliveryInv == TypeOK /\ \A e \in Exchanges : Sound(e)

\* What a step of e leaves alone.
Frame(e) ==
    \A f \in Exchanges \ {e} :
        /\ exchange'[f] = exchange[f] /\ row'[f] = row[f] /\ wire'[f] = wire[f]
        /\ object'[f] = object[f] /\ attempts'[f] = attempts[f]

LEMMA StepOfOne ==
    ASSUME DeliveryInv, NEW e \in Exchanges, TypeOK', Frame(e), Sound(e)' PROVE DeliveryInv'
<1>1. ASSUME NEW f \in Exchanges \ {e} PROVE Sound(f)'
  <2>1. Sound(f)
    BY DEF DeliveryInv
  <2>2. /\ exchange'[f] = exchange[f] /\ row'[f] = row[f] /\ wire'[f] = wire[f]
        /\ object'[f] = object[f] /\ attempts'[f] = attempts[f]
    BY <1>1 DEF Frame
  <2>3. Agrees(f)' /\ BeforeAnswer(f)' /\ Unanswered(f)' /\ Answered(f)' /\ Streaming(f)' /\ Released(f)'
    BY <2>1, <2>2 DEF Sound, Agrees, BeforeAnswer, Unanswered, Answered, Streaming, Released
  <2> QED
    BY <2>1, <2>2, <2>3 DEF Sound
<1> QED
  BY <1>1 DEF DeliveryInv

LEMMA InitSound == Init => DeliveryInv
<1> SUFFICES ASSUME Init PROVE DeliveryInv
  OBVIOUS
<1>1. TypeOK
  <2>1. Without("new") \in Requests /\ "new" \in Steps
    BY WithoutTyped DEF Steps
  <2>2. NoRow \in Rows /\ [status |-> 0, bytes |-> 0] \in Wires
    BY StatusesTyped DEF NoRow, Rows, Wires
  <2>3. NoCapture \in Captures /\ 0 \in 0..MaxRestarts
    BY RestartsAssumption DEF NoCapture, Captures
  <2> QED
    BY <2>1, <2>2, <2>3 DEF Init, TypeOK
<1>2. ASSUME NEW e \in Exchanges PROVE Sound(e)
  <2>1. /\ exchange[e].step = "new" /\ exchange[e].sent = 0 /\ exchange[e].completed = FALSE
        /\ row[e] = NoRow /\ wire[e].status = 0 /\ wire[e].bytes = 0 /\ object[e] = "none"
        /\ attempts[e] = 0
    BY <1>2 DEF Init, Without
  <2>2. row[e].outcome = "none" /\ row[e].status = 0
    BY <2>1 DEF NoRow
  <2> QED
    BY <2>1, <2>2 DEF Sound, Agrees, BeforeAnswer, Unanswered, Answered, Streaming, Released
<1> QED
  BY <1>1, <1>2 DEF DeliveryInv

-----------------------------------------------------------------------------
(***************************************************************************)
(* What the operators of the module do.                                    *)
(***************************************************************************)

OthersStay(e) == \A f \in Exchanges \ {e} : exchange'[f] = exchange[f]

LEMMA GoEffect ==
    ASSUME TypeOK, NEW e \in Exchanges, NEW step \in Steps, Go(e, step)
    PROVE  /\ exchange' \in [Exchanges -> Requests] /\ OthersStay(e)
           /\ exchange'[e].step = step
           /\ exchange'[e].known = exchange[e].known
           /\ exchange'[e].responded = exchange[e].responded
           /\ exchange'[e].status = exchange[e].status
           /\ exchange'[e].sent = exchange[e].sent
           /\ exchange'[e].completed = exchange[e].completed
<1>1. exchange[e] \in Requests
  BY DEF TypeOK
<1>2. exchange' = [exchange EXCEPT ![e] = [exchange[e] EXCEPT !.step = step]]
  BY DEF Go
<1>3. [exchange[e] EXCEPT !.step = step] \in Requests
  BY <1>1 DEF Requests
<1> QED
  BY <1>1, <1>2, <1>3 DEF TypeOK, Requests, OthersStay

LEMMA EndEffect ==
    ASSUME TypeOK, NEW e \in Exchanges, NEW step \in Steps, End(e, step)
    PROVE  /\ exchange' \in [Exchanges -> Requests] /\ OthersStay(e)
           /\ exchange'[e].step = step
  BY WithoutTyped DEF TypeOK, End, OthersStay, Without

LEMMA RespondedEffect ==
    ASSUME TypeOK, NEW e \in Exchanges, NEW status \in Statuses, Responded(e, status)
    PROVE  /\ exchange' \in [Exchanges -> Requests] /\ OthersStay(e)
           /\ exchange'[e].step = "answered" /\ exchange'[e].responded = TRUE
           /\ exchange'[e].known = exchange[e].known /\ exchange'[e].status = status
           /\ exchange'[e].sent = exchange[e].sent
           /\ exchange'[e].completed = exchange[e].completed
<1> DEFINE new == [exchange[e] EXCEPT !.step = "answered", !.responded = TRUE, !.status = status]
<1>1. exchange[e] \in Requests /\ "answered" \in Steps
  BY DEF TypeOK, Steps
<1>2. exchange' = [exchange EXCEPT ![e] = new]
  BY DEF Responded
<1>3. /\ new \in Requests /\ new.step = "answered" /\ new.responded = TRUE /\ new.status = status
      /\ new.known = exchange[e].known /\ new.sent = exchange[e].sent
      /\ new.completed = exchange[e].completed
  BY <1>1 DEF Requests
<1> HIDE DEF new
<1> QED
  BY <1>1, <1>2, <1>3 DEF TypeOK, OthersStay

LEMMA SaveEffect ==
    ASSUME TypeOK, NEW e \in Exchanges, NEW outcome, NEW status, NEW sent,
           Save(e, outcome, status, sent)
    PROVE  /\ \A f \in Exchanges \ {e} : row'[f] = row[f]
           /\ \/ row'[e] = row[e]
              \/ /\ row[e] # NoRow
                 /\ row'[e].outcome = outcome /\ row'[e].status = status /\ row'[e].sent = sent
<1> DEFINE new == [outcome |-> outcome, status |-> status, sent |-> sent]
<1>1. row' = row \/ (row[e] # NoRow /\ row' = [row EXCEPT ![e] = new])
  BY DEF Save
<1>2. new.outcome = outcome /\ new.status = status /\ new.sent = sent
  OBVIOUS
<1> HIDE DEF new
<1> QED
  BY <1>1, <1>2 DEF TypeOK

-----------------------------------------------------------------------------
(***************************************************************************)
(* The steps keep the invariant.                                           *)
(***************************************************************************)

LEMMA ReceiveSound ==
    ASSUME DeliveryInv, NEW e \in Exchanges, Receive(e) PROVE DeliveryInv'
<1>1. TypeOK /\ Sound(e) /\ exchange[e].step = "new"
  BY DEF DeliveryInv, Receive, At
<1>2. PICK known \in BOOLEAN, stored \in BOOLEAN :
          /\ exchange' = [exchange EXCEPT ![e].step = "routed", ![e].known = known]
          /\ row' = IF stored THEN [row EXCEPT ![e] = Receipt] ELSE row
          /\ (stored /\ capture' = [capture EXCEPT !.received = @ + 1]) \/ capture' = Failed
  BY DEF Receive
<1> DEFINE new == [exchange[e] EXCEPT !.step = "routed", !.known = known]
<1>3. /\ new \in Requests /\ new.step = "routed" /\ new.sent = exchange[e].sent
      /\ new.completed = exchange[e].completed
  BY <1>1 DEF TypeOK, Requests, Steps
<1>4. exchange' = [exchange EXCEPT ![e] = new]
  BY <1>2
<1> HIDE DEF new
<1>5. Receipt \in Rows /\ Receipt.outcome = "received" /\ Receipt.status = 0
  BY StatusesTyped DEF Receipt, NoRow, Rows, Outcomes
<1>6. capture' \in Captures
  BY <1>1, <1>2 DEF TypeOK, Captures, Failed
<1>7. UNCHANGED <<wire, object, attempts, restarts>>
  BY DEF Receive
<1>8. TypeOK'
  BY <1>1, <1>2, <1>3, <1>4, <1>5, <1>6, <1>7 DEF TypeOK
<1>9. Frame(e)
  BY <1>1, <1>2, <1>4, <1>7 DEF Frame, TypeOK
<1>10. /\ exchange'[e].step = "routed" /\ exchange'[e].sent = 0 /\ exchange'[e].completed = FALSE
       /\ row'[e] = NoRow \/ (row'[e].outcome = "received" /\ row'[e].status = 0)
       /\ wire'[e].status = 0 /\ wire'[e].bytes = 0 /\ attempts'[e] = 0 /\ object'[e] = "none"
  BY <1>1, <1>2, <1>3, <1>4, <1>5, <1>7 DEF TypeOK, Sound, BeforeAnswer, Unanswered
<1>11. Sound(e)'
  BY <1>10 DEF Sound, Agrees, BeforeAnswer, Unanswered, Answered, Streaming, Released, NoRow
<1> QED
  BY <1>8, <1>9, <1>11, StepOfOne

\* A handler's answer, with the stream open, closed or never opened.
LEMMA AnswerSound ==
    ASSUME DeliveryInv, NEW e \in Exchanges, exchange[e].step \in {"routed", "opened"},
           NEW status \in Statuses, NEW outcome \in Outcomes,
           Responded(e, status), Save(e, outcome, status, 0),
           NEW stream \in {"none", "open", "closed"}, object' = [object EXCEPT ![e] = stream],
           UNCHANGED <<wire, attempts, restarts>>,
           \/ stream = "open" /\ status = 200 /\ outcome = "streaming"
           \/ /\ stream # "open" /\ outcome \in Ledger!Replies
              /\ status \in Ledger!StatusesOf(outcome)
    PROVE  DeliveryInv'
<1>1. TypeOK /\ Sound(e)
  BY DEF DeliveryInv
<1>2. /\ exchange' \in [Exchanges -> Requests] /\ OthersStay(e)
      /\ exchange'[e].step = "answered" /\ exchange'[e].responded = TRUE
      /\ exchange'[e].status = status
      /\ exchange'[e].sent = exchange[e].sent
      /\ exchange'[e].completed = exchange[e].completed
  BY <1>1, RespondedEffect
<1>3. /\ \A f \in Exchanges \ {e} : row'[f] = row[f]
      /\ \/ row'[e] = row[e]
         \/ row[e] # NoRow /\ row'[e].outcome = outcome /\ row'[e].status = status
  BY <1>1, SaveEffect
<1>4. TypeOK'
  BY <1>1, <1>2, SaveTyped, StatusesTyped DEF TypeOK
<1>5. Frame(e)
  BY <1>1, <1>2, <1>3 DEF Frame, OthersStay, TypeOK
<1>6. /\ wire'[e].status = 0 /\ wire'[e].bytes = 0 /\ attempts'[e] = 0 /\ object'[e] = stream
      /\ exchange'[e].sent = 0 /\ exchange'[e].completed = FALSE
      /\ row[e].outcome \in {"none", "received"} /\ row[e].status = 0
      /\ row[e].outcome = "none" => row[e] = NoRow
  BY <1>1, <1>2 DEF TypeOK, Sound, BeforeAnswer, Unanswered
<1>7. outcome \notin {"none", "download_served", "transfer_incomplete"}
  BY DEF Ledger!Replies
<1>8. Answered(e)'
  BY <1>2, <1>3, <1>6 DEF Answered, Unfinished
<1>9. Sound(e)'
  BY <1>2, <1>3, <1>6, <1>7, <1>8 DEF Sound, Agrees, BeforeAnswer, Unanswered, Streaming, Released
<1> QED
  BY <1>4, <1>5, <1>9, StepOfOne

LEMMA OutcomeMeans ==
    \A status \in Answers :
        /\ OutcomeOf(status) \in Ledger!Replies
        /\ status \in Ledger!StatusesOf(OutcomeOf(status))
<1> SUFFICES ASSUME NEW status \in {200, 401, 403, 404, 429, 503}
             PROVE  /\ OutcomeOf(status) \in Ledger!Replies
                    /\ status \in Ledger!StatusesOf(OutcomeOf(status))
  BY StatusesAssumption
<1>1. CASE status = 200
  BY <1>1 DEF OutcomeOf, Ledger!Replies, Ledger!StatusesOf
<1>2. CASE status \in {401, 403}
  BY <1>2 DEF OutcomeOf, Ledger!Replies, Ledger!StatusesOf
<1>3. CASE status = 404
  BY <1>3 DEF OutcomeOf, Ledger!Replies, Ledger!StatusesOf
<1>4. CASE status = 429
  BY <1>4 DEF OutcomeOf, Ledger!Replies, Ledger!StatusesOf
<1>5. CASE status = 503
  BY <1>5 DEF OutcomeOf, Ledger!Replies, Ledger!StatusesOf
<1> QED
  BY <1>1, <1>2, <1>3, <1>4, <1>5

LEMMA RefusalMeans ==
    \A status \in Refusals :
        status # 500 => status \in Ledger!StatusesOf("request_rejected") /\ ~(status >= 500)
<1>1. \A status \in Refusals : status # 500 => status \in {404, 405, 422}
  BY StatusesAssumption
<1> QED
  BY <1>1 DEF Ledger!StatusesOf

LEMMA ErrorMeans ==
    "server_error" \in Ledger!Replies /\ {500, 503} \subseteq Ledger!StatusesOf("server_error")
BY DEF Ledger!Replies, Ledger!StatusesOf

LEMMA HandlersSound ==
    ASSUME DeliveryInv, NEW e \in Exchanges, Answer(e) \/ Prepare(e) \/ GiveUp(e)
    PROVE  DeliveryInv'
<1>1. TypeOK /\ Sound(e)
  BY DEF DeliveryInv
<1>2. "server_error" \in Outcomes /\ "streaming" \in Outcomes
  BY DEF Outcomes
<1>3. Ledger!Replies \subseteq Outcomes
  BY DEF Ledger!Replies, Outcomes
<1>4. CASE Answer(e)
  <2>1. object[e] = "none" /\ exchange[e].step = "routed"
    BY <1>1, <1>4 DEF Answer, At, Sound, Unanswered
  <2>2. object' = [object EXCEPT ![e] = "none"] /\ UNCHANGED <<wire, attempts, restarts>>
    BY <1>1, <1>4, <2>1 DEF Answer, TypeOK
  <2>3. PICK status \in Statuses, outcome \in Ledger!Replies :
            /\ Responded(e, status) /\ Save(e, outcome, status, 0)
            /\ status \in Ledger!StatusesOf(outcome)
    BY <1>4, OutcomeMeans, ErrorMeans, StatusesTyped DEF Answer, WriteAnswer, Fail, Statuses
  <2> QED
    BY <1>3, <2>1, <2>2, <2>3, AnswerSound
<1>5. CASE Prepare(e)
  <2>1. object[e] = "open" /\ exchange[e].step = "opened"
    BY <1>1, <1>5 DEF Prepare, At, Sound, Unanswered
  <2>2. object' = [object EXCEPT ![e] = "open"] /\ UNCHANGED <<wire, attempts, restarts>>
    BY <1>1, <1>5, <2>1 DEF Prepare, TypeOK
  <2>3. Responded(e, 200) /\ Save(e, "streaming", 200, 0)
    BY <1>5 DEF Prepare, WriteAnswer
  <2> QED
    BY <1>2, <2>1, <2>2, <2>3, AnswerSound, StatusesTyped
<1>6. CASE GiveUp(e)
  <2>1. exchange[e].step = "opened"
    BY <1>6 DEF GiveUp, At
  <2>2. PICK stream \in {"none", "open", "closed"} :
            stream # "open" /\ object' = [object EXCEPT ![e] = stream]
    BY <1>6 DEF GiveUp
  <2>3. UNCHANGED <<wire, attempts, restarts>>
    BY <1>6 DEF GiveUp
  <2>4. PICK status \in Statuses, outcome \in Ledger!Replies :
            /\ Responded(e, status) /\ Save(e, outcome, status, 0)
            /\ status \in Ledger!StatusesOf(outcome)
    BY <1>6, ErrorMeans, StatusesTyped DEF GiveUp, WriteAnswer, Fail
  <2> QED
    BY <1>3, <2>1, <2>2, <2>3, <2>4, AnswerSound
<1> QED
  BY <1>4, <1>5, <1>6

LEMMA RefuseSound ==
    ASSUME DeliveryInv, NEW e \in Exchanges, Refuse(e) PROVE DeliveryInv'
<1>1. TypeOK /\ Sound(e) /\ exchange[e].step = "routed"
  BY DEF DeliveryInv, Refuse, At
<1>2. PICK status \in Refusals :
          exchange' = [exchange EXCEPT ![e].step = "answered", ![e].status = status]
  BY DEF Refuse
<1> DEFINE new == [exchange[e] EXCEPT !.step = "answered", !.status = status]
<1>3. /\ new \in Requests /\ new.step = "answered" /\ new.status = status
      /\ new.responded = exchange[e].responded
      /\ new.sent = exchange[e].sent /\ new.completed = exchange[e].completed
  <2>1. status \in Statuses
    BY DEF Statuses
  <2> QED
    BY <1>1, <2>1 DEF TypeOK, Requests, Steps
<1>4. exchange' = [exchange EXCEPT ![e] = new]
  BY <1>2
<1> HIDE DEF new
<1>5. UNCHANGED <<row, wire, object, attempts, capture, restarts>>
  BY DEF Refuse
<1>6. TypeOK' /\ Frame(e)
  BY <1>1, <1>3, <1>4, <1>5 DEF TypeOK, Frame
<1>7. Sound(e)'
  BY <1>1, <1>3, <1>4, <1>5 DEF TypeOK, Sound, Agrees, BeforeAnswer, Unanswered, Answered, Streaming,
     Released
<1> QED
  BY <1>6, <1>7, StepOfOne

LEMMA ObserveSound ==
    ASSUME DeliveryInv, NEW e \in Exchanges, Observe(e) PROVE DeliveryInv'
<1>1. TypeOK /\ Sound(e) /\ exchange[e].step = "answered"
  BY DEF DeliveryInv, Observe, At
<1> DEFINE new == [exchange[e] EXCEPT !.step = "ready", !.responded = TRUE]
<1>2. /\ new \in Requests /\ new.step = "ready" /\ new.responded = TRUE
      /\ new.status = exchange[e].status
      /\ new.sent = exchange[e].sent /\ new.completed = exchange[e].completed
  BY <1>1 DEF TypeOK, Requests, Steps
<1>3. exchange' = [exchange EXCEPT ![e] = new]
  BY DEF Observe
<1> HIDE DEF new
<1>4. UNCHANGED <<wire, object, attempts, restarts>>
  BY DEF Observe
<1>5. CASE exchange[e].responded /\ UNCHANGED <<row, capture>>
  <2>1. TypeOK' /\ Frame(e)
    BY <1>1, <1>2, <1>3, <1>4, <1>5 DEF TypeOK, Frame
  <2>2. Sound(e)'
    BY <1>1, <1>2, <1>3, <1>4, <1>5 DEF TypeOK, Sound, Agrees, BeforeAnswer, Unanswered, Answered,
       Streaming, Released
  <2> QED
    BY <2>1, <2>2, StepOfOne
<1>6. CASE ~exchange[e].responded
  <2>1. /\ exchange[e].status \in Refusals /\ object[e] = "none"
        /\ row[e].outcome \in {"none", "received"} /\ row[e].status = 0
    BY <1>1, <1>6 DEF TypeOK, Requests, Sound, Answered
  <2>2. PICK outcome \in {"server_error", "request_rejected"} :
            /\ Save(e, outcome, exchange[e].status, 0)
            /\ exchange[e].status \in Ledger!StatusesOf(outcome)
    <3>1. CASE exchange[e].status = 500
      BY <1>6, <3>1, ErrorMeans DEF Observe
    <3>2. CASE exchange[e].status # 500
      BY <1>6, <2>1, <3>2, RefusalMeans DEF Observe
    <3> QED
      BY <3>1, <3>2
  <2>3. outcome \in Outcomes /\ outcome \in Ledger!Replies
    BY DEF Outcomes, Ledger!Replies
  <2>4. exchange[e].status \in Statuses
    BY <2>1 DEF Statuses
  <2>5. /\ row' \in [Exchanges -> Rows] /\ capture' \in Captures
        /\ \A f \in Exchanges \ {e} : row'[f] = row[f]
        /\ \/ row'[e] = row[e]
           \/ /\ row[e] # NoRow
              /\ row'[e].outcome = outcome /\ row'[e].status = exchange[e].status
    <3>1. exchange[e].status \in Statuses \cup {0} /\ 0 \in 0..Size
      BY <2>4, StatusesTyped
    <3>2. row' \in [Exchanges -> Rows] /\ capture' \in Captures
      BY <1>1, <2>2, <2>3, <3>1, SaveTyped
    <3> QED
      BY <1>1, <2>2, <3>2, SaveEffect
  <2>6. TypeOK' /\ Frame(e)
    BY <1>1, <1>2, <1>3, <1>4, <2>5 DEF TypeOK, Frame
  <2>7. Sound(e)'
    BY <1>1, <1>2, <1>3, <1>4, <2>1, <2>2, <2>3, <2>5 DEF TypeOK, Sound, Agrees, BeforeAnswer, Unanswered,
       Answered, Streaming, Released
  <2> QED
    BY <2>6, <2>7, StepOfOne
<1> QED
  BY <1>5, <1>6 DEF Observe

LEMMA OpenStreamSound ==
    ASSUME DeliveryInv, NEW e \in Exchanges, OpenStream(e) PROVE DeliveryInv'
<1>1. TypeOK /\ Sound(e) /\ exchange[e].step = "routed"
  BY DEF DeliveryInv, OpenStream, At
<1>2. "opened" \in Steps /\ Go(e, "opened")
  BY DEF OpenStream, Steps
<1>3. /\ exchange' \in [Exchanges -> Requests] /\ OthersStay(e)
      /\ exchange'[e].step = "opened" /\ exchange'[e].sent = exchange[e].sent
      /\ exchange'[e].completed = exchange[e].completed
  BY <1>1, <1>2, GoEffect
<1>4. object' = [object EXCEPT ![e] = "open"] /\ UNCHANGED <<row, wire, attempts, capture, restarts>>
  BY DEF OpenStream
<1>5. TypeOK' /\ Frame(e)
  BY <1>1, <1>3, <1>4 DEF TypeOK, Frame, OthersStay
<1>6. Sound(e)'
  BY <1>1, <1>3, <1>4 DEF TypeOK, Sound, Agrees, BeforeAnswer, Unanswered, Answered, Streaming, Released
<1> QED
  BY <1>5, <1>6, StepOfOne

LEMMA WireTyped ==
    ASSUME TypeOK, NEW e \in Exchanges, NEW status \in Statuses \cup {0},
           wire' = [wire EXCEPT ![e].status = status]
    PROVE  /\ wire' \in [Exchanges -> Wires]
           /\ wire'[e].status = status /\ wire'[e].bytes = wire[e].bytes
           /\ \A f \in Exchanges \ {e} : wire'[f] = wire[f]
<1>1. wire[e] \in Wires /\ [wire[e] EXCEPT !.status = status] \in Wires
  BY DEF TypeOK, Wires
<1> QED
  BY <1>1 DEF TypeOK, Wires

LEMMA RespondSound ==
    ASSUME DeliveryInv, NEW e \in Exchanges, Reply(e) \/ Begin(e) \/ LeaveEarly(e)
    PROVE  DeliveryInv'
<1>1. TypeOK /\ Sound(e) /\ exchange[e].step = "ready"
  BY DEF DeliveryInv, Reply, Begin, LeaveEarly, At
<1>2. UNCHANGED <<row, object, attempts, capture, restarts>>
  BY DEF Reply, Begin, LeaveEarly
<1>3. exchange[e].status \in Statuses \cup {0} /\ 200 \in Statuses
  BY <1>1, StatusesTyped DEF TypeOK, Requests
<1>4. /\ wire[e].status = 0 /\ wire[e].bytes = 0 /\ attempts[e] = 0
      /\ exchange[e].sent = 0 /\ exchange[e].completed = FALSE
      /\ row[e].status \in {0, exchange[e].status}
      /\ object[e] = "open" => row[e].outcome \in Unfinished
      /\ row[e].outcome \notin {"download_served", "transfer_incomplete"}
  BY <1>1 DEF Sound, BeforeAnswer, Answered, Unfinished, Ledger!Replies
<1>5. CASE Reply(e)
  <2>1. PICK status \in {0, exchange[e].status} : wire' = [wire EXCEPT ![e].status = status]
    BY <1>5 DEF Reply
  <2>2. /\ wire' \in [Exchanges -> Wires]
        /\ wire'[e].status = status /\ wire'[e].bytes = wire[e].bytes
        /\ \A f \in Exchanges \ {e} : wire'[f] = wire[f]
    <3>1. status \in Statuses \cup {0}
      BY <1>3, <2>1
    <3> QED
      BY <1>1, <2>1, <3>1, WireTyped
  <2>3. End(e, "over") /\ "over" \in Steps
    BY <1>5 DEF Reply, Steps
  <2>4. exchange' \in [Exchanges -> Requests] /\ OthersStay(e) /\ exchange'[e].step = "over"
    BY <1>1, <2>3, EndEffect
  <2>5. object[e] # "open"
    BY <1>1, <1>5 DEF Reply, Streamed, Sound, Answered
  <2>6. TypeOK' /\ Frame(e)
    BY <1>1, <1>2, <2>2, <2>4 DEF TypeOK, Frame, OthersStay
  <2>7. Sound(e)'
    BY <1>1, <1>2, <1>4, <2>1, <2>2, <2>4, <2>5 DEF TypeOK, Sound, Agrees, BeforeAnswer, Unanswered,
       Answered, Streaming, Released
  <2> QED
    BY <2>6, <2>7, StepOfOne
<1>6. CASE Begin(e)
  <2>1. /\ wire' \in [Exchanges -> Wires]
        /\ wire'[e].status = 200 /\ wire'[e].bytes = wire[e].bytes
        /\ \A f \in Exchanges \ {e} : wire'[f] = wire[f]
    BY <1>1, <1>3, <1>6, WireTyped DEF Begin
  <2>2. Go(e, "pulling") /\ "pulling" \in Steps /\ object[e] = "open" /\ exchange[e].status = 200
    BY <1>6 DEF Begin, Steps, Streamed
  <2>3. /\ exchange' \in [Exchanges -> Requests] /\ OthersStay(e)
        /\ exchange'[e].step = "pulling" /\ exchange'[e].sent = exchange[e].sent
        /\ exchange'[e].completed = exchange[e].completed
    BY <1>1, <2>2, GoEffect
  <2>4. TypeOK' /\ Frame(e)
    BY <1>1, <1>2, <2>1, <2>3 DEF TypeOK, Frame, OthersStay
  <2>5. Sound(e)'
    BY <1>1, <1>2, <1>4, <2>1, <2>2, <2>3 DEF TypeOK, Sound, Agrees, BeforeAnswer, Unanswered,
       Answered, Streaming, Released
  <2> QED
    BY <2>4, <2>5, StepOfOne
<1>7. CASE LeaveEarly(e)
  <2>1. PICK status \in Statuses \cup {0} :
            status \in {0, 200} /\ wire' = [wire EXCEPT ![e].status = status]
    <3>1. PICK s \in {0, 200} : wire' = [wire EXCEPT ![e].status = s]
      BY <1>7 DEF LeaveEarly
    <3>2. s \in Statuses \cup {0}
      BY <1>3
    <3> QED
      BY <3>1, <3>2
  <2>2. /\ wire' \in [Exchanges -> Wires]
        /\ wire'[e].status = status /\ wire'[e].bytes = wire[e].bytes
        /\ \A f \in Exchanges \ {e} : wire'[f] = wire[f]
    BY <1>1, <2>1, WireTyped
  <2>3. End(e, "left") /\ "left" \in Steps /\ exchange[e].status = 200 /\ object[e] = "open"
    BY <1>7 DEF LeaveEarly, Steps, Streamed
  <2>4. exchange' \in [Exchanges -> Requests] /\ OthersStay(e) /\ exchange'[e].step = "left"
    BY <1>1, <2>3, EndEffect
  <2>5. TypeOK' /\ Frame(e)
    BY <1>1, <1>2, <2>2, <2>4 DEF TypeOK, Frame, OthersStay
  <2>6. Sound(e)'
    BY <1>1, <1>2, <1>4, <2>1, <2>2, <2>3, <2>4 DEF TypeOK, Sound, Agrees, BeforeAnswer, Unanswered,
       Answered, Streaming, Released
  <2> QED
    BY <2>5, <2>6, StepOfOne
<1> QED
  BY <1>5, <1>6, <1>7

LEMMA PullSound ==
    ASSUME DeliveryInv, NEW e \in Exchanges, Chunk(e) \/ Break(e) \/ Exhaust(e)
    PROVE  DeliveryInv'
<1>1. TypeOK /\ Sound(e) /\ exchange[e].step = "pulling"
  BY DEF DeliveryInv, Chunk, Break, Exhaust, At
<1>2. UNCHANGED <<row, wire, attempts, capture, restarts>>
  BY DEF Chunk, Break, Exhaust
<1>3. /\ wire[e].status = 200 /\ row[e].outcome \in Unfinished /\ row[e].status \in {0, 200}
      /\ attempts[e] = 0 /\ exchange[e].completed = FALSE /\ wire[e].bytes = exchange[e].sent
      /\ exchange[e].sent \in 0..Size /\ wire[e].bytes \in 0..Size
      /\ row[e].outcome = "none" => row[e] = NoRow
  BY <1>1 DEF Sound, Streaming, TypeOK, Requests, Wires
<1>4. CASE Chunk(e)
  <2> DEFINE new == [exchange[e] EXCEPT !.step = "yielded", !.sent = exchange[e].sent + 1]
  <2>1. exchange[e].sent + 1 \in 0..Size /\ object' = object
    BY <1>3, <1>4, SizeAssumption DEF Chunk
  <2>2. /\ new \in Requests /\ new.step = "yielded" /\ new.sent = exchange[e].sent + 1
        /\ new.completed = exchange[e].completed
    BY <1>1, <2>1 DEF TypeOK, Requests, Steps
  <2>3. exchange' = [exchange EXCEPT ![e] = new]
    BY <1>4 DEF Chunk
  <2> HIDE DEF new
  <2>4. TypeOK' /\ Frame(e)
    BY <1>1, <1>2, <2>1, <2>2, <2>3 DEF TypeOK, Frame
  <2>5. Sound(e)'
    BY <1>1, <1>2, <1>3, <2>1, <2>2, <2>3 DEF TypeOK, Sound, Agrees, BeforeAnswer, Unanswered,
       Answered, Streaming, Released, Unfinished
  <2> QED
    BY <2>4, <2>5, StepOfOne
<1>5. ASSUME NEW step \in {"closing", "recording"}, Go(e, step),
             object' = [object EXCEPT ![e] = "closed"],
             step = "recording" => exchange[e].sent = Size
      PROVE  DeliveryInv'
  <2>1. step \in Steps
    BY DEF Steps
  <2>2. /\ exchange' \in [Exchanges -> Requests] /\ OthersStay(e)
        /\ exchange'[e].step = step /\ exchange'[e].sent = exchange[e].sent
        /\ exchange'[e].completed = exchange[e].completed
    BY <1>1, <1>5, <2>1, GoEffect
  <2>3. TypeOK' /\ Frame(e)
    BY <1>1, <1>2, <1>5, <2>2 DEF TypeOK, Frame, OthersStay
  <2>4. Sound(e)'
    BY <1>1, <1>2, <1>3, <1>5, <2>2 DEF TypeOK, Sound, Agrees, BeforeAnswer, Unanswered,
       Answered, Streaming, Released, Unfinished
  <2> QED
    BY <2>3, <2>4, StepOfOne
<1> QED
  BY <1>4, <1>5 DEF Break, Exhaust

LEMMA BytesTyped ==
    ASSUME TypeOK, NEW e \in Exchanges, NEW bytes \in 0..Size,
           wire' = [wire EXCEPT ![e].bytes = bytes]
    PROVE  /\ wire' \in [Exchanges -> Wires]
           /\ wire'[e].status = wire[e].status /\ wire'[e].bytes = bytes
           /\ \A f \in Exchanges \ {e} : wire'[f] = wire[f]
<1> DEFINE new == [wire[e] EXCEPT !.bytes = bytes]
<1>1. new \in Wires /\ new.status = wire[e].status /\ new.bytes = bytes
  BY DEF TypeOK, Wires
<1>2. wire' = [wire EXCEPT ![e] = new]
  OBVIOUS
<1> HIDE DEF new
<1> QED
  BY <1>1, <1>2 DEF TypeOK

LEMMA HandSound ==
    ASSUME DeliveryInv, NEW e \in Exchanges, Hand(e) \/ ClientGone(e) PROVE DeliveryInv'
<1>1. TypeOK /\ Sound(e) /\ exchange[e].step = "yielded"
  BY DEF DeliveryInv, Hand, ClientGone, At
<1>2. UNCHANGED <<row, attempts, capture, restarts>>
  BY DEF Hand, ClientGone
<1>3. /\ wire[e].status = 200 /\ row[e].outcome \in Unfinished /\ row[e].status \in {0, 200}
      /\ attempts[e] = 0 /\ exchange[e].completed = FALSE /\ wire[e].bytes + 1 = exchange[e].sent
      /\ exchange[e].sent \in 0..Size /\ wire[e].bytes \in 0..Size
      /\ row[e].outcome = "none" => row[e] = NoRow
  BY <1>1 DEF Sound, Streaming, TypeOK, Requests, Wires
<1>4. Size \in Nat
  BY SizeAssumption
<1>5. PICK n \in {0, 1}, step \in {"pulling", "closing"} :
          /\ wire' = [wire EXCEPT ![e].bytes = @ + n] /\ Go(e, step)
          /\ step = "pulling" => n = 1 /\ object' = object
          /\ step = "closing" => object' = [object EXCEPT ![e] = "closed"]
  <2>1. CASE Hand(e)
    BY <2>1 DEF Hand
  <2>2. CASE ClientGone(e)
    BY <2>2 DEF ClientGone
  <2> QED
    BY <2>1, <2>2
<1>6. /\ wire' \in [Exchanges -> Wires]
      /\ wire'[e].status = 200 /\ wire'[e].bytes = wire[e].bytes + n
      /\ \A f \in Exchanges \ {e} : wire'[f] = wire[f]
  <2>1. PICK bytes \in 0..Size : bytes = wire[e].bytes + n
    BY <1>3, <1>4
  <2>2. wire' = [wire EXCEPT ![e].bytes = bytes]
    BY <1>5, <2>1
  <2>3. /\ wire' \in [Exchanges -> Wires]
        /\ wire'[e].status = wire[e].status /\ wire'[e].bytes = bytes
        /\ \A f \in Exchanges \ {e} : wire'[f] = wire[f]
    BY <1>1, <2>2, BytesTyped
  <2> QED
    BY <1>3, <2>1, <2>3
<1>7. step \in Steps
  BY DEF Steps
<1>8. /\ exchange' \in [Exchanges -> Requests] /\ OthersStay(e)
      /\ exchange'[e].step = step /\ exchange'[e].sent = exchange[e].sent
      /\ exchange'[e].completed = exchange[e].completed
  BY <1>1, <1>5, <1>7, GoEffect
<1>9. TypeOK' /\ Frame(e)
  BY <1>1, <1>2, <1>5, <1>6, <1>8 DEF TypeOK, Frame, OthersStay
<1>10. Sound(e)'
  BY <1>1, <1>2, <1>3, <1>5, <1>6, <1>8 DEF TypeOK, Sound, Agrees, BeforeAnswer, Unanswered, Answered,
     Streaming, Released, Unfinished
<1> QED
  BY <1>9, <1>10, StepOfOne

LEMMA RecordDownloadSound ==
    ASSUME DeliveryInv, NEW e \in Exchanges, RecordDownload(e) PROVE DeliveryInv'
<1>1. TypeOK /\ Sound(e) /\ exchange[e].step = "recording"
  BY DEF DeliveryInv, RecordDownload, At
<1>2. UNCHANGED <<row, wire, object, capture, restarts>>
  BY DEF RecordDownload
<1>3. /\ wire[e].status = 200 /\ row[e].outcome \in Unfinished /\ row[e].status \in {0, 200}
      /\ attempts[e] = 0 /\ wire[e].bytes = Size /\ exchange[e].sent = Size
      /\ row[e].outcome = "none" => row[e] = NoRow
      /\ object[e] # "open"
  BY <1>1 DEF Sound, Streaming, Released
<1>4. PICK n \in {0, 1} : attempts' = [attempts EXCEPT ![e] = @ + n]
  BY DEF RecordDownload
<1>5. /\ attempts' \in [Exchanges -> 0..1] /\ attempts'[e] = n
      /\ \A f \in Exchanges \ {e} : attempts'[f] = attempts[f]
  <2>1. attempts' = [attempts EXCEPT ![e] = n]
    BY <1>3, <1>4
  <2> QED
    BY <1>1, <2>1 DEF TypeOK
<1> DEFINE new == [exchange[e] EXCEPT !.step = "closing", !.completed = TRUE]
<1>6. new \in Requests /\ new.step = "closing" /\ new.sent = exchange[e].sent /\ new.completed = TRUE
  BY <1>1 DEF TypeOK, Requests, Steps
<1>7. exchange' = [exchange EXCEPT ![e] = new]
  BY DEF RecordDownload
<1> HIDE DEF new
<1>8. TypeOK' /\ Frame(e)
  BY <1>1, <1>2, <1>5, <1>6, <1>7 DEF TypeOK, Frame
<1>9. Sound(e)'
  BY <1>1, <1>2, <1>3, <1>5, <1>6, <1>7 DEF TypeOK, Sound, Agrees, BeforeAnswer, Unanswered, Answered,
     Streaming, Released, Unfinished
<1> QED
  BY <1>8, <1>9, StepOfOne

LEMMA SaveTransferSound ==
    ASSUME DeliveryInv, NEW e \in Exchanges, SaveTransfer(e) PROVE DeliveryInv'
<1>1. TypeOK /\ Sound(e) /\ exchange[e].step = "closing"
  BY DEF DeliveryInv, SaveTransfer, At
<1>2. UNCHANGED <<wire, object, attempts, restarts>>
  BY DEF SaveTransfer
<1>3. /\ wire[e].status = 200 /\ row[e].outcome \in Unfinished /\ row[e].status \in {0, 200}
      /\ row[e].outcome = "none" => row[e] = NoRow
      /\ object[e] # "open"
      /\ IF exchange[e].completed THEN wire[e].bytes = Size /\ exchange[e].sent = Size
         ELSE attempts[e] = 0 /\ exchange[e].sent \in {wire[e].bytes, wire[e].bytes + 1}
  BY <1>1 DEF Sound, Streaming, Released
<1>4. PICK outcome \in {"download_served", "transfer_incomplete"} :
          /\ Save(e, outcome, row[e].status, exchange[e].sent)
          /\ outcome = "download_served" <=> exchange[e].completed /\ exchange[e].sent = Size
  BY DEF SaveTransfer, Transfer
<1>5. attempts[e] = 1 => wire[e].bytes = Size
  BY <1>1 DEF Sound, Agrees
<1>6. /\ row' \in [Exchanges -> Rows] /\ capture' \in Captures
      /\ \A f \in Exchanges \ {e} : row'[f] = row[f]
      /\ \/ row'[e] = row[e]
         \/ /\ row[e] # NoRow
            /\ row'[e].outcome = outcome /\ row'[e].status = row[e].status
            /\ row'[e].sent = exchange[e].sent
  <2>1. outcome \in Outcomes /\ row[e].status \in Statuses \cup {0} /\ exchange[e].sent \in 0..Size
    BY <1>1 DEF Outcomes, TypeOK, Rows, Requests
  <2>2. row' \in [Exchanges -> Rows] /\ capture' \in Captures
    BY <1>1, <1>4, <2>1, SaveTyped
  <2> QED
    BY <1>1, <1>4, <2>2, SaveEffect
<1>7. exchange' \in [Exchanges -> Requests] /\ OthersStay(e) /\ exchange'[e].step = "over"
  <2>1. End(e, "over") /\ "over" \in Steps
    BY DEF SaveTransfer, Steps
  <2> QED
    BY <1>1, <2>1, EndEffect
<1>8. TypeOK' /\ Frame(e)
  BY <1>1, <1>2, <1>6, <1>7 DEF TypeOK, Frame, OthersStay
<1>9. Sound(e)'
  BY <1>2, <1>3, <1>4, <1>5, <1>6, <1>7 DEF Sound, Agrees, BeforeAnswer, Unanswered, Answered,
     Streaming, Released, Unfinished
<1> QED
  BY <1>8, <1>9, StepOfOne

LEMMA RestartSound ==
    ASSUME DeliveryInv, Restart PROVE DeliveryInv'
<1>1. TypeOK
  BY DEF DeliveryInv
<1>2. /\ exchange' = [e \in Exchanges |->
            IF exchange[e].step \in {"new", "lost", "past"} THEN exchange[e]
            ELSE Without(IF At(e, "over") THEN "past" ELSE "lost")]
      /\ object' = [e \in Exchanges |-> IF object[e] = "open" THEN "closed" ELSE object[e]]
      /\ UNCHANGED <<row, wire, attempts>>
  BY DEF Restart
<1>3. TypeOK'
  <2>1. restarts' \in 0..MaxRestarts
    BY <1>1, RestartsAssumption DEF Restart, TypeOK
  <2>2. capture' \in Captures
    BY DEF Restart, NoCapture, Captures
  <2>3. Without("past") \in Requests /\ Without("lost") \in Requests
    BY WithoutTyped DEF Steps
  <2>4. exchange' \in [Exchanges -> Requests]
    BY <1>1, <1>2, <2>3 DEF TypeOK
  <2>5. object' \in [Exchanges -> {"none", "open", "closed"}]
    BY <1>1, <1>2 DEF TypeOK
  <2> QED
    BY <1>1, <1>2, <2>1, <2>2, <2>4, <2>5 DEF TypeOK
<1>4. ASSUME NEW e \in Exchanges PROVE Sound(e)'
  <2>1. Sound(e)
    BY <1>4 DEF DeliveryInv
  <2>2. object'[e] # "open" /\ (object[e] = "none" => object'[e] = "none")
    BY <1>2, <1>4
  <2>3. row'[e] = row[e] /\ wire'[e] = wire[e] /\ attempts'[e] = attempts[e]
    BY <1>2
  <2>4. CASE exchange[e].step \in {"new", "lost", "past"}
    <3>1. exchange'[e] = exchange[e]
      BY <1>2, <2>4
    <3> QED
      BY <2>1, <2>2, <2>3, <2>4, <3>1 DEF Sound, Agrees, BeforeAnswer, Unanswered, Answered, Streaming,
         Released
  <2>5. CASE exchange[e].step \notin {"new", "lost", "past"}
    <3>1. exchange'[e].step \in {"past", "lost"}
      BY <1>2, <2>5 DEF Without
    <3> QED
      BY <2>1, <2>2, <2>3, <3>1 DEF Sound, Agrees, BeforeAnswer, Unanswered, Answered, Streaming,
         Released
  <2> QED
    BY <2>4, <2>5
<1> QED
  BY <1>3, <1>4 DEF DeliveryInv

LEMMA NextSound == DeliveryInv /\ [Next]_vars => DeliveryInv'
<1> SUFFICES ASSUME DeliveryInv, [Next]_vars PROVE DeliveryInv'
  OBVIOUS
<1>1. CASE Restart
  BY <1>1, RestartSound
<1>2. ASSUME NEW e \in Exchanges, Receive(e) PROVE DeliveryInv'
  BY <1>2, ReceiveSound
<1>3. ASSUME NEW e \in Exchanges, Serve(e) PROVE DeliveryInv'
  BY <1>3, RefuseSound, HandlersSound, OpenStreamSound, ObserveSound, RespondSound, PullSound,
     HandSound, RecordDownloadSound, SaveTransferSound DEF Serve
<1>4. CASE UNCHANGED vars
  BY <1>4 DEF vars, DeliveryInv, TypeOK, Sound, Agrees, BeforeAnswer, Unanswered, Answered, Streaming,
     Released, At
<1> QED
  BY <1>1, <1>2, <1>3, <1>4 DEF Next

LEMMA AlwaysSound == Spec => []DeliveryInv
  BY InitSound, NextSound, PTL DEF Spec

-----------------------------------------------------------------------------
(***************************************************************************)
(* The invariants of the run.                                              *)
(***************************************************************************)

\* Requests, rows, wires and counters keep their types: in particular no more
\* is counted or emitted than the size of the file.
THEOREM DeliveryTypeCorrect == Spec => []TypeOK
  BY AlwaysSound, PTL DEF DeliveryInv

\* The two records of a download agree with what was emitted, and with each other,
\* however many requests are served and whichever writes fail.
THEOREM EvidenceHolds == Spec => []EvidenceAgrees
<1>1. DeliveryInv => EvidenceAgrees
  BY DEF DeliveryInv, Sound, Agrees, EvidenceAgrees
<1> QED
  BY <1>1, AlwaysSound, PTL

\* No stream from the object store outlives its request, but that of a device
\* that left before the first chunk.
THEOREM StreamsAreReleased == Spec => []StreamsReleased
<1>1. DeliveryInv => StreamsReleased
  BY DEF DeliveryInv, Sound, Released, StreamsReleased
<1> QED
  BY <1>1, AlwaysSound, PTL

-----------------------------------------------------------------------------
(***************************************************************************)
(* Gaps.  An exchange that is over without a result is one of Missing, and *)
(* an exchange becomes one of Missing when a failure is counted.           *)
(***************************************************************************)

Active == {"routed", "opened", "answered", "ready", "pulling", "yielded", "recording", "closing"}

\* Without a row no save of e will be written.  Without a result, and with no
\* stream to come, no save of e will be tried.
Missed(e) ==
    \/ exchange[e].step \in Active /\ row[e] = NoRow
    \/ /\ exchange[e].step \in {"answered", "ready"} /\ exchange[e].responded = TRUE
       /\ object[e] # "open" /\ row[e].outcome \notin Concluded
    \/ exchange[e].step = "over" /\ row[e].outcome \notin Concluded

Missing == {e \in Exchanges : Missed(e)}
Arrived == {e \in Exchanges : exchange[e].step \notin {"new", "lost", "past"}}

\* A recorder without an id has no row; who has responded, and when.
Told(e) ==
    /\ exchange[e].step \in Active /\ exchange[e].known = FALSE => row[e] = NoRow
    /\ exchange[e].step \in {"new", "routed", "opened"} => exchange[e].responded = FALSE
    /\ exchange[e].step = "ready" => exchange[e].responded = TRUE

GapsInv ==
    /\ \A e \in Exchanges : Told(e)
    /\ Cardinality(Arrived) <= capture.received + capture.failures
    /\ Cardinality(Missing) <= capture.failures

\* What a step of an exchange under way does to the counts.
Accounted(e) ==
    /\ \A f \in Exchanges \ {e} :
          exchange'[f] = exchange[f] /\ row'[f] = row[f] /\ object'[f] = object[f]
    /\ Told(e)'
    /\ exchange[e].step \in Active /\ exchange'[e].step \in Active \cup {"over", "left"}
    /\ capture'.received = capture.received
    /\ \/ capture'.failures = capture.failures /\ (Missed(e)' => Missed(e))
       \/ capture'.failures = capture.failures + 1

LEMMA CountOf ==
    ASSUME NEW S \in SUBSET Exchanges PROVE IsFiniteSet(S) /\ Cardinality(S) \in Nat
  BY ExchangesAssumption, FS_Subset, FS_CardinalityType

LEMMA CountMore ==
    ASSUME NEW S \in SUBSET Exchanges, NEW T \in SUBSET Exchanges, NEW e, T \subseteq S \cup {e}
    PROVE  Cardinality(T) <= Cardinality(S) + 1
<1>1. IsFiniteSet(S) /\ Cardinality(S) \in Nat /\ Cardinality(T) \in Nat
  BY CountOf
<1>2. IsFiniteSet(S \cup {e}) /\ Cardinality(S \cup {e}) \in {Cardinality(S), Cardinality(S) + 1}
  BY <1>1, FS_AddElement
<1>3. Cardinality(T) <= Cardinality(S \cup {e})
  BY <1>2, FS_Subset
<1> QED
  BY <1>1, <1>2, <1>3

LEMMA CountLess ==
    ASSUME NEW S \in SUBSET Exchanges, NEW T \in SUBSET S
    PROVE  Cardinality(T) <= Cardinality(S)
  BY CountOf, FS_Subset

LEMMA CapturesNat ==
    ASSUME TypeOK PROVE capture.received \in Nat /\ capture.failures \in Nat
  BY DEF TypeOK, Captures

LEMMA AccountedGaps ==
    ASSUME DeliveryInv, GapsInv, TypeOK', NEW e \in Exchanges, Accounted(e) PROVE GapsInv'
<1>1. /\ capture.received \in Nat /\ capture.failures \in Nat
      /\ capture'.received \in Nat /\ capture'.failures \in Nat
  BY CapturesNat DEF DeliveryInv, TypeOK, Captures
<1>2. ASSUME NEW f \in Exchanges, f # e PROVE Told(f)' /\ (Missed(f)' <=> Missed(f))
  <2>1. exchange'[f] = exchange[f] /\ row'[f] = row[f] /\ object'[f] = object[f]
    BY <1>2 DEF Accounted
  <2>2. Told(f)
    BY DEF GapsInv
  <2> QED
    BY <2>1, <2>2 DEF Told, Missed
<1>3. Arrived' = Arrived
  BY DEF Accounted, Arrived, Active
<1>4. Missing' \subseteq Missing \cup {e} /\ ((Missed(e)' => Missed(e)) => Missing' \subseteq Missing)
  BY <1>2 DEF Missing
<1>5. /\ Missing \in SUBSET Exchanges /\ Missing' \in SUBSET Exchanges
      /\ Arrived \in SUBSET Exchanges
  BY DEF Missing, Arrived
<1>6. Cardinality(Missing) \in Nat /\ Cardinality(Missing') \in Nat /\ Cardinality(Arrived) \in Nat
  BY <1>5, CountOf
<1>7. \A g \in Exchanges : Told(g)'
  BY <1>2 DEF Accounted
<1>8. Cardinality(Missing') <= capture'.failures
  <2>1. CASE capture'.failures = capture.failures /\ (Missed(e)' => Missed(e))
    <3>1. Cardinality(Missing') <= Cardinality(Missing)
      BY <1>4, <1>5, <2>1, CountLess
    <3> QED
      BY <1>1, <1>6, <2>1, <3>1 DEF GapsInv
  <2>2. CASE capture'.failures = capture.failures + 1
    <3>1. Cardinality(Missing') <= Cardinality(Missing) + 1
      BY <1>4, <1>5, CountMore
    <3> QED
      BY <1>1, <1>6, <2>2, <3>1 DEF GapsInv
  <2> QED
    BY <2>1, <2>2 DEF Accounted
<1>9. Cardinality(Arrived') <= capture'.received + capture'.failures
  BY <1>1, <1>3, <1>6 DEF GapsInv, Accounted
<1> QED
  BY <1>7, <1>8, <1>9 DEF GapsInv

\* A save is counted if it is not written, unless it cannot be.
LEMMA SaveCounts ==
    ASSUME TypeOK, NEW e \in Exchanges, NEW outcome, NEW status, NEW sent,
           Save(e, outcome, status, sent)
    PROVE  /\ capture'.received = capture.received
           /\ \/ /\ capture'.failures = capture.failures
                 /\ \/ /\ row'[e] = row[e]
                       /\ exchange[e].known = FALSE \/ row[e] = NoRow
                    \/ exchange[e].known = TRUE /\ row[e] # NoRow /\ row'[e].outcome = outcome
              \/ capture'.failures = capture.failures + 1 /\ exchange[e].known = TRUE
<1> DEFINE new == [outcome |-> outcome, status |-> status, sent |-> sent]
<1>1. new.outcome = outcome
  OBVIOUS
<1>2. exchange[e].known \in BOOLEAN
  BY DEF TypeOK, Requests
<1>3. Failed.received = capture.received /\ Failed.failures = capture.failures + 1
  BY DEF TypeOK, Captures, Failed
<1>4. CASE (~exchange[e].known \/ row[e] = NoRow) /\ UNCHANGED <<row, capture>>
  BY <1>2, <1>4
<1>5. CASE exchange[e].known /\ row[e] # NoRow /\ row' = [row EXCEPT ![e] = new] /\ UNCHANGED capture
  <2>1. row'[e] = new
    BY <1>5 DEF TypeOK
  <2> HIDE DEF new
  <2> QED
    BY <1>1, <1>2, <1>5, <2>1
<1>6. CASE exchange[e].known /\ capture' = Failed
  BY <1>2, <1>3, <1>6
<1> HIDE DEF new
<1> QED
  BY <1>4, <1>5, <1>6 DEF Save, new

\* The answer of a handler, with a result or with the stream to come.
LEMMA AnswerAccounted ==
    ASSUME DeliveryInv, GapsInv, NEW e \in Exchanges, exchange[e].step \in {"routed", "opened"},
           NEW status \in Statuses, NEW outcome, Responded(e, status), Save(e, outcome, status, 0),
           NEW stream, object' = [object EXCEPT ![e] = stream],
           outcome # "none", outcome \in Concluded \/ stream = "open"
    PROVE  Accounted(e)
<1>1. TypeOK /\ Told(e)
  BY DEF DeliveryInv, GapsInv
<1>2. /\ OthersStay(e) /\ exchange'[e].step = "answered" /\ exchange'[e].responded = TRUE
      /\ exchange'[e].known = exchange[e].known
  BY <1>1, RespondedEffect
<1>3. (\A f \in Exchanges \ {e} : row'[f] = row[f]) /\ object'[e] = stream
  BY <1>1, SaveEffect DEF TypeOK
<1>4. \A f \in Exchanges \ {e} :
          exchange'[f] = exchange[f] /\ row'[f] = row[f] /\ object'[f] = object[f]
  BY <1>1, <1>2, <1>3 DEF OthersStay, TypeOK
<1>5. /\ capture'.received = capture.received
      /\ \/ /\ capture'.failures = capture.failures
            /\ \/ row'[e] = row[e] /\ (exchange[e].known = FALSE \/ row[e] = NoRow)
               \/ exchange[e].known = TRUE /\ row'[e].outcome = outcome
         \/ capture'.failures = capture.failures + 1 /\ exchange[e].known = TRUE
  BY <1>1, SaveCounts
<1>6. exchange[e].step \in Active /\ "answered" \in Active /\ NoRow.outcome = "none"
  BY DEF Active, NoRow
<1>7. Told(e)'
  BY <1>1, <1>2, <1>5, <1>6 DEF Told
<1>8. capture'.failures = capture.failures => (Missed(e)' => Missed(e))
  BY <1>1, <1>2, <1>3, <1>5, <1>6, CapturesNat DEF Told, Missed
<1> QED
  BY <1>2, <1>4, <1>5, <1>6, <1>7, <1>8 DEF Accounted

LEMMA HandlersAccounted ==
    ASSUME DeliveryInv, GapsInv, NEW e \in Exchanges, Answer(e) \/ Prepare(e) \/ GiveUp(e)
    PROVE  Accounted(e)
<1>1. TypeOK /\ exchange[e].step \in {"routed", "opened"}
  BY DEF DeliveryInv, Answer, Prepare, GiveUp, At
<1>2. PICK status \in Statuses, outcome \in Outcomes, stream \in {"none", "open", "closed"} :
          /\ Responded(e, status) /\ Save(e, outcome, status, 0)
          /\ object' = [object EXCEPT ![e] = stream]
          /\ outcome # "none" /\ (outcome \in Concluded \/ stream = "open")
  <2>1. {200, 500, 503} \subseteq Statuses /\ Answers \subseteq Statuses
    BY DEF Statuses
  <2>2. /\ {"server_error", "streaming"} \subseteq Outcomes /\ "server_error" \in Concluded
        /\ \A status : OutcomeOf(status) \in Outcomes /\ OutcomeOf(status) \in Concluded
        /\ "none" \notin Concluded
    BY DEF OutcomeOf, Outcomes, Concluded
  <2>3. object \in [Exchanges -> {"none", "open", "closed"}]
    BY <1>1 DEF TypeOK
  <2>4. CASE Answer(e)
    <3>1. object' = [object EXCEPT ![e] = object[e]]
      BY <2>3, <2>4 DEF Answer
    <3>2. PICK status \in Statuses, outcome \in Concluded :
              Responded(e, status) /\ Save(e, outcome, status, 0)
      BY <2>1, <2>2, <2>4 DEF Answer, WriteAnswer, Fail
    <3> QED
      BY <2>2, <2>3, <3>1, <3>2 DEF Concluded
  <2>5. CASE Prepare(e)
    <3>1. object[e] = "open"
      BY <2>5 DEF DeliveryInv, Sound, Unanswered, Prepare, At
    <3>2. object' = [object EXCEPT ![e] = "open"]
      BY <2>3, <2>5, <3>1 DEF Prepare
    <3> QED
      BY <2>1, <2>2, <2>5, <3>2 DEF Prepare, WriteAnswer
  <2>6. CASE GiveUp(e)
    BY <2>1, <2>2, <2>6 DEF GiveUp, WriteAnswer, Fail
  <2> QED
    BY <2>4, <2>5, <2>6
<1> QED
  BY <1>1, <1>2, AnswerAccounted

LEMMA ObserveAccounted ==
    ASSUME DeliveryInv, GapsInv, NEW e \in Exchanges, Observe(e) PROVE Accounted(e)
<1>1. TypeOK /\ Told(e) /\ Sound(e) /\ exchange[e].step = "answered"
  BY DEF DeliveryInv, GapsInv, Observe, At
<1>2. /\ \A f \in Exchanges \ {e} : exchange'[f] = exchange[f]
      /\ exchange'[e].step = "ready" /\ exchange'[e].responded = TRUE
      /\ exchange'[e].known = exchange[e].known /\ object' = object
  <2>1. exchange[e] \in Requests
    BY <1>1 DEF TypeOK
  <2>2. exchange' = [exchange EXCEPT ![e] = [exchange[e] EXCEPT !.step = "ready", !.responded = TRUE]]
    BY DEF Observe
  <2>3. object' = object
    BY DEF Observe
  <2> QED
    BY <1>1, <2>1, <2>2, <2>3 DEF TypeOK, Requests
<1>3. exchange[e].step \in Active /\ "ready" \in Active /\ NoRow.outcome = "none"
  BY <1>1 DEF Active, NoRow
<1>4. CASE exchange[e].responded /\ UNCHANGED <<row, capture>>
  <2>1. exchange[e].responded = TRUE
    BY <1>1, <1>4 DEF TypeOK, Requests
  <2>2. Told(e)' /\ (Missed(e)' => Missed(e))
    BY <1>1, <1>2, <1>3, <1>4, <2>1 DEF Told, Missed
  <2> QED
    BY <1>2, <1>3, <1>4, <2>2 DEF Accounted
<1>5. CASE ~exchange[e].responded
  <2>1. exchange[e].responded = FALSE
    BY <1>1, <1>5 DEF TypeOK, Requests
  <2>2. PICK outcome \in {"server_error", "request_rejected"}, status \in Statuses \cup {0} :
            Save(e, outcome, status, 0)
    BY <1>1, <1>5 DEF Observe, TypeOK, Requests, Statuses
  <2>3. outcome \in Concluded /\ outcome # "none"
    BY <2>2 DEF Concluded, Outcomes
  <2>4. \A f \in Exchanges \ {e} : row'[f] = row[f]
    BY <1>1, <2>2, SaveEffect
  <2>5. /\ capture'.received = capture.received
        /\ \/ /\ capture'.failures = capture.failures
              /\ \/ row'[e] = row[e] /\ (exchange[e].known = FALSE \/ row[e] = NoRow)
                 \/ exchange[e].known = TRUE /\ row'[e].outcome = outcome
           \/ capture'.failures = capture.failures + 1 /\ exchange[e].known = TRUE
    BY <1>1, <2>2, SaveCounts
  <2>6. Told(e)'
    BY <1>1, <1>2, <1>3, <2>5 DEF Told
  <2>7. capture'.failures = capture.failures => (Missed(e)' => Missed(e))
    BY <1>1, <1>2, <1>3, <2>3, <2>5, CapturesNat DEF Told, Missed
  <2> QED
    BY <1>2, <1>3, <2>4, <2>5, <2>6, <2>7 DEF Accounted
<1> QED
  BY <1>4, <1>5 DEF Observe

LEMMA SaveTransferAccounted ==
    ASSUME DeliveryInv, GapsInv, NEW e \in Exchanges, SaveTransfer(e) PROVE Accounted(e)
<1>1. TypeOK /\ Told(e) /\ exchange[e].step = "closing"
  BY DEF DeliveryInv, GapsInv, SaveTransfer, At
<1>2. OthersStay(e) /\ exchange'[e].step = "over" /\ object' = object
  <2>1. End(e, "over") /\ "over" \in Steps /\ object' = object
    BY DEF SaveTransfer, Steps
  <2> QED
    BY <1>1, <2>1, EndEffect
<1>3. PICK outcome \in {"download_served", "transfer_incomplete"} :
          Save(e, outcome, row[e].status, exchange[e].sent)
  BY DEF SaveTransfer, Transfer
<1>4. outcome \in Concluded
  BY <1>3 DEF Concluded, Outcomes
<1>5. \A f \in Exchanges \ {e} : row'[f] = row[f]
  BY <1>1, <1>3, SaveEffect
<1>6. /\ capture'.received = capture.received
      /\ \/ /\ capture'.failures = capture.failures
            /\ \/ row'[e] = row[e] /\ (exchange[e].known = FALSE \/ row[e] = NoRow)
               \/ exchange[e].known = TRUE /\ row'[e].outcome = outcome
         \/ capture'.failures = capture.failures + 1 /\ exchange[e].known = TRUE
  BY <1>1, <1>3, SaveCounts
<1>7. exchange[e].step \in Active /\ "over" \notin Active
  BY <1>1 DEF Active
<1>8. Told(e)'
  BY <1>2, <1>7 DEF Told
<1>9. capture'.failures = capture.failures => (Missed(e)' => Missed(e))
  BY <1>1, <1>2, <1>4, <1>6, <1>7, CapturesNat DEF Told, Missed
<1> QED
  BY <1>2, <1>5, <1>6, <1>7, <1>8, <1>9 DEF Accounted, OthersStay

LEMMA ReplyAccounted ==
    ASSUME DeliveryInv, GapsInv, NEW e \in Exchanges, Reply(e) \/ LeaveEarly(e) PROVE Accounted(e)
<1>1. TypeOK /\ Told(e) /\ Sound(e) /\ exchange[e].step = "ready" /\ UNCHANGED <<row, object, capture>>
  BY DEF DeliveryInv, GapsInv, Reply, LeaveEarly, At
<1>2. exchange[e].step \in Active /\ "over" \notin Active /\ "left" \notin Active
  BY <1>1 DEF Active
<1>3. CASE Reply(e)
  <2>1. OthersStay(e) /\ exchange'[e].step = "over"
    <3>1. End(e, "over") /\ "over" \in Steps
      BY <1>3 DEF Reply, Steps
    <3> QED
      BY <1>1, <3>1, EndEffect
  <2>2. object[e] # "open"
    BY <1>1, <1>3 DEF Reply, Streamed, Sound, Answered
  <2>3. Told(e)' /\ (Missed(e)' => Missed(e))
    BY <1>1, <1>2, <2>1, <2>2 DEF Told, Missed
  <2> QED
    BY <1>1, <1>2, <2>1, <2>3 DEF Accounted, OthersStay
<1>4. CASE LeaveEarly(e)
  <2>1. OthersStay(e) /\ exchange'[e].step = "left"
    <3>1. End(e, "left") /\ "left" \in Steps
      BY <1>4 DEF LeaveEarly, Steps
    <3> QED
      BY <1>1, <3>1, EndEffect
  <2>2. Told(e)' /\ ~Missed(e)'
    BY <1>2, <2>1 DEF Told, Missed
  <2> QED
    BY <1>1, <1>2, <2>1, <2>2 DEF Accounted, OthersStay
<1> QED
  BY <1>3, <1>4

\* Steps that neither answer nor save.
LEMMA CarryOn ==
    ASSUME DeliveryInv, GapsInv, NEW e \in Exchanges,
           exchange[e].step \in Active \ {"answered"}, exchange'[e].step \in Active \ {"ready"},
           exchange'[e].step \in {"opened", "answered"} => exchange[e].step = "routed",
           exchange'[e].step # "routed",
           exchange'[e].known = exchange[e].known, exchange'[e].responded = exchange[e].responded,
           UNCHANGED <<row, capture>>,
           \A f \in Exchanges \ {e} : exchange'[f] = exchange[f] /\ object'[f] = object[f]
    PROVE  Accounted(e)
<1>1. Told(e)
  BY DEF GapsInv
<1>2. Told(e)' /\ (Missed(e)' => Missed(e))
  BY <1>1 DEF Told, Missed, Active
<1> QED
  BY <1>2 DEF Accounted

LEMMA StreamAccounted ==
    ASSUME DeliveryInv, GapsInv, NEW e \in Exchanges,
           \/ Refuse(e) \/ OpenStream(e) \/ Begin(e) \/ Chunk(e) \/ Break(e) \/ Exhaust(e)
           \/ Hand(e) \/ ClientGone(e) \/ RecordDownload(e)
    PROVE  Accounted(e)
<1>1. TypeOK /\ exchange[e] \in Requests
  BY DEF DeliveryInv, TypeOK
<1>2. /\ UNCHANGED <<row, capture>>
      /\ \A f \in Exchanges \ {e} : object'[f] = object[f]
  BY <1>1 DEF Refuse, OpenStream, Begin, Chunk, Break, Exhaust, Hand, ClientGone, RecordDownload, TypeOK
<1>3. /\ OthersStay(e)
      /\ exchange'[e].known = exchange[e].known
      /\ exchange'[e].responded = exchange[e].responded
      /\ \/ exchange[e].step = "routed" /\ exchange'[e].step \in {"answered", "opened"}
         \/ /\ exchange[e].step \in {"ready", "pulling", "yielded", "recording"}
            /\ exchange'[e].step \in {"pulling", "yielded", "recording", "closing"}
  <2>1. CASE Refuse(e)
    <3>1. PICK status : exchange' = [exchange EXCEPT ![e] = [exchange[e] EXCEPT
                            !.step = "answered", !.status = status]]
      BY <2>1 DEF Refuse
    <3> QED
      BY <1>1, <2>1, <3>1 DEF Refuse, At, OthersStay, TypeOK, Requests
  <2>2. CASE Chunk(e)
    <3>1. exchange' = [exchange EXCEPT ![e] = [exchange[e] EXCEPT
                            !.step = "yielded", !.sent = exchange[e].sent + 1]]
      BY <2>2 DEF Chunk
    <3> QED
      BY <1>1, <2>2, <3>1 DEF Chunk, At, OthersStay, TypeOK, Requests
  <2>3. CASE RecordDownload(e)
    <3>1. exchange' = [exchange EXCEPT ![e] = [exchange[e] EXCEPT
                            !.step = "closing", !.completed = TRUE]]
      BY <2>3 DEF RecordDownload
    <3> QED
      BY <1>1, <2>3, <3>1 DEF RecordDownload, At, OthersStay, TypeOK, Requests
  <2>4. CASE OpenStream(e)
    <3>1. Go(e, "opened") /\ "opened" \in Steps /\ exchange[e].step = "routed"
      BY <2>4 DEF OpenStream, At, Steps
    <3> QED
      BY <1>1, <3>1, GoEffect
  <2>5. CASE Begin(e) \/ Break(e) \/ Exhaust(e) \/ Hand(e) \/ ClientGone(e)
    <3>1. PICK step \in {"pulling", "recording", "closing"} : Go(e, step)
      BY <2>5 DEF Begin, Break, Exhaust, Hand, ClientGone
    <3>2. step \in Steps /\ exchange[e].step \in {"ready", "pulling", "yielded"}
      BY <2>5 DEF Begin, Break, Exhaust, Hand, ClientGone, At, Steps
    <3> QED
      BY <1>1, <3>1, <3>2, GoEffect
  <2> QED
    BY <2>1, <2>2, <2>3, <2>4, <2>5
<1> QED
  BY <1>2, <1>3, CarryOn DEF Active, OthersStay

\* A request that arrives is counted, as a failure if it has no row.
LEMMA ReceiveGaps ==
    ASSUME DeliveryInv, GapsInv, TypeOK', NEW e \in Exchanges, Receive(e) PROVE GapsInv'
<1>1. TypeOK /\ Sound(e) /\ Told(e) /\ exchange[e].step = "new"
  BY DEF DeliveryInv, GapsInv, Receive, At
<1>2. PICK known \in BOOLEAN, stored \in BOOLEAN :
          /\ stored => known
          /\ exchange' = [exchange EXCEPT ![e] = [exchange[e] EXCEPT !.step = "routed", !.known = known]]
          /\ row' = IF stored THEN [row EXCEPT ![e] = Receipt] ELSE row
          /\ (stored /\ capture' = [capture EXCEPT !.received = @ + 1]) \/ capture' = Failed
  BY DEF Receive
<1>3. /\ OthersStay(e) /\ exchange'[e].step = "routed" /\ exchange'[e].known = known
      /\ exchange'[e].responded = exchange[e].responded
  BY <1>1, <1>2 DEF TypeOK, Requests, OthersStay
<1>4. row[e] = NoRow /\ Receipt # NoRow /\ object' = object
  BY <1>1 DEF Sound, Unanswered, Receive, Receipt, NoRow
<1>5. /\ \A f \in Exchanges \ {e} : row'[f] = row[f]
      /\ row'[e] = IF stored THEN Receipt ELSE NoRow
  BY <1>1, <1>2, <1>4 DEF TypeOK
<1>6. ASSUME NEW f \in Exchanges, f # e PROVE Told(f)' /\ (Missed(f)' <=> Missed(f))
  <2>1. exchange'[f] = exchange[f] /\ row'[f] = row[f] /\ object'[f] = object[f]
    BY <1>3, <1>4, <1>5, <1>6 DEF OthersStay
  <2>2. Told(f)
    BY DEF GapsInv
  <2> QED
    BY <2>1, <2>2 DEF Told, Missed
<1>7. Told(e)' /\ (Missed(e)' => ~stored)
  BY <1>1, <1>2, <1>3, <1>4, <1>5 DEF Told, Missed
<1>8. \A g \in Exchanges : Told(g)'
  BY <1>6, <1>7
<1>9. Missing' \subseteq Missing \cup {e} /\ (stored => Missing' \subseteq Missing)
  BY <1>6, <1>7 DEF Missing
<1>10. Arrived' \subseteq Arrived \cup {e}
  BY <1>3 DEF Arrived, OthersStay
<1>11. /\ Missing \in SUBSET Exchanges /\ Missing' \in SUBSET Exchanges
       /\ Arrived \in SUBSET Exchanges /\ Arrived' \in SUBSET Exchanges
  BY DEF Missing, Arrived
<1>12. /\ Cardinality(Missing) \in Nat /\ Cardinality(Missing') \in Nat
       /\ Cardinality(Arrived) \in Nat /\ Cardinality(Arrived') \in Nat
  BY <1>11, CountOf
<1>13. Cardinality(Arrived') <= Cardinality(Arrived) + 1
  BY <1>10, <1>11, CountMore
<1>14. /\ Cardinality(Missing') <= Cardinality(Missing) + 1
       /\ stored => Cardinality(Missing') <= Cardinality(Missing)
  BY <1>9, <1>11, CountMore, CountLess
<1>15. capture.received \in Nat /\ capture.failures \in Nat
  BY <1>1, CapturesNat
<1>16. \/ /\ stored
          /\ capture'.received = capture.received + 1 /\ capture'.failures = capture.failures
       \/ capture'.received = capture.received /\ capture'.failures = capture.failures + 1
  BY <1>1, <1>2 DEF TypeOK, Captures, Failed
<1>17. Cardinality(Arrived) <= capture.received + capture.failures
       /\ Cardinality(Missing) <= capture.failures
  BY DEF GapsInv
<1>18. Cardinality(Arrived') <= capture'.received + capture'.failures
  BY <1>12, <1>13, <1>15, <1>16, <1>17
<1>19. Cardinality(Missing') <= capture'.failures
  BY <1>12, <1>14, <1>15, <1>16, <1>17
<1> QED
  BY <1>8, <1>18, <1>19 DEF GapsInv

LEMMA NothingCounted ==
    ASSUME \A e \in Exchanges : exchange[e].step \in {"new", "lost", "past"}
    PROVE  Cardinality(Missing) = 0 /\ Cardinality(Arrived) = 0
<1>1. Missing = {} /\ Arrived = {}
  BY DEF Missing, Missed, Active, Arrived
<1> QED
  BY <1>1, FS_EmptySet

LEMMA InitGaps == Init => GapsInv
<1> SUFFICES ASSUME Init PROVE GapsInv
  OBVIOUS
<1>1. /\ \A e \in Exchanges : exchange[e].step = "new" /\ exchange[e].responded = FALSE
      /\ capture.received = 0 /\ capture.failures = 0
  BY DEF Init, Without, NoCapture
<1>2. Cardinality(Missing) = 0 /\ Cardinality(Arrived) = 0
  BY <1>1, NothingCounted
<1> QED
  BY <1>1, <1>2 DEF GapsInv, Told, Active

LEMMA RestartGaps ==
    ASSUME DeliveryInv, GapsInv, Restart PROVE GapsInv'
<1>1. \A e \in Exchanges : /\ exchange'[e].step \in {"new", "lost", "past"}
                           /\ exchange'[e].step = "new" => exchange'[e] = exchange[e]
  BY DEF Restart, Without
<1>2. Missing' = {} /\ Arrived' = {}
  BY <1>1 DEF Missing, Missed, Active, Arrived
<1>3. Cardinality(Missing') = 0 /\ Cardinality(Arrived') = 0
  BY <1>2, FS_EmptySet
<1>4. capture'.received = 0 /\ capture'.failures = 0
  BY DEF Restart, NoCapture
<1>5. \A e \in Exchanges : Told(e)'
  BY <1>1 DEF GapsInv, Told, Active
<1> QED
  BY <1>3, <1>4, <1>5 DEF GapsInv

LEMMA NextGaps == DeliveryInv /\ GapsInv /\ [Next]_vars /\ TypeOK' => GapsInv'
<1> SUFFICES ASSUME DeliveryInv, GapsInv, [Next]_vars, TypeOK' PROVE GapsInv'
  OBVIOUS
<1>1. CASE Restart
  BY <1>1, RestartGaps
<1>2. ASSUME NEW e \in Exchanges, Receive(e) PROVE GapsInv'
  BY <1>2, ReceiveGaps
<1>3. ASSUME NEW e \in Exchanges, Serve(e) PROVE GapsInv'
  <2>1. Accounted(e)
    BY <1>3, HandlersAccounted, ObserveAccounted, SaveTransferAccounted, ReplyAccounted,
       StreamAccounted DEF Serve
  <2> QED
    BY <2>1, AccountedGaps
<1>4. CASE UNCHANGED vars
  BY <1>4 DEF vars, GapsInv, Told, Missing, Missed, Arrived
<1> QED
  BY <1>1, <1>2, <1>3, <1>4 DEF Next

\* Every request of this process has been counted, and no request comes to its
\* end without a result that was not counted as a failure, whichever receipts
\* and saves fail and however often the process restarts.
THEOREM GapsHold == Spec => []GapsAreCounted
<1>1. DeliveryInv /\ [Next]_vars => TypeOK'
  BY NextSound DEF DeliveryInv
<1>2. DeliveryInv /\ GapsInv => GapsAreCounted
  <2> SUFFICES ASSUME DeliveryInv, GapsInv PROVE GapsAreCounted
    OBVIOUS
  <2> DEFINE Untold == {e \in Exchanges : At(e, "over") /\ row[e].outcome \notin Concluded}
  <2>1. Untold \in SUBSET Missing /\ Missing \in SUBSET Exchanges
    BY DEF Missing, Missed, At
  <2>2. Cardinality(Untold) <= Cardinality(Missing)
    BY <2>1, CountLess
  <2>3. Cardinality(Untold) \in Nat /\ Cardinality(Missing) \in Nat /\ capture.failures \in Nat
    BY <2>1, CountOf, CapturesNat DEF DeliveryInv
  <2>4. Cardinality(Untold) <= capture.failures
    BY <2>2, <2>3 DEF GapsInv
  <2> HIDE DEF Untold
  <2>5. Cardinality(Arrived) <= capture.received + capture.failures
    BY DEF GapsInv
  <2> QED
    BY <2>4, <2>5 DEF GapsAreCounted, Untold, Arrived
<1>3. Spec => []GapsInv
  BY InitGaps, NextGaps, AlwaysSound, <1>1, PTL DEF Spec
<1> QED
  BY <1>2, <1>3, AlwaysSound, PTL

-----------------------------------------------------------------------------
(***************************************************************************)
(* The refinement: every step is one of the ledger, or none.               *)
(***************************************************************************)

record == [e \in Exchanges |-> row[e].outcome]

LEMMA InitImplements == Init => Ledger!Init
  BY DEF Init, NoRow, Ledger!Init

LEMMA EnterRow ==
    ASSUME TypeOK, NEW e \in Exchanges, NEW outcome,
           \A f \in Exchanges \ {e} : row'[f] = row[f], row' \in [Exchanges -> Rows],
           row'[e].outcome = outcome, wire' = wire
    PROVE  Ledger!Enter(e, outcome)
  BY DEF TypeOK, Ledger!Enter

\* A write that fails, or is not tried, leaves the ledger as it is.
LEMMA SaveEnters ==
    ASSUME TypeOK, NEW e \in Exchanges, NEW outcome \in Outcomes, NEW status \in Statuses \cup {0},
           NEW sent \in 0..Size, Save(e, outcome, status, sent), wire' = wire
    PROVE  UNCHANGED Ledger!vars \/ (row[e] # NoRow /\ Ledger!Enter(e, outcome))
<1>1. row' \in [Exchanges -> Rows]
  BY SaveTyped
<1>2. /\ \A f \in Exchanges \ {e} : row'[f] = row[f]
      /\ row'[e] = row[e] \/ (row[e] # NoRow /\ row'[e].outcome = outcome)
  BY SaveEffect
<1>3. CASE row'[e] = row[e]
  BY <1>2, <1>3 DEF Ledger!vars
<1>4. CASE row[e] # NoRow /\ row'[e].outcome = outcome
  BY <1>1, <1>2, <1>4, EnterRow
<1> QED
  BY <1>2, <1>3, <1>4

LEMMA ReceiveImplements ==
    ASSUME DeliveryInv, NEW e \in Exchanges, Receive(e)
    PROVE  Ledger!Receive(e) \/ UNCHANGED Ledger!vars
<1>1. TypeOK /\ Sound(e) /\ exchange[e].step = "new"
  BY DEF DeliveryInv, Receive, At
<1>2. row[e] = NoRow /\ wire[e].status = 0
  BY <1>1 DEF Sound, BeforeAnswer, Unanswered
<1>3. row' = row \/ row' = [row EXCEPT ![e] = Receipt]
  BY DEF Receive
<1>4. wire' = wire
  BY DEF Receive
<1>5. CASE row' = row
  BY <1>4, <1>5 DEF Ledger!vars
<1>6. CASE row' = [row EXCEPT ![e] = Receipt]
  <2>1. Receipt \in Rows /\ Receipt.outcome = "received"
    BY StatusesTyped DEF Receipt, NoRow, Rows, Outcomes
  <2>2. Ledger!Enter(e, "received")
    <3>1. /\ \A f \in Exchanges \ {e} : row'[f] = row[f]
          /\ row' \in [Exchanges -> Rows] /\ row'[e].outcome = "received"
      BY <1>1, <1>6, <2>1 DEF TypeOK
    <3> QED
      BY <1>1, <1>4, <3>1, EnterRow
  <2> QED
    BY <1>2, <2>2 DEF Ledger!Receive, NoRow
<1> QED
  BY <1>3, <1>5, <1>6

\* A write made before the answer is given.
LEMMA ConcludeImplements ==
    ASSUME DeliveryInv, NEW e \in Exchanges, exchange[e].step \in {"routed", "opened", "answered"},
           row[e].outcome \in {"none", "received"},
           NEW outcome \in Ledger!Replies \cup {"streaming"}, NEW status \in Statuses,
           Save(e, outcome, status, 0), wire' = wire
    PROVE  Ledger!Conclude(e) \/ UNCHANGED Ledger!vars
<1>1. TypeOK /\ Sound(e)
  BY DEF DeliveryInv
<1>2. outcome \in Outcomes /\ status \in Statuses \cup {0} /\ 0 \in 0..Size
  BY StatusesTyped DEF Ledger!Replies, Outcomes
<1>3. UNCHANGED Ledger!vars \/ (row[e] # NoRow /\ Ledger!Enter(e, outcome))
  BY <1>1, <1>2, SaveEnters
<1>4. wire[e].status = 0 /\ (row[e].outcome = "none" => row[e] = NoRow)
  BY <1>1 DEF Sound, BeforeAnswer
<1> QED
  BY <1>3, <1>4 DEF Ledger!Conclude

LEMMA HandlersImplement ==
    ASSUME DeliveryInv, NEW e \in Exchanges, Answer(e) \/ Prepare(e) \/ GiveUp(e)
    PROVE  Ledger!Conclude(e) \/ UNCHANGED Ledger!vars
<1>1. exchange[e].step \in {"routed", "opened"} /\ wire' = wire
  BY DEF Answer, Prepare, GiveUp, At
<1>2. row[e].outcome \in {"none", "received"}
  BY <1>1 DEF DeliveryInv, Sound, Unanswered
<1>3. PICK outcome \in Ledger!Replies \cup {"streaming"}, status \in Statuses :
          Save(e, outcome, status, 0)
  BY OutcomeMeans, ErrorMeans, StatusesTyped DEF Answer, Prepare, GiveUp, WriteAnswer, Fail, Statuses
<1> QED
  BY <1>1, <1>2, <1>3, ConcludeImplements

LEMMA ObserveImplements ==
    ASSUME DeliveryInv, NEW e \in Exchanges, Observe(e)
    PROVE  Ledger!Conclude(e) \/ UNCHANGED Ledger!vars
<1>1. exchange[e].step = "answered" /\ wire' = wire
  BY DEF Observe, At
<1>2. CASE UNCHANGED <<row, capture>>
  BY <1>1, <1>2 DEF Ledger!vars
<1>3. CASE ~exchange[e].responded
  <2>1. exchange[e].status \in Refusals /\ row[e].outcome \in {"none", "received"}
    BY <1>1, <1>3 DEF DeliveryInv, TypeOK, Requests, Sound, Answered
  <2>2. exchange[e].status \in Statuses /\ 500 \in Statuses
    BY <2>1 DEF Statuses
  <2>3. "server_error" \in Ledger!Replies /\ "request_rejected" \in Ledger!Replies
    BY DEF Ledger!Replies
  <2>4. PICK outcome \in Ledger!Replies \cup {"streaming"}, status \in Statuses :
            Save(e, outcome, status, 0)
    BY <1>3, <2>2, <2>3 DEF Observe
  <2> QED
    BY <1>1, <2>1, <2>4, ConcludeImplements
<1> QED
  BY <1>2, <1>3 DEF Observe

LEMMA RespondImplements ==
    ASSUME DeliveryInv, NEW e \in Exchanges, Reply(e) \/ Begin(e) \/ LeaveEarly(e)
    PROVE  Ledger!Respond(e) \/ UNCHANGED Ledger!vars
<1>1. TypeOK /\ Sound(e) /\ exchange[e].step = "ready"
  BY DEF DeliveryInv, Reply, Begin, LeaveEarly, At
<1>2. row' = row /\ wire[e].status = 0
  BY <1>1 DEF Reply, Begin, LeaveEarly, Sound, BeforeAnswer
<1>3. PICK status \in {0, exchange[e].status} : wire' = [wire EXCEPT ![e].status = status]
  <2>1. CASE Reply(e)
    BY <2>1 DEF Reply
  <2>2. CASE Begin(e)
    BY <2>2 DEF Begin, Streamed
  <2>3. CASE LeaveEarly(e)
    BY <2>3 DEF LeaveEarly, Streamed
  <2> QED
    BY <2>1, <2>2, <2>3
<1>4. CASE status = 0
  <2>1. wire' = wire
    BY <1>1, <1>2, <1>3, <1>4 DEF TypeOK, Wires
  <2> QED
    BY <1>2, <2>1 DEF Ledger!vars
<1>5. CASE status = exchange[e].status /\ status # 0
  <2>1. status \in Ledger!StatusesOf(row[e].outcome)
    <3>1. status \in {200, 401, 403, 404, 405, 422, 429, 500, 503}
      BY <1>1, <1>5, StatusesAssumption DEF TypeOK, Requests, Statuses
    <3>2. CASE row[e].outcome \in {"none", "received"}
      BY <3>1, <3>2 DEF Ledger!StatusesOf, Ledger!Transfers
    <3>3. CASE row[e].outcome \notin {"none", "received"}
      <4>1. CASE object[e] = "open"
        BY <1>1, <1>5, <3>3, <4>1 DEF Sound, Answered, Unfinished, Ledger!StatusesOf
      <4>2. CASE object[e] # "open"
        BY <1>1, <1>5, <3>3, <4>2 DEF Sound, Answered
      <4> QED
        BY <4>1, <4>2
    <3> QED
      BY <3>2, <3>3
  <2> QED
    BY <1>2, <1>3, <1>5, <2>1 DEF Ledger!Respond
<1> QED
  BY <1>4, <1>5

LEMMA HandImplements ==
    ASSUME DeliveryInv, NEW e \in Exchanges, Hand(e) \/ ClientGone(e)
    PROVE  Ledger!Emit(e) \/ UNCHANGED Ledger!vars
<1>1. TypeOK /\ Sound(e) /\ exchange[e].step = "yielded"
  BY DEF DeliveryInv, Hand, ClientGone, At
<1>2. /\ wire[e].status = 200 /\ row[e].outcome \in Unfinished
      /\ wire[e].bytes + 1 = exchange[e].sent
      /\ exchange[e].sent \in 0..Size /\ wire[e].bytes \in 0..Size
  BY <1>1 DEF Sound, Streaming, TypeOK, Requests, Wires
<1>3. row' = row
  BY DEF Hand, ClientGone
<1>4. PICK n \in {0, 1} : wire' = [wire EXCEPT ![e].bytes = @ + n]
  BY DEF Hand, ClientGone
<1>5. CASE n = 0
  <2>1. wire' = wire
    BY <1>1, <1>2, <1>4, <1>5 DEF TypeOK, Wires
  <2> QED
    BY <1>3, <2>1 DEF Ledger!vars
<1>6. CASE n = 1
  <2>1. wire[e].bytes < Size
    BY <1>2, SizeAssumption
  <2>2. record[e] = row[e].outcome /\ row[e].outcome \notin Ledger!Finals
    BY <1>2 DEF record, Unfinished, Ledger!Finals, Ledger!Replies, Ledger!Transfers
  <2> QED
    BY <1>2, <1>3, <1>4, <1>6, <2>1, <2>2 DEF Ledger!Emit
<1> QED
  BY <1>5, <1>6

LEMMA SaveTransferImplements ==
    ASSUME DeliveryInv, NEW e \in Exchanges, SaveTransfer(e)
    PROVE  Ledger!Finish(e) \/ UNCHANGED Ledger!vars
<1>1. TypeOK /\ Sound(e) /\ exchange[e].step = "closing"
  BY DEF DeliveryInv, SaveTransfer, At
<1>2. /\ wire[e].status = 200 /\ row[e].outcome \in Unfinished
      /\ row[e].outcome = "none" => row[e] = NoRow
      /\ exchange[e].completed => wire[e].bytes = Size
  BY <1>1 DEF Sound, Streaming
<1>3. PICK outcome \in {"download_served", "transfer_incomplete"} :
          /\ Save(e, outcome, row[e].status, exchange[e].sent)
          /\ outcome = "download_served" => exchange[e].completed
  BY DEF SaveTransfer, Transfer
<1>4. outcome \in Outcomes /\ row[e].status \in Statuses \cup {0} /\ exchange[e].sent \in 0..Size
  BY <1>1 DEF Outcomes, TypeOK, Rows, Requests
<1>5. wire' = wire
  BY DEF SaveTransfer
<1>6. UNCHANGED Ledger!vars \/ (row[e] # NoRow /\ Ledger!Enter(e, outcome))
  BY <1>1, <1>3, <1>4, <1>5, SaveEnters
<1> QED
  BY <1>2, <1>3, <1>6 DEF Ledger!Finish, Unfinished

LEMMA NextImplements == DeliveryInv /\ [Next]_vars => [Ledger!Next]_(Ledger!vars)
<1> SUFFICES ASSUME DeliveryInv, [Next]_vars PROVE [Ledger!Next]_(Ledger!vars)
  OBVIOUS
<1>1. CASE Restart
  BY <1>1 DEF Restart, Ledger!vars
<1>2. ASSUME NEW e \in Exchanges, Receive(e) PROVE [Ledger!Next]_(Ledger!vars)
  BY <1>2, ReceiveImplements DEF Ledger!Next
<1>3. ASSUME NEW e \in Exchanges, Serve(e) PROVE [Ledger!Next]_(Ledger!vars)
  <2>1. CASE Answer(e) \/ Prepare(e) \/ GiveUp(e)
    BY <1>3, <2>1, HandlersImplement DEF Ledger!Next
  <2>2. CASE Observe(e)
    BY <1>3, <2>2, ObserveImplements DEF Ledger!Next
  <2>3. CASE Reply(e) \/ Begin(e) \/ LeaveEarly(e)
    BY <1>3, <2>3, RespondImplements DEF Ledger!Next
  <2>4. CASE Hand(e) \/ ClientGone(e)
    BY <1>3, <2>4, HandImplements DEF Ledger!Next
  <2>5. CASE SaveTransfer(e)
    BY <1>3, <2>5, SaveTransferImplements DEF Ledger!Next
  <2>6. CASE Refuse(e) \/ OpenStream(e) \/ Chunk(e) \/ Break(e) \/ Exhaust(e) \/ RecordDownload(e)
    <3>1. row' = row /\ wire' = wire
      BY <2>6 DEF Refuse, OpenStream, Chunk, Break, Exhaust, RecordDownload
    <3> QED
      BY <3>1 DEF Ledger!vars
  <2> QED
    BY <1>3, <2>1, <2>2, <2>3, <2>4, <2>5, <2>6 DEF Serve
<1>4. CASE UNCHANGED vars
  BY <1>4 DEF vars, Ledger!vars
<1> QED
  BY <1>1, <1>2, <1>3, <1>4 DEF Next

\* The history of any set of exchanges is one that the ledger allows: forward
\* only, one result each, and nothing served that was not emitted.
THEOREM DeliveryImplementsLedger == Spec => ImplementsLedger
  BY InitImplements, NextImplements, AlwaysSound, PTL DEF Spec, ImplementsLedger, Ledger!Spec
=============================================================================
