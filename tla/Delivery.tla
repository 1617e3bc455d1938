------------------------------ MODULE Delivery ------------------------------
(***************************************************************************)
(* One device request from the middleware to the last byte, and the        *)
(* evidence that is kept of it.                                            *)
(*   app/main.py                     RequestLoggingMiddleware              *)
(*   app/services/communications.py  CommunicationRecorder                 *)
(*   app/api/v1/ota.py               the handlers and the observed stream  *)
(*   app/services/ota.py             opening the object, the completion    *)
(*   app/core/monitoring.py          the capture counters                  *)
(*                                                                         *)
(* What is answered is decided in OtaService and a free choice here.  Each *)
(* write of evidence is a transaction of its own, which may fail, or       *)
(* commit without the server learning of it; the storage may fail or give  *)
(* too much or too little; the device may leave; the process may restart.  *)
(***************************************************************************)
EXTENDS Naturals, FiniteSets

CONSTANTS
    Exchanges,      \* requests under the two device prefixes
    Size,           \* length of a firmware file, in chunks
    Answers,        \* statuses of the handlers' answers
    Refusals,       \* statuses that routing, validation and dependencies answer
    MaxRestarts     \* bound: restarts of the process

ASSUME SizeAssumption == Size \in Nat \ {0}
ASSUME ExchangesAssumption == IsFiniteSet(Exchanges)
ASSUME StatusesAssumption ==
    /\ Answers \subseteq {200, 401, 403, 404, 429, 503}
    /\ Refusals \subseteq {404, 405, 422, 500}
ASSUME RestartsAssumption == MaxRestarts \in Nat

VARIABLES
    exchange,   \* exchange[e]: what the process knows of exchange e
    row,        \* row[e]: the committed device_communications row of e
    wire,       \* wire[e]: what has been emitted for the device, status line and chunks
    object,     \* object[e]: the stream from the object store
    attempts,   \* attempts[e]: downloads recorded in update_attempts for e
    capture,    \* the capture counters of the process
    restarts    \* restarts so far

vars == <<exchange, row, wire, object, attempts, capture, restarts>>

Steps == {"new", "routed", "opened", "answered", "ready", "pulling", "yielded", "recording",
          "closing", "over", "left", "lost", "past"}
\* new: not arrived.  over: done.  left: the device left before the first chunk was
\* asked for.  lost, past: under way, or done, when the process was restarted.

Statuses == Answers \cup Refusals \cup {200, 500, 503}

Outcomes == {"received", "streaming", "offered", "no_offer", "auth_rejected", "rate_limited",
             "server_error", "request_rejected", "download_served", "transfer_incomplete"}
Concluded == Outcomes \ {"received", "streaming"}

Requests == [step: Steps, known: BOOLEAN, responded: BOOLEAN, status: Statuses \cup {0},
             sent: 0..Size, completed: BOOLEAN]
Rows == [outcome: Outcomes \cup {"none"}, status: Statuses \cup {0}, sent: 0..Size]
Wires == [status: Statuses \cup {0}, bytes: 0..Size]
Captures == [received: Nat, failures: Nat]

NoRow == [outcome |-> "none", status |-> 0, sent |-> 0]
Receipt == [NoRow EXCEPT !.outcome = "received"]
NoCapture == [received |-> 0, failures |-> 0]

\* No request state, before it arrives and after it is over.
Without(step) == [step |-> step, known |-> FALSE, responded |-> FALSE, status |-> 0, sent |-> 0,
                  completed |-> FALSE]

Init ==
    /\ exchange = [e \in Exchanges |-> Without("new")]
    /\ row = [e \in Exchanges |-> NoRow]
    /\ wire = [e \in Exchanges |-> [status |-> 0, bytes |-> 0]]
    /\ object = [e \in Exchanges |-> "none"]
    /\ attempts = [e \in Exchanges |-> 0]
    /\ capture = NoCapture
    /\ restarts = 0

At(e, step) == exchange[e].step = step
Go(e, step) == exchange' = [exchange EXCEPT ![e].step = step]
End(e, step) == exchange' = [exchange EXCEPT ![e] = Without(step)]
-----------------------------------------------------------------------------
(***************************************************************************)
(* CommunicationRecorder.                                                  *)
(***************************************************************************)

Failed == [capture EXCEPT !.failures = @ + 1]

\* Mutant: a receipt that could not be written is not counted.
ReceiveUncounted(e) ==
    /\ At(e, "new")
    /\ \E known, stored \in BOOLEAN :
          /\ stored => known
          /\ exchange' = [exchange EXCEPT ![e].step = "routed", ![e].known = known]
          /\ row' = IF stored THEN [row EXCEPT ![e] = Receipt] ELSE row
          /\ capture' = IF stored THEN [capture EXCEPT !.received = @ + 1] ELSE capture
    /\ UNCHANGED <<wire, object, attempts, restarts>>

\* The constructor.  The id is known from the flush on, also if the commit fails
\* or its acknowledgement is lost.
Receive(e) ==
    /\ At(e, "new")
    /\ \E known, stored \in BOOLEAN :
          /\ stored => known
          /\ exchange' = [exchange EXCEPT ![e].step = "routed", ![e].known = known]
          /\ row' = IF stored THEN [row EXCEPT ![e] = Receipt] ELSE row
          /\ \/ stored /\ capture' = [capture EXCEPT !.received = @ + 1]
             \/ capture' = Failed
    /\ UNCHANGED <<wire, object, attempts, restarts>>

\* _save: without an id, or without the row, nothing is written or counted.
Save(e, outcome, status, sent) ==
    LET saved == [row EXCEPT ![e] = [outcome |-> outcome, status |-> status, sent |-> sent]] IN
    \/ /\ ~exchange[e].known \/ row[e] = NoRow
       /\ UNCHANGED <<row, capture>>
    \/ /\ exchange[e].known /\ row[e] # NoRow
       /\ row' = saved
       /\ UNCHANGED capture
    \/ /\ exchange[e].known
       /\ row' = row \/ (row[e] # NoRow /\ row' = saved)
       /\ capture' = Failed

\* response: what is recorded of a status.
OutcomeOf(status) ==
    CASE status = 200 -> "offered"
      [] status \in {401, 403} -> "auth_rejected"
      [] status = 404 -> "no_offer"
      [] status = 429 -> "rate_limited"
      [] OTHER -> "server_error"

Responded(e, status) ==
    exchange' = [exchange EXCEPT ![e].step = "answered", ![e].responded = TRUE,
                                 ![e].status = status]

\* _write with the observer's response.
WriteAnswer(e, status, outcome) == Responded(e, status) /\ Save(e, outcome, status, 0)

\* An exception in the handler: failed, and the middleware answers 500.
Fail(e) == Responded(e, 500) /\ Save(e, "server_error", 500, 0)
-----------------------------------------------------------------------------
(***************************************************************************)
(* Handlers and middleware.                                                *)
(***************************************************************************)

\* Routing, validation or a dependency answers in the handlers' place.
Refuse(e) ==
    /\ At(e, "routed")
    /\ \E status \in Refusals :
          exchange' = [exchange EXCEPT ![e].step = "answered", ![e].status = status]
    /\ UNCHANGED <<row, wire, object, attempts, capture, restarts>>

\* A manifest, no offer, a refusal, or a failure before or while the object is opened.
Answer(e) ==
    /\ At(e, "routed")
    /\ \/ \E status \in Answers : WriteAnswer(e, status, OutcomeOf(status))
       \/ Fail(e)
    /\ UNCHANGED <<wire, object, attempts, restarts>>

OpenStream(e) ==
    /\ At(e, "routed")
    /\ object' = [object EXCEPT ![e] = "open"]
    /\ Go(e, "opened")
    /\ UNCHANGED <<row, wire, attempts, capture, restarts>>

\* The service's transaction has committed.
Prepare(e) ==
    /\ At(e, "opened")
    /\ WriteAnswer(e, 200, "streaming")
    /\ UNCHANGED <<wire, object, attempts, restarts>>

\* Mutant: the stream is forgotten if the commit fails.
GiveUpOpen(e) ==
    /\ At(e, "opened")
    /\ \/ WriteAnswer(e, 503, "server_error") /\ object' = [object EXCEPT ![e] = "closed"]
       \/ Fail(e) /\ UNCHANGED object
    /\ UNCHANGED <<wire, attempts, restarts>>

\* The object has another size than the artifact, or the commit fails.
GiveUp(e) ==
    /\ At(e, "opened")
    /\ object' = [object EXCEPT ![e] = "closed"]
    /\ WriteAnswer(e, 503, "server_error") \/ Fail(e)
    /\ UNCHANGED <<wire, attempts, restarts>>

\* Mutant: nothing is recorded where no handler has run.
ObserveHandled(e) ==
    /\ At(e, "answered")
    /\ Go(e, "ready")
    /\ UNCHANGED <<row, wire, object, attempts, capture, restarts>>

\* Mutant: the middleware records what it sees, whoever has answered.
ObserveAlways(e) ==
    /\ At(e, "answered")
    /\ exchange' = [exchange EXCEPT ![e].step = "ready", ![e].responded = TRUE]
    /\ Save(e, IF exchange[e].status >= 500 THEN "server_error" ELSE "request_rejected",
            exchange[e].status, 0)
    /\ UNCHANGED <<wire, object, attempts, restarts>>

\* After call_next: what nobody has responded to.
Observe(e) ==
    /\ At(e, "answered")
    /\ exchange' = [exchange EXCEPT ![e].step = "ready", ![e].responded = TRUE]
    /\ \/ exchange[e].responded /\ UNCHANGED <<row, capture>>
       \/ /\ ~exchange[e].responded
          /\ IF exchange[e].status >= 500 THEN Save(e, "server_error", 500, 0)
             ELSE Save(e, "request_rejected", exchange[e].status, 0)
    /\ UNCHANGED <<wire, object, attempts, restarts>>

\* The answer is a StreamingResponse.
Streamed(e) == object[e] = "open" /\ exchange[e].status = 200

\* The device may have left.
Reply(e) ==
    /\ At(e, "ready") /\ ~Streamed(e)
    /\ \E status \in {0, exchange[e].status} : wire' = [wire EXCEPT ![e].status = status]
    /\ End(e, "over")
    /\ UNCHANGED <<row, object, attempts, capture, restarts>>
-----------------------------------------------------------------------------
(***************************************************************************)
(* The streamed response.  Its generator runs when the next chunk is asked *)
(* for, and stops at the yield until RequestLoggingMiddleware has taken    *)
(* the chunk.  The socket may be one chunk behind: the middleware sends on *)
(* what it has taken while the generator fetches more.                     *)
(***************************************************************************)

\* The emission starts: the status line is handed to the middleware.
Begin(e) ==
    /\ At(e, "ready") /\ Streamed(e)
    /\ wire' = [wire EXCEPT ![e].status = 200]
    /\ Go(e, "pulling")
    /\ UNCHANGED <<row, object, attempts, capture, restarts>>

\* A generator that has not started runs no finally clause.
LeaveEarly(e) ==
    /\ At(e, "ready") /\ Streamed(e)
    /\ \E status \in {0, 200} : wire' = [wire EXCEPT ![e].status = status]
    /\ End(e, "left")
    /\ UNCHANGED <<row, object, attempts, capture, restarts>>

\* Mutant: the size is compared after the last chunk only.
ChunkUnbounded(e) ==
    /\ At(e, "pulling") /\ exchange[e].sent <= Size
    /\ exchange' = [exchange EXCEPT ![e].step = "yielded", ![e].sent = @ + 1]
    /\ UNCHANGED <<row, wire, object, attempts, capture, restarts>>

Chunk(e) ==
    /\ At(e, "pulling") /\ exchange[e].sent < Size
    /\ exchange' = [exchange EXCEPT ![e].step = "yielded", ![e].sent = @ + 1]
    /\ UNCHANGED <<row, wire, object, attempts, capture, restarts>>

\* The store fails, ends early, or gives more than was published.
Break(e) ==
    /\ At(e, "pulling")
    /\ object' = [object EXCEPT ![e] = "closed"]
    /\ Go(e, "closing")
    /\ UNCHANGED <<row, wire, attempts, capture, restarts>>

Exhaust(e) ==
    /\ At(e, "pulling") /\ exchange[e].sent = Size
    /\ object' = [object EXCEPT ![e] = "closed"]
    /\ Go(e, "recording")
    /\ UNCHANGED <<row, wire, attempts, capture, restarts>>

\* The middleware has taken the chunk.
Hand(e) ==
    /\ At(e, "yielded")
    /\ wire' = [wire EXCEPT ![e].bytes = @ + 1]
    /\ Go(e, "pulling")
    /\ UNCHANGED <<row, object, attempts, capture, restarts>>

\* The generator is closed at its yield, the chunk taken or not.
ClientGone(e) ==
    /\ At(e, "yielded")
    /\ \E n \in {0, 1} : wire' = [wire EXCEPT ![e].bytes = @ + n]
    /\ object' = [object EXCEPT ![e] = "closed"]
    /\ Go(e, "closing")
    /\ UNCHANGED <<row, attempts, capture, restarts>>

\* on_stream_complete: an attempt, unless the device is gone or the write fails.
RecordDownload(e) ==
    /\ At(e, "recording")
    /\ \E n \in {0, 1} : attempts' = [attempts EXCEPT ![e] = @ + n]
    /\ exchange' = [exchange EXCEPT ![e].step = "closing", ![e].completed = TRUE]
    /\ UNCHANGED <<row, wire, object, capture, restarts>>

\* Mutant: a download is served when its last chunk has been yielded.
TransferBySize(e) ==
    IF exchange[e].sent = Size THEN "download_served" ELSE "transfer_incomplete"

Transfer(e) ==
    IF exchange[e].completed /\ exchange[e].sent = Size
    THEN "download_served" ELSE "transfer_incomplete"

SaveTransfer(e) ==
    /\ At(e, "closing")
    /\ Save(e, Transfer(e), row[e].status, exchange[e].sent)
    /\ End(e, "over")
    /\ UNCHANGED <<wire, object, attempts, restarts>>

\* Requests under way are lost, with their recorders, streams and counters.
Restart ==
    /\ restarts < MaxRestarts
    /\ restarts' = restarts + 1
    /\ exchange' = [e \in Exchanges |->
          IF exchange[e].step \in {"new", "lost", "past"} THEN exchange[e]
          ELSE Without(IF At(e, "over") THEN "past" ELSE "lost")]
    /\ object' = [e \in Exchanges |-> IF object[e] = "open" THEN "closed" ELSE object[e]]
    /\ capture' = NoCapture
    /\ UNCHANGED <<row, wire, attempts>>

Serve(e) ==
    \/ Refuse(e) \/ Answer(e) \/ OpenStream(e) \/ Prepare(e) \/ GiveUp(e) \/ Observe(e) \/ Reply(e)
    \/ Begin(e) \/ LeaveEarly(e) \/ Chunk(e) \/ Break(e) \/ Exhaust(e) \/ Hand(e) \/ ClientGone(e)
    \/ RecordDownload(e) \/ SaveTransfer(e)

Next == Restart \/ \E e \in Exchanges : Receive(e) \/ Serve(e)

Spec == Init /\ [][Next]_vars

\* A request that has arrived is served: no lock is waited for, the pool and the
\* object store have timeouts, and the proxy closes the connection of a device
\* that stops reading.
Fairness == \A e \in Exchanges : WF_vars(Serve(e))

FairSpec == Spec /\ Fairness
-----------------------------------------------------------------------------
(***************************************************************************)
(* Properties.                                                             *)
(***************************************************************************)

TypeOK ==
    /\ exchange \in [Exchanges -> Requests]
    /\ row \in [Exchanges -> Rows]
    /\ wire \in [Exchanges -> Wires]
    /\ object \in [Exchanges -> {"none", "open", "closed"}]
    /\ attempts \in [Exchanges -> 0..1]
    /\ capture \in Captures
    /\ restarts \in 0..MaxRestarts

\* docs/15-implementation-decisions.md: "records a download as served only after
\* the complete expected byte count has been emitted".  The two records of a
\* download, each written by a transaction of its own, agree with what was emitted
\* and with each other: neither claims more than the other denies.
EvidenceAgrees ==
    \A e \in Exchanges :
        /\ attempts[e] = 1 \/ row[e].outcome = "download_served" => wire[e].bytes = Size
        /\ row[e].outcome = "transfer_incomplete" =>
              attempts[e] = 0 /\ row[e].sent \in {wire[e].bytes, wire[e].bytes + 1}
        /\ row[e].status # 0 /\ wire[e].status # 0 => row[e].status = wire[e].status

\* docs/DEVICE-COMMUNICATIONS.md: "If the database cannot record a request, history
\* has a gap; the process fault view/private logs are the evidence."  Every request
\* of this process is counted, as received or as a failure; and those that are over
\* and whose record is missing or unfinished have each been counted as a failure,
\* though after a failed receipt no save is tried.
GapsAreCounted ==
    /\ Cardinality({e \in Exchanges : exchange[e].step \notin {"new", "lost", "past"}})
         <= capture.received + capture.failures
    /\ Cardinality({e \in Exchanges : At(e, "over") /\ row[e].outcome \notin Concluded})
         <= capture.failures

\* However a download ends, its connection to the object store is given back,
\* unless the device left before the stream was started.
StreamsReleased ==
    \A e \in Exchanges : object[e] = "open" =>
        exchange[e].step \in {"opened", "answered", "ready", "pulling", "yielded", "left"}

\* Every exchange is recorded as DeliveryLedger promises.
Ledger == INSTANCE DeliveryLedger WITH record <- [e \in Exchanges |-> row[e].outcome]

ImplementsLedger == Ledger!Spec

\* docs/DEVICE-COMMUNICATIONS.md: after the receipt "it transitions to" a result.
\* What has been received comes to a result, unless the process restarts, a write
\* fails, or the device leaves before the stream is started.
EvidenceEnds ==
    \A e \in Exchanges :
        row[e].outcome \in {"received", "streaming"}
            ~> \/ row[e].outcome \in Concluded
               \/ exchange[e].step \in {"left", "lost", "past"}
               \/ capture.failures > 0
=============================================================================
