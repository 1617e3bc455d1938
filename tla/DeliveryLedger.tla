--------------------------- MODULE DeliveryLedger ---------------------------
(***************************************************************************)
(* What the communication history promises of each device exchange:        *)
(* docs/DEVICE-COMMUNICATIONS.md, "Record lifecycle".  A record moves      *)
(* forward only, nothing replaces a result, and a download is recorded as  *)
(* served when every byte has been emitted.  It promises no record: each   *)
(* may be missing, or stop at any stage.                                   *)
(***************************************************************************)
EXTENDS Naturals

CONSTANTS
    Exchanges,  \* requests under the two device prefixes
    Size        \* length of a firmware file

VARIABLES
    record,     \* record[e]: the outcome that the history shows for e
    wire        \* wire[e]: status line and bytes of firmware emitted for e

vars == <<record, wire>>

Replies == {"offered", "no_offer", "auth_rejected", "rate_limited", "server_error",
            "request_rejected"}
Transfers == {"download_served", "transfer_incomplete"}
Finals == Replies \cup Transfers

StatusesOf(outcome) ==
    CASE outcome \in {"offered", "streaming"} \cup Transfers -> {200}
      [] outcome = "no_offer" -> {404}
      [] outcome = "auth_rejected" -> {401, 403}
      [] outcome = "rate_limited" -> {429}
      [] outcome = "server_error" -> {500, 503}
      [] outcome = "request_rejected" -> {404, 405, 422}
      [] OTHER -> {200, 401, 403, 404, 405, 422, 429, 500, 503}

Init ==
    /\ record = [e \in Exchanges |-> "none"]
    /\ wire = [e \in Exchanges |-> [status |-> 0, bytes |-> 0]]

Enter(e, outcome) == record' = [record EXCEPT ![e] = outcome] /\ UNCHANGED wire

\* The receipt comes before anything else.
Receive(e) == record[e] = "none" /\ wire[e].status = 0 /\ Enter(e, "received")

Conclude(e) ==
    /\ record[e] = "received" /\ wire[e].status = 0
    /\ \E outcome \in Replies \cup {"streaming"} : Enter(e, outcome)

Respond(e) ==
    /\ wire[e].status = 0
    /\ \E status \in StatusesOf(record[e]) : wire' = [wire EXCEPT ![e].status = status]
    /\ UNCHANGED record

\* No firmware is emitted once the history shows a result.
Emit(e) ==
    /\ wire[e].status = 200 /\ wire[e].bytes < Size /\ record[e] \notin Finals
    /\ wire' = [wire EXCEPT ![e].bytes = @ + 1]
    /\ UNCHANGED record

Finish(e) ==
    /\ record[e] \in {"received", "streaming"} /\ wire[e].status = 200
    /\ \/ wire[e].bytes = Size /\ Enter(e, "download_served")
       \/ Enter(e, "transfer_incomplete")

Next == \E e \in Exchanges : Receive(e) \/ Conclude(e) \/ Respond(e) \/ Emit(e) \/ Finish(e)

Spec == Init /\ [][Next]_vars
=============================================================================
