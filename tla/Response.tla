------------------------------ MODULE Response ------------------------------
(***************************************************************************)
(* How internal/api/client.go reads one HTTP answer: which answers are a   *)
(* success, which are a definite refusal, and which leave the fate of a    *)
(* write unknown.  Pure operators over an abstract reply.                  *)
(*                                                                         *)
(* A reply keeps what the code tells apart:                                *)
(*   status  the HTTP status                                               *)
(*   form    "cut"     the body could not be read to its end, or is over   *)
(*                     the 2 MiB limit                                     *)
(*           "empty"   no body, or white space only                        *)
(*           "garbage" the body is not valid JSON                          *)
(*           "json"    the body is valid JSON                              *)
(*   code    the first telling business code of a JSON object ("neutral"   *)
(*           when there is none, or the body is not an object)             *)
(*   ticket  the ticket that record() finds, NoTicket when it finds none   *)
(*   list    the entries of a well-formed array whose entries all decode   *)
(*           and carry the required fields, NoList for any other shape     *)
(***************************************************************************)
EXTENDS Integers

CONSTANTS
  Tickets,     \* upstream ticket identifiers (the positive int64 values)
  Shapes,      \* the kinds of answer upstream gives: status, form and code
  NoTicket,    \* "no ticket": a ticketId that is missing or not positive
  NoList,      \* "not a well-formed list"
  NoReply      \* "no answer has arrived"

Statuses      == 200..599
Forms         == {"cut", "empty", "garbage", "json"}
BusinessCodes == {"neutral", "E044", "E052", "other"}
Entry         == [ticket: Tickets, status: {"active", "cancelled"}]
Lists         == SUBSET Entry

ASSUME NoTicketAssumption == NoTicket \notin Tickets
ASSUME NoListAssumption == \A list \in Lists : list # NoList
ASSUME ShapesAssumption ==
  Shapes \subseteq [status: Statuses, form: Forms, code: BusinessCodes]

\* Only valid JSON can carry a business code, a ticket or a list.
WellFormed(reply) ==
  reply.form # "json" =>
    /\ reply.code = "neutral"
    /\ reply.ticket = NoTicket
    /\ reply.list = NoList

ReplyRecord ==
  [status: Statuses, form: Forms, code: BusinessCodes,
   ticket: {NoTicket} \cup Tickets, list: {NoList} \cup Lists]
Reply == {r \in ReplyRecord : WellFormed(r)}

\* The answers upstream can give that name a ticket of the set and carry a
\* list of the set.
Replies(ticketSet, listSet) ==
  {r \in {[status |-> s.status, form |-> s.form, code |-> s.code,
           ticket |-> t, list |-> l] : s \in Shapes, t \in ticketSet, l \in listSet} :
     WellFormed(r)}

ASSUME NoReplyAssumption == NoReply \notin Replies({NoTicket} \cup Tickets, {NoList} \cup Lists)

-----------------------------------------------------------------------------
(***************************************************************************)
(* An api.Error as far as callers look at it: the code and whether the     *)
(* write may still have happened.  None stands for a nil error.            *)
(***************************************************************************)
ErrorCodes ==
  {"none", "http_error", "auth_required", "endpoint_unavailable",
   "rate_limited", "no_availability", "active_reservation_exists",
   "business_error", "invalid_response", "transport_error",
   "invalid_arguments", "storage_unsupported", "public_config_invalid",
   "public_config_required", "public_query_rejected", "write_uncertain"}

Err(code, uncertain) == [code |-> code, uncertain |-> uncertain]
None == Err("none", FALSE)

Success(status) == status \in 200..299

\* Slips of HTTPError that the runs must catch: a request timeout, or a
\* server error, taken for a definite refusal.
HTTPErrorTimeoutDefinite(status, write) ==
  Err("http_error", write /\ status >= 500)
HTTPErrorServerDefinite(status, write) ==
  Err("http_error", write /\ status = 408)

\* The error an HTTP status stands for; only 408 and 5xx leave a write open.
HTTPError(status, write) ==
  Err(IF status \in {401, 403} THEN "auth_required"
      ELSE IF status = 404 THEN "endpoint_unavailable"
      ELSE IF status = 429 THEN "rate_limited"
      ELSE "http_error",
      write /\ (status >= 500 \/ status = 408))

\* The error a business code stands for: always a definite refusal.
businessError(reply) ==
  Err(IF reply.code = "E044" THEN "no_availability"
      ELSE IF reply.code = "E052" THEN "active_reservation_exists"
      ELSE IF reply.code = "other" THEN "business_error"
      ELSE "none",
      FALSE)

(***************************************************************************)
(* The classification at the end of Client.request.  The order matters:    *)
(* E044 and E052 are definite whatever the status, other business codes    *)
(* only with a 2xx status, and what cannot be read is uncertain.           *)
(***************************************************************************)
request(reply, write) ==
  IF reply.form = "cut" THEN Err("invalid_response", write)
  ELSE IF reply.code \in {"E044", "E052"} THEN businessError(reply)
  ELSE IF ~Success(reply.status) THEN HTTPError(reply.status, write)
  ELSE IF reply.form = "empty" THEN None
  ELSE IF reply.form = "garbage" THEN Err("invalid_response", write)
  ELSE businessError(reply)

\* A slip of Reserve: an answer without a ticket taken for a success.
ReserveUnverified(reply) == request(reply, TRUE)

\* Client.Reserve: without a ticket in the answer nothing is verified.
Reserve(reply) ==
  IF request(reply, TRUE) = None /\ reply.ticket = NoTicket
  THEN Err("invalid_response", TRUE)
  ELSE request(reply, TRUE)

\* Client.Cancel: the answer's content is never taken as proof.
Cancel(reply) == request(reply, TRUE)

\* Client.Reservations, Slots, StoresNear and CurrentTicketStatus: anything
\* but a well-formed list (or ticket object) is an error, never an empty one.
Query(reply) ==
  IF request(reply, FALSE) = None /\ reply.list = NoList
  THEN Err("invalid_response", FALSE)
  ELSE request(reply, FALSE)
=============================================================================
