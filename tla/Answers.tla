------------------------------- MODULE Answers -------------------------------
(***************************************************************************)
(* How internal/api/client.go decodes one answer: Client.request and       *)
(* businessError over the fields of a JSON object, list, record and        *)
(* CurrentTicketStatus over nested values.  ReservationService works with  *)
(* the abstract replies of Response; here they are computed from bodies,   *)
(* and the two readings are compared.                                      *)
(*                                                                         *)
(* A body is Cut, Empty, Garbage or a JSON value: null, a scalar, an array *)
(* or an object.  The fields of api.Reservation are one, "ticket": the     *)
(* ticketId, or Broken where a field does not decode.                      *)
(***************************************************************************)
EXTENDS Integers, Sequences, FiniteSetsExt

CONSTANTS
  Bodies,   \* what upstream may answer
  Codes,    \* the HTTP statuses it answers with
  Tickets, Shapes, NoTicket, NoList, NoReply, \* those of Response
  Broken    \* a record one of whose fields has another type

ASSUME NamesAssumption == NoTicket \notin Tickets /\ Broken \notin Tickets /\ NoList # {}

R == INSTANCE Response

Cut     == [kind |-> "cut"]
Empty   == [kind |-> "empty"]
Garbage == [kind |-> "garbage"]
Null         == [kind |-> "null"]
Scalar(s)    == [kind |-> "scalar", is |-> s]
Array(items) == [kind |-> "array", items |-> items]
Object(ticket, fields) == [kind |-> "object", ticket |-> ticket, fields |-> fields]

Has(v, key) == v.kind = "object" /\ key \in DOMAIN v.fields

-----------------------------------------------------------------------------
(* businessError. *)

CodeKeys == <<"code", "errorCode", "error_code", "errCode">>

\* What a code field says; "" and the words for success say nothing.
Says(v) ==
  CASE v.kind = "null" -> "neutral"
    [] v.kind = "scalar" /\ v.is \in {"", "0", "200", "OK", "SUCCESS", "null"} -> "neutral"
    [] v.kind = "scalar" /\ v.is \in {"E044", "E052"} -> v.is
    [] OTHER -> "other"

\* The verdict of businessError: the first code field that says something,
\* then "success" and "error".
businessCode(v) ==
  LET telling == {i \in DOMAIN CodeKeys :
                    Has(v, CodeKeys[i]) /\ Says(v.fields[CodeKeys[i]]) # "neutral"}
  IN IF telling # {} THEN Says(v.fields[CodeKeys[Min(telling)]])
     ELSE IF \/ Has(v, "success") /\ v.fields["success"] = Scalar("false")
             \/ Has(v, "error") /\ v.fields["error"] \notin {Null, Scalar("")}
     THEN "other" ELSE "neutral"

-----------------------------------------------------------------------------
(* record. *)

TicketKeys == <<"reservationTicket", "reservation", "data", "ticket", "currentTicket",
                "current", "TICKET_DETAIL", "ticketDetail", "ticket_detail">>
Keys == DOMAIN TicketKeys

HasTicketKey(v, i) == Has(v, TicketKeys[i])
Member(v, i) == v.fields[TicketKeys[i]]

\* A slip of Look: what is nested comes before the object itself.
LookInside(v, inner) ==
  LET hits == {i \in Keys : inner[i] # NoTicket}
  IN IF hits # {} THEN inner[Min(hits)]
     ELSE IF v.kind = "object" /\ v.ticket \in Tickets THEN v.ticket ELSE NoTicket

\* One call of record: the ticket of the object itself, or the one found
\* under the first key that leads to any.
Look(v, inner) ==
  LET hits == {i \in Keys : inner[i] # NoTicket}
  IN IF v.kind # "object" THEN NoTicket
     ELSE IF v.ticket \in Tickets THEN v.ticket
     ELSE IF hits # {} THEN inner[Min(hits)] ELSE NoTicket

\* record calls itself down to depth 4: one operator for each depth.
record4(v) == Look(v, [i \in Keys |-> NoTicket])
record3(v) == Look(v, [i \in Keys |-> IF HasTicketKey(v, i) THEN record4(Member(v, i)) ELSE NoTicket])
record2(v) == Look(v, [i \in Keys |-> IF HasTicketKey(v, i) THEN record3(Member(v, i)) ELSE NoTicket])
record1(v) == Look(v, [i \in Keys |-> IF HasTicketKey(v, i) THEN record2(Member(v, i)) ELSE NoTicket])
record(v)  == Look(v, [i \in Keys |-> IF HasTicketKey(v, i) THEN record1(Member(v, i)) ELSE NoTicket])

\* list: the array, or the one under "data".
Items(v) == IF Has(v, "data") THEN v.fields["data"] ELSE v

-----------------------------------------------------------------------------
VARIABLES
  op,     \* "reserve", "cancel", "list" or "status"
  status, \* the HTTP status
  body,   \* the body
  pc,     \* "request", "decode" or "done"
  error,  \* what the operation returns: an error,
  result  \* and a ticket, a list or two tickets

vars == <<op, status, body, pc, error, result>>

Write == op \in {"reserve", "cancel"}
Nothing == [kind |-> "nothing"]
TicketOf(t) == [kind |-> "ticket", ticket |-> t]
ListOf(s)   == [kind |-> "list", tickets |-> s]
Both(n, r)  == [kind |-> "status", netTicket |-> n, reservationTicket |-> r]

Return(e, r) == pc' = "done" /\ error' = e /\ result' = r /\ UNCHANGED <<op, status, body>>
Refuse(e)    == Return(e, Nothing)
Business(c)  == R!businessError([code |-> c])

\* A slip of Request: the status comes before every business code.
RequestStatusFirst ==
  /\ pc = "request"
  /\ CASE body.kind = "cut" -> Refuse(R!Err("invalid_response", Write))
       [] body.kind # "cut" /\ ~R!Success(status) -> Refuse(R!HTTPError(status, Write))
       [] body.kind = "garbage" /\ R!Success(status) -> Refuse(R!Err("invalid_response", Write))
       [] OTHER -> IF businessCode(body) # "neutral" THEN Refuse(Business(businessCode(body)))
                   ELSE pc' = "decode" /\ UNCHANGED <<op, status, body, error, result>>

\* The end of Client.request.
Request ==
  /\ pc = "request"
  /\ IF body.kind = "cut" THEN Refuse(R!Err("invalid_response", Write))
     ELSE IF businessCode(body) \in {"E044", "E052"} THEN Refuse(Business(businessCode(body)))
     ELSE IF ~R!Success(status) THEN Refuse(R!HTTPError(status, Write))
     ELSE IF body.kind = "garbage" THEN Refuse(R!Err("invalid_response", Write))
     ELSE IF businessCode(body) # "neutral" THEN Refuse(Business(businessCode(body)))
     ELSE pc' = "decode" /\ UNCHANGED <<op, status, body, error, result>>

Reserve ==
  /\ pc = "decode" /\ op = "reserve"
  /\ IF record(body) = NoTicket THEN Refuse(R!Err("invalid_response", TRUE))
     ELSE Return(R!None, TicketOf(record(body)))

\* The answer to a cancellation is no evidence of it.
Cancel == pc = "decode" /\ op = "cancel" /\ Return(R!None, Nothing)

\* A slip of List: an object without data is an empty list.
ListMissing ==
  /\ pc = "decode" /\ op = "list"
  /\ LET v == Items(body) IN
     IF v.kind = "array" /\ \A i \in DOMAIN v.items :
          v.items[i].kind = "object" /\ v.items[i].ticket \in Tickets
     THEN Return(R!None, ListOf([i \in DOMAIN v.items |-> v.items[i].ticket]))
     ELSE IF body.kind = "object" /\ ~Has(body, "data") THEN Return(R!None, ListOf(<<>>))
     ELSE Refuse(R!Err("invalid_response", FALSE))

\* Reservations: every entry must name a ticket.
List ==
  /\ pc = "decode" /\ op = "list"
  /\ LET v == Items(body) IN
     IF v.kind = "array" /\ \A i \in DOMAIN v.items :
          v.items[i].kind = "object" /\ v.items[i].ticket \in Tickets
     THEN Return(R!None, ListOf([i \in DOMAIN v.items |-> v.items[i].ticket]))
     ELSE Refuse(R!Err("invalid_response", FALSE))

\* CurrentTicketStatus: both members must be there, null or a ticket.
Status ==
  /\ pc = "decode" /\ op = "status"
  /\ LET Ticket(key) == IF body.fields[key] = Null THEN NoTicket
                        ELSE record(body.fields[key])
         Bad(key) == ~Has(body, key) \/ (body.fields[key] # Null /\ Ticket(key) = NoTicket)
     IN IF Bad("netTicket") \/ Bad("reservationTicket")
        THEN Refuse(R!Err("invalid_response", FALSE))
        ELSE Return(R!None, Both(Ticket("netTicket"), Ticket("reservationTicket")))

Init ==
  /\ op \in {"reserve", "cancel", "list", "status"}
  /\ status \in Codes
  /\ body \in Bodies
  /\ pc = "request"
  /\ error = R!None
  /\ result = Nothing

Next == Request \/ Reserve \/ Cancel \/ List \/ Status

Spec == Init /\ [][Next]_vars

-----------------------------------------------------------------------------
(***************************************************************************)
(* Properties.                                                             *)
(***************************************************************************)

\* Every ticket that a value names, with its place: the keys on the way to
\* it, at most four.
Own(v) ==
  IF v.kind = "object" /\ v.ticket \in Tickets
  THEN {[place |-> <<>>, ticket |-> v.ticket]} ELSE {}
Under(i, found) == {[place |-> <<i>> \o f.place, ticket |-> f.ticket] : f \in found}
Gather(v, found) == Own(v) \cup UNION {Under(i, found[i]) : i \in Keys}

Named4(v) == Own(v)
Named3(v) == Gather(v, [i \in Keys |-> IF HasTicketKey(v, i) THEN Named4(Member(v, i)) ELSE {}])
Named2(v) == Gather(v, [i \in Keys |-> IF HasTicketKey(v, i) THEN Named3(Member(v, i)) ELSE {}])
Named1(v) == Gather(v, [i \in Keys |-> IF HasTicketKey(v, i) THEN Named2(Member(v, i)) ELSE {}])
Named(v)  == Gather(v, [i \in Keys |-> IF HasTicketKey(v, i) THEN Named1(Member(v, i)) ELSE {}])

\* The order in which the client looks (client.go:231-247): an object before
\* what it holds, and all that an earlier key leads to before a later key.
Before(p, q) ==
  \/ Len(p) <= Len(q) /\ \A m \in 1..Len(p) : p[m] = q[m]
  \/ \E n \in 1..Len(p) :
       n <= Len(q) /\ p[n] < q[n] /\ \A m \in 1..(n - 1) : p[m] = q[m]

\* The first ticket in that order.
First(found, f) == f \in found /\ \A g \in found : Before(f.place, g.place)
FirstTicket(v) ==
  IF Named(v) = {} THEN NoTicket ELSE (CHOOSE f \in Named(v) : First(Named(v), f)).ticket

\* Whatever the order: t is a ticket that v names, and no object around it
\* names one of its own; none only if v names none.
Around(p, q) == Len(p) < Len(q) /\ \A m \in 1..Len(p) : p[m] = q[m]
Verified(t, v) ==
  IF Named(v) = {} THEN t = NoTicket
  ELSE \E f \in Named(v) : f.ticket = t /\ \A g \in Named(v) : ~Around(g.place, f.place)

\* A created or current ticket is one that the answer names and not one held
\* by a ticket (what a ticket refers to, say); an answer within which only one
\* ticket is named gives that one.  A write without a verified ticket is left
\* open.  Of two tickets side by side the earlier key's is taken, even where
\* it stands further in.
TicketIsNotInner ==
  /\ result.kind = "ticket" => result.ticket # NoTicket /\ Verified(result.ticket, body)
  /\ result.kind = "status" =>
       \A key \in {"netTicket", "reservationTicket"} : Verified(result[key], body.fields[key])

\* No error and no odd shape is shown as "nothing there": a list has every
\* entry that upstream sent, and a ticket is missing only where upstream says
\* null.
NothingIsEmptyByMistake ==
  /\ result.kind = "list" =>
       /\ Items(body).kind = "array"
       /\ Len(result.tickets) = Len(Items(body).items)
       /\ \A i \in DOMAIN result.tickets : result.tickets[i] = FirstTicket(Items(body).items[i])
  /\ result.kind = "status" =>
       \A key \in {"netTicket", "reservationTicket"} :
         result[key] = NoTicket => body.fields[key] = Null

\* The reply of module Response that stands for this answer.
Readable ==
  IF op = "list"
  THEN /\ Items(body).kind = "array"
       /\ \A i \in DOMAIN Items(body).items :
            LET item == Items(body).items[i] IN item.kind = "object" /\ item.ticket \in Tickets
  ELSE \A key \in {"netTicket", "reservationTicket"} :
         Has(body, key) /\ (body.fields[key] = Null \/ FirstTicket(body.fields[key]) # NoTicket)
Abstract ==
  [status |-> status,
   form   |-> IF body.kind \in {"cut", "empty", "garbage"} THEN body.kind ELSE "json",
   code   |-> businessCode(body),
   ticket |-> FirstTicket(body),
   list   |-> IF Readable THEN {} ELSE NoList]

\* Every answer is classified as the reply that stands for it: what is shown
\* of ReservationService holds for the bodies behind its replies.  A result
\* and an error exclude each other, and a cancellation has no result.
AgreesWithResponse ==
  pc = "done" =>
    /\ error = CASE op = "reserve" -> R!Reserve(Abstract)
                 [] op = "cancel"  -> R!Cancel(Abstract)
                 [] OTHER          -> R!Query(Abstract)
    /\ result = Nothing <=> error # R!None \/ op = "cancel"
=============================================================================
