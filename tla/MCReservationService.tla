------------------------ MODULE MCReservationService ------------------------
(* Instances of ReservationService for TLC. *)
EXTENDS ReservationRefinement, TLC

Shape(status, form, code) == [status |-> status, form |-> form, code |-> code]

\* One answer of each class the code tells apart.
FewShapes ==
  {Shape(200, "json", "neutral"), Shape(200, "json", "E052"),
   Shape(200, "empty", "neutral"), Shape(401, "json", "neutral"),
   Shape(503, "json", "neutral")}

\* Every combination of a status, a form and a business code.
AllShapes ==
  {s \in [status: {200, 302, 401, 404, 408, 429, 503}, form: Forms,
          code: BusinessCodes] : s.form # "json" => s.code = "neutral"}

Ask(op, confirm, ticket) ==
  [op |-> op, argsOK |-> TRUE, confirm |-> confirm, ticket |-> ticket]

\* What concurrent callers ask for: writes, and the list that shows them.
WriteWorkload ==
  {Ask("reserve", TRUE, NoTicket), Ask("reservations", FALSE, NoTicket)}
    \cup {Ask("cancel", TRUE, t) : t \in Tickets}

\* Everything one caller can ask for, valid or not.
FullWorkload == Requests

MCSymmetry == Permutations(Calls) \cup Permutations(Tickets)
=============================================================================
