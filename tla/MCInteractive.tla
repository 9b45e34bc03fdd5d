--------------------------- MODULE MCInteractive ---------------------------
(* Instances of Interactive for TLC. *)
EXTENDS Interactive, TLC

Shape(status, form, code_) == [status |-> status, form |-> form, code |-> code_]
Typed(kind, op, argsOK, confirm, ticket) ==
  [kind |-> kind,
   req |-> [op |-> op, argsOK |-> argsOK, confirm |-> confirm, ticket |-> ticket]]

FewShapes == {Shape(200, "json", "neutral"), Shape(503, "empty", "neutral")}

\* Writes with and without --confirm, with bad arguments, behind a flag.
SomeLines ==
  {Typed("command", "reserve", ok, cf, NoTicket) : ok \in BOOLEAN, cf \in BOOLEAN}
    \cup {Typed("command", "cancel", TRUE, FALSE, t) : t \in Tickets}
    \cup {Typed("command", "reservations", TRUE, FALSE, NoTicket),
          Typed("flagged", "reserve", TRUE, TRUE, NoTicket)}
    \cup {Typed(k, "stores", TRUE, FALSE, NoTicket) :
            k \in {"gated", "blank", "exit", "yes", "local"}}

NoWork == {}
SameTickets == Permutations(Tickets) \cup Permutations(Calls)
=============================================================================
