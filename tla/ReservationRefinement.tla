------------------------ MODULE ReservationRefinement ------------------------
(***************************************************************************)
(* ReservationService implements WriteContract: the verdict of a write is  *)
(* what Execute returned, its fate is what upstream and the network made   *)
(* of the request, and what it asked for holds when its ticket exists      *)
(* (reserve) or is cancelled (cancel).                                     *)
(***************************************************************************)
EXTENDS ReservationService

\* A write that was not sent is dead once Execute is past sending it.
FateOf(c) ==
  IF write[c] = "applied" THEN "landed"
  ELSE IF write[c] = "pending" THEN "open"
  ELSE IF write[c] = "unsent" /\ pc[c] \in {"idle", "loading", "sending", "waiting"}
  THEN "open"
  ELSE "dead"

HoldsFor(c) ==
  /\ pc[c] # "idle"
  /\ \/ req[c].op = "reserve" /\ MadeBy(c) # {}
     \/ /\ req[c].op = "cancel" /\ req[c].ticket # NoTicket
        /\ tickets[req[c].ticket] = "cancelled"

VerdictOf(c) ==
  IF pc[c] = "done" /\ req[c].op \in Writes THEN result[c].state ELSE "none"

Contract == INSTANCE WriteContract WITH
  fate    <- [c \in Calls |-> FateOf(c)],
  holds   <- [c \in Calls |-> HoldsFor(c)],
  verdict <- [c \in Calls |-> VerdictOf(c)]

\* Execute keeps the contract of writes: confirmed only what was done, failed
\* only what is dead for ever, through late effects, lost answers, other
\* clients and concurrent calls (service.go:117-154, client.go:71-97).
KeepsContract == Contract!Spec
=============================================================================
