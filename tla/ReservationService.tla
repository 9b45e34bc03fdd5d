------------------------- MODULE ReservationService -------------------------
(***************************************************************************)
(* Service.Execute (internal/service/service.go) with the HTTP client it   *)
(* drives (internal/api/client.go), against an upstream ticket system that *)
(* other clients of the same account use at the same time.                 *)
(*                                                                         *)
(* Each member of Calls is one invocation of Execute: the MCP server runs  *)
(* many of them at once, the command line one.  The upstream system, the   *)
(* network and the other clients are external: their actions say what the  *)
(* code relies on and nothing more.  A write that was sent stays "pending" *)
(* until the upstream applies it, refuses it, or the network loses it; the *)
(* client may have given up, reconciled and answered long before.          *)
(***************************************************************************)
EXTENDS Response, FiniteSets

CONSTANTS
  Calls,       \* the invocations of Execute
  Workload,    \* the requests callers make
  Interrupts,  \* the invocations whose context may be cancelled (a bound)
  Nobody       \* "not created by a call of this program"

Reads    == {"stores", "slots", "reservations", "ticket-status"}
Writes   == {"reserve", "cancel"}
Ops      == Reads \cup Writes
PublicOps == {"stores", "slots"}

\* argsOK: the profile name and the operation's own arguments are valid.
Requests == [op: Ops, argsOK: BOOLEAN, confirm: BOOLEAN,
             ticket: {NoTicket} \cup Tickets]

ASSUME WorkloadAssumption == Workload \subseteq Requests
ASSUME InterruptsAssumption == Interrupts \subseteq Calls
ASSUME NobodyAssumption == Nobody \notin Calls

VARIABLES
  pc,          \* pc[c]: where Execute stands
  req,         \* req[c]: the request
  ctx,         \* ctx[c]: "live", or "cancelled" by a signal or the MCP client
  result,      \* result[c]: the Result, final once pc[c] = "done"
  write,       \* write[c]: what became of the write request of c
  answer,      \* answer[c]: the answer to the request c is waiting on
  tickets,     \* tickets[t]: the upstream state of a ticket
  maker,       \* maker[t]: the call whose write created t (history)
  standing     \* standing[c]: tickets active ever since c sent its last
               \* request (history)

client   == <<pc, req, result>>
upstream == <<tickets, maker, standing>>
vars     == <<pc, req, ctx, result, write, answer, tickets, maker, standing>>

PCs    == {"idle", "loading", "sending", "waiting", "reconciling", "reading",
           "done"}
Fates  == {"unsent", "pending", "applied", "refused", "lost"}
States == {"none", "confirmed", "failed", "uncertain"}

\* data: the tickets a success names; obs: the records reconciliation read;
\* rerr: the reconciliation error.
Results == [state: States, code: ErrorCodes, data: SUBSET Tickets,
            obs: {NoList} \cup Lists, rerr: ErrorCodes]

Outcome(state, code, data) ==
  [state |-> state, code |-> code, data |-> data, obs |-> NoList,
   rerr |-> "none"]

Failed(code) == Outcome("failed", code, {})
Named(list)  == {e.ticket : e \in list}

-----------------------------------------------------------------------------
(***************************************************************************)
(* Execute, step by step.                                                  *)
(***************************************************************************)

\* The write guard of ValidateRequest, and its other checks as argsOK.
ValidateRequest(r) ==
  /\ r.argsOK
  /\ r.op \in Writes => r.confirm
  /\ r.op = "cancel" => r.ticket # NoTicket

\* A call of Execute: local validation, before anything is loaded or sent.
Execute(c, r) ==
  /\ pc[c] = "idle"
  /\ req' = [req EXCEPT ![c] = r]
  /\ IF ValidateRequest(r)
     THEN /\ pc' = [pc EXCEPT ![c] = "loading"]
          /\ UNCHANGED result
     ELSE /\ pc' = [pc EXCEPT ![c] = "done"]
          /\ result' = [result EXCEPT ![c] = Failed("invalid_arguments")]
  /\ UNCHANGED <<ctx, write, answer, upstream>>

\* What the providers and the client constructors make of the stored
\* configuration: the error each outcome ends the call with.  (The stores
\* accept no document with another base URL, so New never refuses one.)
PersonalLoad == [complete    |-> "none",
                 incomplete  |-> "auth_required",
                 unreadable  |-> "auth_required",
                 unsupported |-> "storage_unsupported"]
PublicLoad   == [explicit    |-> "none",
                 absent      |-> "none",
                 unreadable  |-> "public_config_invalid",
                 incomplete  |-> "public_config_required"]
LoadTable(op) == IF op \in PublicOps THEN PublicLoad ELSE PersonalLoad

\* Load the configuration and build the client.  The stores check the
\* context, so a cancelled call cannot get past this point.
LoadConfig(c) ==
  /\ pc[c] = "loading"
  /\ \E outcome \in DOMAIN LoadTable(req[c].op) :
       /\ ctx[c] = "cancelled" => outcome \in {"unreadable", "unsupported"}
       /\ LET code == LoadTable(req[c].op)[outcome] IN
          IF code = "none"
          THEN /\ pc' = [pc EXCEPT ![c] = "sending"]
               /\ UNCHANGED result
          ELSE /\ pc' = [pc EXCEPT ![c] = "done"]
               /\ result' = [result EXCEPT ![c] = Failed(code)]
  /\ UNCHANGED <<req, ctx, write, answer, upstream>>

Active == {t \in Tickets : tickets[t] = "active"}

\* http.Client.Do hands the request to the network; not once the context is
\* cancelled.
Send(c) ==
  /\ pc[c] = "sending"
  /\ ctx[c] = "live"
  /\ pc' = [pc EXCEPT ![c] = "waiting"]
  /\ write' = IF req[c].op \in Writes
              THEN [write EXCEPT ![c] = "pending"] ELSE write
  /\ standing' = [standing EXCEPT ![c] = Active]
  /\ UNCHANGED <<req, ctx, result, answer, tickets, maker>>

\* The error of the operation's client method for an answer.
OperationError(op, reply) ==
  IF op = "reserve" THEN Reserve(reply)
  ELSE IF op = "cancel" THEN Cancel(reply)
  ELSE Query(reply)

\* The tickets a successful answer names.
OperationData(op, reply) ==
  IF op = "reserve" THEN {reply.ticket} ELSE Named(reply.list)

\* A personal login can never be the answer to a refused public query.
PublicCode(op, code) ==
  IF op \in PublicOps /\ code = "auth_required"
  THEN "public_query_rejected" ELSE code

\* The cause that reconcile reports, for a write whose fate is open: any
\* uncertain error of a reserve, and a cancel unless it failed for certain.
Cause(op, e) == IF op = "cancel" THEN "write_uncertain" ELSE e.code
NeedsReconcile(op, e) ==
  \/ op = "reserve" /\ e.uncertain
  \/ op = "cancel" /\ (e = None \/ e.uncertain)

\* The switch of Execute, after the client method returned error e and data.
Settle(c, e, data) ==
  LET op == req[c].op IN
  IF NeedsReconcile(op, e)
  THEN /\ pc' = [pc EXCEPT ![c] = "reconciling"]
       /\ result' = [result EXCEPT ![c] = Outcome("uncertain", Cause(op, e), {})]
  ELSE /\ pc' = [pc EXCEPT ![c] = "done"]
       /\ result' = [result EXCEPT ![c] =
                       IF e = None THEN Outcome("confirmed", "none", data)
                       ELSE Failed(PublicCode(op, e.code))]

\* The answer arrives and is classified.
Receive(c) ==
  /\ pc[c] = "waiting"
  /\ answer[c] # NoReply
  /\ LET e == OperationError(req[c].op, answer[c]) IN
     Settle(c, e, IF e = None /\ req[c].op # "cancel"
                  THEN OperationData(req[c].op, answer[c]) ELSE {})
  /\ answer' = [answer EXCEPT ![c] = NoReply]
  /\ UNCHANGED <<req, ctx, write, upstream>>

\* Do returns an error: the 15 second timeout, a cancelled context, or a
\* connection that failed before or after the request left.
GiveUp(c) ==
  /\ pc[c] \in {"sending", "waiting"}
  /\ Settle(c, Err("transport_error", req[c].op \in Writes), {})
  /\ answer' = [answer EXCEPT ![c] = NoReply]
  /\ UNCHANGED <<req, ctx, write, upstream>>

-----------------------------------------------------------------------------
\* A slip of SendList: the write is submitted again.
SendListAndRetry(c) ==
  /\ pc[c] = "reconciling"
  /\ ctx[c] = "live"
  /\ pc' = [pc EXCEPT ![c] = "reading"]
  /\ write' = [write EXCEPT ![c] = "pending"]
  /\ standing' = [standing EXCEPT ![c] = Active]
  /\ UNCHANGED <<req, ctx, result, answer, tickets, maker>>

(***************************************************************************)
(* reconcile: one read of the live reservation list, never a second write. *)
(***************************************************************************)
SendList(c) ==
  /\ pc[c] = "reconciling"
  /\ ctx[c] = "live"
  /\ pc' = [pc EXCEPT ![c] = "reading"]
  /\ standing' = [standing EXCEPT ![c] = Active]
  /\ UNCHANGED <<req, ctx, result, write, answer, tickets, maker>>

\* A slip of ProvesCancelled: the ticket of the record is not compared.
ProvesCancelledByAny(r, obs) ==
  r.op = "cancel" /\ \E e \in obs : e.status = "cancelled"

\* Only a live record of this very ticket proves a cancellation.
ProvesCancelled(r, obs) ==
  r.op = "cancel" /\ [ticket |-> r.ticket, status |-> "cancelled"] \in obs

\* A slip of ReceiveList: a list that cannot be read taken for an empty one.
ReceiveListLenient(c) ==
  /\ pc[c] = "reading"
  /\ answer[c] # NoReply
  /\ result' = [result EXCEPT ![c].obs =
                  IF Query(answer[c]) # None THEN {} ELSE answer[c].list]
  /\ pc' = [pc EXCEPT ![c] = "done"]
  /\ answer' = [answer EXCEPT ![c] = NoReply]
  /\ UNCHANGED <<req, ctx, write, upstream>>

ReceiveList(c) ==
  /\ pc[c] = "reading"
  /\ answer[c] # NoReply
  /\ LET e   == Query(answer[c])
         obs == answer[c].list IN
     result' = [result EXCEPT ![c] =
       IF e # None THEN [@ EXCEPT !.rerr = e.code]
       ELSE IF ProvesCancelled(req[c], obs)
       THEN Outcome("confirmed", "none", {req[c].ticket})
       ELSE [@ EXCEPT !.obs = obs]]
  /\ pc' = [pc EXCEPT ![c] = "done"]
  /\ answer' = [answer EXCEPT ![c] = NoReply]
  /\ UNCHANGED <<req, ctx, write, upstream>>

\* Slips of GiveUpList: the error is dropped; the query is tried for ever.
GiveUpListSilently(c) ==
  /\ pc[c] \in {"reconciling", "reading"}
  /\ pc' = [pc EXCEPT ![c] = "done"]
  /\ answer' = [answer EXCEPT ![c] = NoReply]
  /\ UNCHANGED <<req, ctx, result, write, upstream>>
GiveUpListAndRetry(c) ==
  /\ pc[c] = "reading"
  /\ pc' = [pc EXCEPT ![c] = "reconciling"]
  /\ answer' = [answer EXCEPT ![c] = NoReply]
  /\ UNCHANGED <<req, ctx, result, write, upstream>>

GiveUpList(c) ==
  /\ pc[c] \in {"reconciling", "reading"}
  /\ result' = [result EXCEPT ![c].rerr = "transport_error"]
  /\ pc' = [pc EXCEPT ![c] = "done"]
  /\ answer' = [answer EXCEPT ![c] = NoReply]
  /\ UNCHANGED <<req, ctx, write, upstream>>

\* SIGINT, SIGTERM, or the MCP client cancelling its request.
CancelContext(c) ==
  /\ c \in Interrupts
  /\ pc[c] \notin {"idle", "done"}
  /\ ctx' = [ctx EXCEPT ![c] = "cancelled"]
  /\ UNCHANGED <<client, write, answer, upstream>>

-----------------------------------------------------------------------------
(***************************************************************************)
(* The upstream system, the network and the account's other clients.       *)
(* What the code relies on:                                                *)
(*   U1  an answer that SaysRefused is sent only for a write that was not  *)
(*       applied and never will be; every other answer promises nothing    *)
(*       (a gateway's 408 or 5xx may precede the write's effect);          *)
(*   U2  an answer that SaysCreated names the ticket this request created; *)
(*   U3  a well-formed list is true when it is sent: it has every active   *)
(*       ticket, and a cancelled ticket may be in it, as cancelled;        *)
(*   U4  a write takes effect at most once, and cancelled is final.        *)
(***************************************************************************)
SaysRefused(reply) ==
  /\ reply.form # "cut"
  /\ \/ reply.code \in {"E044", "E052"}
     \/ reply.status \in 300..499 \ {408}
     \/ reply.code = "other" /\ Success(reply.status)

SaysCreated(reply) ==
  /\ reply.form = "json" /\ reply.code = "neutral" /\ Success(reply.status)
  /\ reply.ticket # NoTicket

WriteReplies == Replies({NoTicket} \cup Tickets, {NoList})

\* What may be answered to the write of c once it was applied, creating t.
AppliedReplies(c, t) ==
  {r \in WriteReplies :
     /\ ~SaysRefused(r)
     /\ req[c].op = "reserve" /\ SaysCreated(r) => r.ticket = t}
\* A refused request: any answer but one that claims a new ticket.
RefusedReplies(c) ==
  {r \in WriteReplies : req[c].op = "reserve" => ~SaysCreated(r)}
\* An answer that overtakes the write: it claims neither.
EarlyReplies(c) == {r \in RefusedReplies(c) : ~SaysRefused(r)}

\* The lists that are a true answer to a query, in the current state.
Known  == {[ticket |-> t, status |-> tickets[t]] :
             t \in {u \in Tickets : tickets[u] # "absent"}}
TrueLists(op) ==
  IF op \in PublicOps THEN {{}}
  ELSE IF op = "ticket-status"
  THEN {L \in SUBSET Known : Named(L) \subseteq Active}
  ELSE {L \in SUBSET Known : Active \subseteq Named(L)}

Waits(c) == pc[c] = "waiting" /\ answer[c] = NoReply

\* The upstream ends its work on the write of c; c may be told, if it waits.
Resolve(c, fate, replies) ==
  /\ write[c] = "pending"
  /\ write' = [write EXCEPT ![c] = fate]
  /\ IF Waits(c)
     THEN \E r \in replies : answer' = [answer EXCEPT ![c] = r]
     ELSE UNCHANGED answer

SetCancelled(t) ==
  /\ tickets[t] = "active"
  /\ tickets' = [tickets EXCEPT ![t] = "cancelled"]
  /\ standing' = [c \in Calls |-> standing[c] \ {t}]
  /\ UNCHANGED maker

Create(t, by) ==
  /\ tickets[t] = "absent"
  /\ tickets' = [tickets EXCEPT ![t] = "active"]
  /\ maker' = [maker EXCEPT ![t] = by]
  /\ UNCHANGED standing

ApplyReserve(c) ==
  /\ req[c].op = "reserve"
  /\ \E t \in Tickets : Create(t, c) /\ Resolve(c, "applied", AppliedReplies(c, t))
  /\ UNCHANGED <<client, ctx>>

ApplyCancel(c) ==
  /\ req[c].op = "cancel"
  /\ Resolve(c, "applied", AppliedReplies(c, NoTicket))
  /\ SetCancelled(req[c].ticket)
  /\ UNCHANGED <<client, ctx>>

RefuseWrite(c) ==
  /\ Resolve(c, "refused", RefusedReplies(c))
  /\ UNCHANGED <<client, ctx, upstream>>

\* The request is lost, and the client will only learn it by its timeout.
LoseWrite(c) ==
  /\ write[c] = "pending"
  /\ write' = [write EXCEPT ![c] = "lost"]
  /\ UNCHANGED <<client, ctx, answer, upstream>>

\* A gateway answers while the write is still on its way.
AnswerEarly(c) ==
  /\ write[c] = "pending"
  /\ Waits(c)
  /\ \E r \in EarlyReplies(c) : answer' = [answer EXCEPT ![c] = r]
  /\ UNCHANGED <<client, ctx, write, upstream>>

AnswerQuery(c) ==
  /\ answer[c] = NoReply
  /\ \/ pc[c] = "waiting" /\ req[c].op \in Reads
     \/ pc[c] = "reading"
  /\ LET op == IF pc[c] = "reading" THEN "reservations" ELSE req[c].op IN
     \E r \in Replies({NoTicket}, {NoList} \cup TrueLists(op)) : answer' = [answer EXCEPT ![c] = r]
  /\ UNCHANGED <<client, ctx, write, upstream>>

\* The account's other clients: the mini program, another computer.
OthersCreate == \E t \in Tickets : Create(t, Nobody)
                /\ UNCHANGED <<client, ctx, write, answer>>
OthersCancel == \E t \in Tickets : SetCancelled(t)
                /\ UNCHANGED <<client, ctx, write, answer>>

-----------------------------------------------------------------------------
Init ==
  /\ pc = [c \in Calls |-> "idle"]
  /\ req \in [Calls -> {[op |-> "stores", argsOK |-> FALSE, confirm |-> FALSE,
                         ticket |-> NoTicket]}]
  /\ ctx = [c \in Calls |-> "live"]
  /\ result = [c \in Calls |-> Outcome("none", "none", {})]
  /\ write = [c \in Calls |-> "unsent"]
  /\ answer = [c \in Calls |-> NoReply]
  /\ tickets \in [Tickets -> {"absent", "active"}]
  /\ maker = [t \in Tickets |-> Nobody]
  /\ standing = [c \in Calls |-> {}]

\* What Execute does by itself once it has been called.
ClientStep(c) ==
  \/ LoadConfig(c) \/ Send(c) \/ Receive(c) \/ GiveUp(c)
  \/ SendList(c) \/ ReceiveList(c) \/ GiveUpList(c)

WriteStep(c) ==
  \/ ApplyReserve(c) \/ ApplyCancel(c) \/ RefuseWrite(c) \/ LoseWrite(c)
  \/ AnswerEarly(c)

Next ==
  \/ \E c \in Calls :
       \/ \E r \in Workload : Execute(c, r)
       \/ ClientStep(c)
       \/ CancelContext(c)
       \/ WriteStep(c)
       \/ AnswerQuery(c)
  \/ OthersCreate
  \/ OthersCancel

Spec == Init /\ [][Next]_vars

\* Execute is ordinary Go code: it never stops by itself between two steps,
\* and every wait for the network ends, at the latest with the client's 15
\* second timeout (GiveUp).  Nothing is assumed of upstream or network.
FairSpec == Spec /\ \A c \in Calls : WF_vars(ClientStep(c))

-----------------------------------------------------------------------------
(***************************************************************************)
(* Properties.                                                             *)
(***************************************************************************)

\* The type invariant: what Execute keeps per call and what upstream holds.
TypeOK ==
  /\ pc \in [Calls -> PCs]
  /\ req \in [Calls -> Requests]
  /\ ctx \in [Calls -> {"live", "cancelled"}]
  /\ result \in [Calls -> Results]
  /\ write \in [Calls -> Fates]
  /\ answer \in [Calls -> {NoReply} \cup Reply]
  /\ tickets \in [Tickets -> {"absent", "active", "cancelled"}]
  /\ maker \in [Tickets -> Calls \cup {Nobody}]
  /\ standing \in [Calls -> SUBSET Tickets]

Ended(c, state) == pc[c] = "done" /\ result[c].state = state
MadeBy(c) == {t \in Tickets : maker[t] = c}

\* A call that reports "failed" has changed nothing, and nothing it sent can
\* still take effect: the classification in Client.request calls an answer
\* definite only when the write is dead, however late it would have landed.
FailedNeverLands ==
  \A c \in Calls : Ended(c, "failed") =>
    write[c] \notin {"pending", "applied"} /\ MadeBy(c) = {}

\* A reserve that reports "confirmed" names the ticket its own request
\* created, never one that another client or call made; a cancel that does
\* names its own ticket, and that ticket is cancelled.
ConfirmedWasDone ==
  \A c \in Calls : Ended(c, "confirmed") =>
    /\ req[c].op = "reserve" => result[c].data = MadeBy(c) /\ MadeBy(c) # {}
    /\ req[c].op = "cancel" =>
         /\ result[c].data = {req[c].ticket}
         /\ tickets[req[c].ticket] = "cancelled"

\* One authorised call creates at most one ticket and no call that was not
\* confirmed by the user sends anything that can change upstream, through
\* errors, retries, reconciliation and cancellation alike.
AtMostOneEffect ==
  \A c \in Calls :
    /\ Cardinality(MadeBy(c)) <= 1
    /\ write[c] # "unsent" => req[c].op \in Writes /\ req[c].confirm
    /\ MadeBy(c) # {} => write[c] = "applied"

\* A reservation list that reaches the caller, as the answer of
\* "reservations" or as the observations of an uncertain write, has every
\* ticket that was active while it was fetched, the one the call itself
\* created before it looked among them: an answer that cannot be read is an
\* error and never an empty list.
ListsAreComplete ==
  \A c \in Calls :
    /\ Ended(c, "confirmed") /\ req[c].op = "reservations" =>
         standing[c] \subseteq result[c].data
    /\ Ended(c, "uncertain") /\ result[c].obs # NoList =>
         standing[c] \subseteq Named(result[c].obs)

\* An uncertain answer is given only for a write, and always with the
\* outcome of exactly one reconciliation: observations or its error.
UncertainIsReconciled ==
  \A c \in Calls : Ended(c, "uncertain") =>
    /\ req[c].op \in Writes
    /\ (result[c].obs # NoList) # (result[c].rerr # "none")

\* Every call of Execute returns, whatever upstream and network do.
EveryCallEnds == \A c \in Calls : (pc[c] # "idle") ~> (pc[c] = "done")

-----------------------------------------------------------------------------
(***************************************************************************)
(* Why the safety properties hold: the parts of the inductive invariant.   *)
(***************************************************************************)

\* Past validation a request is authorised; a write that left was.
Authorised ==
  \A c \in Calls :
    /\ pc[c] \notin {"idle", "done"} => ValidateRequest(req[c])
    /\ write[c] # "unsent" => req[c].op \in Writes /\ ValidateRequest(req[c])
    /\ pc[c] \in {"idle", "loading", "sending"} => write[c] = "unsent"

\* An answer waits only for a call that waits for it; what Execute has in
\* hand while it reconciles is an uncertain write.
Waiting ==
  \A c \in Calls :
    /\ answer[c] # NoReply => pc[c] \in {"waiting", "reading"}
    /\ pc[c] \in {"reconciling", "reading"} =>
         /\ req[c].op \in Writes
         /\ result[c].state = "uncertain"
         /\ result[c].obs = NoList /\ result[c].rerr = "none"

\* A ticket made by a call is its only one, and the mark of an applied write.
Makers ==
  \A c \in Calls : \A t \in Tickets : maker[t] = c =>
    /\ tickets[t] # "absent"
    /\ write[c] = "applied" /\ req[c].op = "reserve"
    /\ \A u \in Tickets : maker[u] = c => u = t

\* U1 to U3 keep holding until the answer is read: a refusal stays true, and
\* so do the ticket it names and the cancellations it lists.
AnswersAreTrue ==
  \A c \in Calls : answer[c] # NoReply =>
    /\ pc[c] = "waiting" /\ req[c].op \in Writes /\ SaysRefused(answer[c]) =>
         write[c] = "refused"
    /\ pc[c] = "waiting" /\ req[c].op = "reserve" /\ SaysCreated(answer[c]) =>
         maker[answer[c].ticket] = c
    /\ pc[c] = "reading" /\ answer[c].list # NoList =>
         \A t \in Tickets :
           [ticket |-> t, status |-> "cancelled"] \in answer[c].list =>
             tickets[t] = "cancelled"
    /\ /\ pc[c] = "reading" \/ req[c].op = "reservations"
       /\ answer[c].list # NoList
       => standing[c] \subseteq Named(answer[c].list)

\* The tickets a list must have are active, as long as it can be answered.
StandingIsActive == \A c \in Calls : standing[c] \subseteq Active

\* The inductive invariant: no verdict is wrong and no list incomplete,
\* because no answer in flight lies and none is read after it was withdrawn.
IndInv ==
  /\ TypeOK
  /\ Authorised
  /\ Waiting
  /\ Makers
  /\ AnswersAreTrue
  /\ StandingIsActive
  /\ FailedNeverLands
  /\ ConfirmedWasDone
  /\ ListsAreComplete
  /\ UncertainIsReconciled
=============================================================================
