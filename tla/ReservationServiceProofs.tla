---------------------- MODULE ReservationServiceProofs ----------------------
(***************************************************************************)
(* The safety properties of ReservationService, for any number of calls,   *)
(* tickets, requests and kinds of answer.                                  *)
(***************************************************************************)
EXTENDS ReservationRefinement, FiniteSetTheorems, TLAPS

-----------------------------------------------------------------------------
(***************************************************************************)
(* The classification of answers (client.go:71-124 and its callers).       *)
(***************************************************************************)

\* Every client method returns a well-formed error.
LEMMA ErrorType ==
  ASSUME NEW op \in Ops, NEW reply \in Reply
  PROVE  OperationError(op, reply) \in [code: ErrorCodes, uncertain: BOOLEAN]
BY DEF OperationError, Reserve, Cancel, Query, request, businessError,
       HTTPError, Err, None, ErrorCodes, Reply, ReplyRecord, BusinessCodes, Success, Statuses

\* An answer that ends a write with a definite error says it was refused.
LEMMA DefiniteIsRefused ==
  ASSUME NEW op \in Writes, NEW reply \in Reply,
         OperationError(op, reply) # None,
         ~OperationError(op, reply).uncertain
  PROVE  SaysRefused(reply)
<1> DEFINE e == request(reply, TRUE)
<1>1. e # None /\ ~e.uncertain
  <2>1. CASE op = "reserve"
    <3>1. Reserve(reply) # None /\ ~Reserve(reply).uncertain
      BY <2>1 DEF OperationError
    <3>2. Reserve(reply) # Err("invalid_response", TRUE)
      BY <3>1 DEF Err
    <3>. QED BY <3>1, <3>2 DEF Reserve
  <2>2. CASE op = "cancel"
    BY <2>2 DEF OperationError, Cancel
  <2>. QED BY <2>1, <2>2 DEF Writes
<1>2. reply.status \in 200..599 /\ reply.code \in BusinessCodes
  BY DEF Reply, ReplyRecord, Statuses
<1>3. reply.form # "cut"
  BY <1>1 DEF request, Err
<1>4. CASE reply.code \in {"E044", "E052"}
  BY <1>3, <1>4 DEF SaysRefused
<1>5. CASE reply.code \notin {"E044", "E052"} /\ ~Success(reply.status)
  <2>1. e = HTTPError(reply.status, TRUE)
    BY <1>3, <1>5 DEF request
  <2>2. ~(reply.status >= 500 \/ reply.status = 408)
    <3>1. HTTPError(reply.status, TRUE).uncertain
            = (reply.status >= 500 \/ reply.status = 408)
      BY DEF HTTPError, Err
    <3>. QED BY <1>1, <2>1, <3>1
  <2>3. reply.status \in 300..499 \ {408}
    BY <1>2, <1>5, <2>2 DEF Success
  <2>. QED BY <1>3, <2>3 DEF SaysRefused
<1>6. CASE reply.code \notin {"E044", "E052"} /\ Success(reply.status)
  <2>1. e = businessError(reply)
    BY <1>1, <1>3, <1>6 DEF request, Err
  <2>2. reply.code = "other"
    BY <1>1, <1>2, <1>6, <2>1 DEF businessError, Err, None, BusinessCodes
  <2>. QED BY <1>3, <1>6, <2>2 DEF SaysRefused
<1>. QED BY <1>4, <1>5, <1>6

\* A reserve succeeds only on an answer that says the ticket was created.
LEMMA SuccessIsCreated ==
  ASSUME NEW reply \in Reply,
         OperationError("reserve", reply) = None
  PROVE  SaysCreated(reply) /\ reply.ticket \in Tickets
BY DEF OperationError, Reserve, request, businessError, HTTPError, Err, None,
       Reply, ReplyRecord, WellFormed, BusinessCodes, Success, SaysCreated, Statuses, Forms

\* A query succeeds only on a well-formed list.
LEMMA QueryHasList ==
  ASSUME NEW reply \in Reply,
         Query(reply) = None
  PROVE  reply.list \in Lists
BY DEF Query, Err, None, Reply, ReplyRecord

\* What upstream sends is an answer.
LEMMA RepliesType ==
  ASSUME NEW S, NEW L,
         S \subseteq {NoTicket} \cup Tickets, L \subseteq {NoList} \cup Lists
  PROVE  Replies(S, L) \subseteq Reply
BY ShapesAssumption DEF Replies, Reply, ReplyRecord

-----------------------------------------------------------------------------
(***************************************************************************)
(* Type correctness.                                                       *)
(***************************************************************************)

LEMMA OutcomeType ==
  ASSUME NEW state \in States, NEW code \in ErrorCodes,
         NEW data \in SUBSET Tickets
  PROVE  /\ Outcome(state, code, data) \in Results
         /\ Failed(code) \in Results
BY DEF Outcome, Failed, Results, States, ErrorCodes

\* The switch of Execute leaves a program counter and a well-formed result.
LEMMA SettleType ==
  ASSUME TypeOK, NEW c \in Calls, NEW data \in SUBSET Tickets,
         NEW e \in [code: ErrorCodes, uncertain: BOOLEAN],
         Settle(c, e, data)
  PROVE  pc' \in [Calls -> PCs] /\ result' \in [Calls -> Results]
<1> DEFINE op == req[c].op
<1>1. /\ Cause(op, e) \in ErrorCodes
      /\ PublicCode(op, e.code) \in ErrorCodes
  BY DEF Cause, PublicCode, ErrorCodes
<1>2. /\ Outcome("uncertain", Cause(op, e), {}) \in Results
      /\ Outcome("confirmed", "none", data) \in Results
      /\ Failed(PublicCode(op, e.code)) \in Results
  BY <1>1, OutcomeType DEF States, ErrorCodes
<1>3. CASE NeedsReconcile(op, e)
  BY <1>2, <1>3 DEF Settle, TypeOK, PCs
<1>4. CASE ~NeedsReconcile(op, e)
  BY <1>2, <1>4 DEF Settle, TypeOK, PCs
<1>. QED BY <1>3, <1>4

LEMMA TypeInit == Init => TypeOK
<1> SUFFICES ASSUME Init PROVE TypeOK
  OBVIOUS
<1>1. Outcome("none", "none", {}) \in Results
  BY OutcomeType DEF States, ErrorCodes
<1>2. [op |-> "stores", argsOK |-> FALSE, confirm |-> FALSE,
       ticket |-> NoTicket] \in Requests
  BY DEF Requests, Ops, Reads
<1>3. /\ pc \in [Calls -> PCs] /\ ctx \in [Calls -> {"live", "cancelled"}]
      /\ write \in [Calls -> Fates] /\ answer \in [Calls -> {NoReply} \cup Reply]
      /\ tickets \in [Tickets -> {"absent", "active", "cancelled"}]
      /\ maker \in [Tickets -> Calls \cup {Nobody}]
      /\ standing \in [Calls -> SUBSET Tickets]
  BY DEF Init, PCs, Fates
<1>4. req \in [Calls -> Requests] /\ result \in [Calls -> Results]
  BY <1>1, <1>2 DEF Init
<1>. QED BY <1>3, <1>4 DEF TypeOK

\* A signal, or the MCP client, cuts off some of the calls.
Cut ==
  /\ ctx' \in [Calls -> {"live", "cancelled"}]
  /\ \A c \in Calls : ctx[c] = "cancelled" => ctx'[c] = "cancelled"
  /\ UNCHANGED <<client, write, answer, upstream>>

\* Any step of the service, whatever the callers ask for and whoever is cut
\* off: Next, and what the interactive loop does with the calls.
Step ==
  \/ \E c \in Calls :
       \/ \E r \in Requests : Execute(c, r)
       \/ ClientStep(c)
       \/ Cut
       \/ WriteStep(c)
       \/ AnswerQuery(c)
  \/ OthersCreate
  \/ OthersCancel

LEMMA NextIsStep == TypeOK /\ [Next]_vars => [Step]_vars
<1> SUFFICES ASSUME TypeOK, Next PROVE Step
  OBVIOUS
<1>1. ASSUME NEW c \in Calls, CancelContext(c)
      PROVE  Cut
  BY <1>1 DEF CancelContext, Cut, TypeOK
<1>. QED BY <1>1, WorkloadAssumption DEF Next, Step

LEMMA TypeNext == TypeOK /\ [Step]_vars => TypeOK'
<1> SUFFICES ASSUME TypeOK, [Step]_vars PROVE TypeOK'
  OBVIOUS
<1> USE DEF TypeOK, client, upstream
<1>1. ASSUME NEW c \in Calls, NEW r \in Requests, Execute(c, r)
      PROVE  TypeOK'
  <2>1. Failed("invalid_arguments") \in Results
    BY OutcomeType DEF States, ErrorCodes
  <2>. QED BY <1>1, <2>1 DEF Execute, PCs
<1>2. ASSUME NEW c \in Calls, LoadConfig(c)
      PROVE  TypeOK'
  <2>1. \A op \in Ops : \A outcome \in DOMAIN LoadTable(op) :
          LoadTable(op)[outcome] \in ErrorCodes
    BY DEF LoadTable, PublicLoad, PersonalLoad, ErrorCodes
  <2>2. \A code \in ErrorCodes : Failed(code) \in Results
    BY OutcomeType DEF States
  <2>3. req[c].op \in Ops
    BY DEF Requests
  <2>. QED BY <1>2, <2>1, <2>2, <2>3 DEF LoadConfig, PCs
<1>3. ASSUME NEW c \in Calls, Send(c)
      PROVE  TypeOK'
  BY <1>3 DEF Send, PCs, Fates, Active
<1>4. ASSUME NEW c \in Calls, Receive(c)
      PROVE  TypeOK'
  <2> DEFINE op == req[c].op
             e == OperationError(op, answer[c])
             data == IF e = None /\ op # "cancel"
                     THEN OperationData(op, answer[c]) ELSE {}
  <2>1. op \in Ops /\ answer[c] \in Reply
    BY <1>4 DEF Receive, Requests
  <2>2. e \in [code: ErrorCodes, uncertain: BOOLEAN]
    BY <2>1, ErrorType
  <2>3. data \in SUBSET Tickets
    <3>1. CASE e = None /\ op = "reserve"
      BY <2>1, <3>1, SuccessIsCreated DEF OperationData
    <3>2. CASE e = None /\ op \notin {"reserve", "cancel"}
      <4>1. answer[c].list \in Lists
        BY <2>1, <3>2, QueryHasList DEF OperationError
      <4>. QED BY <3>2, <4>1 DEF OperationData, Named, Lists, Entry
    <3>. QED BY <3>1, <3>2
  <2>4. pc' \in [Calls -> PCs] /\ result' \in [Calls -> Results]
    <3>1. Settle(c, e, data)
      BY <1>4 DEF Receive
    <3>. QED BY <2>2, <2>3, <3>1, SettleType
  <2>. QED BY <1>4, <2>4 DEF Receive
<1>5. ASSUME NEW c \in Calls, GiveUp(c)
      PROVE  TypeOK'
  <2> DEFINE e == Err("transport_error", req[c].op \in Writes)
  <2>1. e \in [code: ErrorCodes, uncertain: BOOLEAN]
    BY DEF Err, ErrorCodes
  <2>2. pc' \in [Calls -> PCs] /\ result' \in [Calls -> Results]
    BY <1>5, <2>1, SettleType DEF GiveUp
  <2>. QED BY <1>5, <2>2 DEF GiveUp
<1>6. ASSUME NEW c \in Calls, SendList(c)
      PROVE  TypeOK'
  BY <1>6 DEF SendList, PCs, Active
<1>7. ASSUME NEW c \in Calls, ReceiveList(c)
      PROVE  TypeOK'
  <2> DEFINE e == Query(answer[c])
  <2>1. answer[c] \in Reply /\ req[c] \in Requests
    BY <1>7 DEF ReceiveList
  <2>2. e.code \in ErrorCodes
    <3>1. "reservations" \in Ops
      BY DEF Ops, Reads
    <3>2. OperationError("reservations", answer[c])
            \in [code: ErrorCodes, uncertain: BOOLEAN]
      BY <2>1, <3>1, ErrorType
    <3>. QED BY <3>2 DEF OperationError
  <2>3. CASE e # None
    <3>1. [result[c] EXCEPT !.rerr = e.code] \in Results
      BY <2>2 DEF Results
    <3>2. result' = [result EXCEPT ![c] = [result[c] EXCEPT !.rerr = e.code]]
      BY <1>7, <2>3 DEF ReceiveList
    <3>3. result' \in [Calls -> Results]
      BY <3>1, <3>2
    <3>. QED BY <1>7, <3>3 DEF ReceiveList, PCs
  <2>4. CASE e = None /\ ProvesCancelled(req[c], answer[c].list)
    <3>1. req[c].ticket \in Tickets
      BY <2>1, <2>4, QueryHasList DEF ProvesCancelled, Lists, Entry
    <3>2. Outcome("confirmed", "none", {req[c].ticket}) \in Results
      BY <3>1, OutcomeType DEF States, ErrorCodes
    <3>. QED BY <1>7, <2>4, <3>2 DEF ReceiveList, PCs
  <2>5. CASE e = None /\ ~ProvesCancelled(req[c], answer[c].list)
    <3>1. answer[c].list \in Lists
      BY <2>1, <2>5, QueryHasList
    <3>. QED BY <1>7, <2>5, <3>1 DEF ReceiveList, Results, PCs
  <2>. QED BY <2>3, <2>4, <2>5
<1>8. ASSUME NEW c \in Calls, GiveUpList(c)
      PROVE  TypeOK'
  <2>1. [result[c] EXCEPT !.rerr = "transport_error"] \in Results
    BY DEF Results, ErrorCodes
  <2>2. result' \in [Calls -> Results]
    BY <1>8, <2>1 DEF GiveUpList
  <2>. QED BY <1>8, <2>2 DEF GiveUpList, PCs
<1>9. ASSUME NEW c \in Calls, Cut
      PROVE  TypeOK'
  BY <1>9 DEF Cut
<1>10. ASSUME NEW c \in Calls, WriteStep(c)
       PROVE  TypeOK'
  <2>1. WriteReplies \subseteq Reply
    BY RepliesType DEF WriteReplies
  <2>2. \A t : /\ AppliedReplies(c, t) \subseteq Reply
               /\ RefusedReplies(c) \subseteq Reply
               /\ EarlyReplies(c) \subseteq Reply
    BY <2>1 DEF AppliedReplies, RefusedReplies, EarlyReplies
  <2>3. CASE ApplyReserve(c)
    BY <2>2, <2>3 DEF ApplyReserve, Create, Resolve, Fates
  <2>4. CASE ApplyCancel(c)
    <3>1. /\ write' \in [Calls -> Fates]
          /\ answer' \in [Calls -> {NoReply} \cup Reply]
      BY <2>2, <2>4 DEF ApplyCancel, Resolve, Fates
    <3>2. /\ tickets' \in [Tickets -> {"absent", "active", "cancelled"}]
          /\ maker' \in [Tickets -> Calls \cup {Nobody}]
          /\ standing' \in [Calls -> SUBSET Tickets]
      BY <2>4 DEF ApplyCancel, SetCancelled
    <3>. QED BY <2>4, <3>1, <3>2 DEF ApplyCancel
  <2>5. CASE RefuseWrite(c)
    BY <2>2, <2>5 DEF RefuseWrite, Resolve, Fates
  <2>6. CASE LoseWrite(c)
    BY <2>6 DEF LoseWrite, Fates
  <2>7. CASE AnswerEarly(c)
    BY <2>2, <2>7 DEF AnswerEarly
  <2>. QED BY <1>10, <2>3, <2>4, <2>5, <2>6, <2>7 DEF WriteStep
<1>11. ASSUME NEW c \in Calls, AnswerQuery(c)
       PROVE  TypeOK'
  <2>1. \A op : TrueLists(op) \subseteq Lists
    BY DEF TrueLists, Known, Lists, Entry
  <2>2. \A op : Replies({NoTicket}, {NoList} \cup TrueLists(op)) \subseteq Reply
    BY <2>1, RepliesType
  <2>. QED BY <1>11, <2>2 DEF AnswerQuery
<1>12. CASE OthersCreate
  BY <1>12 DEF OthersCreate, Create
<1>13. CASE OthersCancel
  BY <1>13 DEF OthersCancel, SetCancelled
<1>14. CASE UNCHANGED vars
  BY <1>14 DEF vars
<1>. QED
  BY <1>1, <1>2, <1>3, <1>4, <1>5, <1>6, <1>7, <1>8, <1>9, <1>10, <1>11,
     <1>12, <1>13, <1>14 DEF Step, ClientStep

\* Execute and everything it talks to keep their types.
THEOREM TypeCorrect == Spec => []TypeOK
<1>. QED BY TypeInit, TypeNext, NextIsStep, PTL DEF Spec

-----------------------------------------------------------------------------
(***************************************************************************)
(* The inductive invariant, one part at a time.                            *)
(***************************************************************************)

LEMMA IndInvInit == Init => IndInv
<1> SUFFICES ASSUME Init PROVE IndInv
  OBVIOUS
<1>1. TypeOK
  BY TypeInit
<1>2. Makers
  BY NobodyAssumption DEF Init, Makers
<1>3. Authorised /\ Waiting /\ AnswersAreTrue /\ StandingIsActive
  BY DEF Init, Authorised, Waiting, AnswersAreTrue, StandingIsActive
<1>4. /\ FailedNeverLands /\ ConfirmedWasDone
      /\ ListsAreComplete /\ UncertainIsReconciled
  BY DEF Init, FailedNeverLands, ConfirmedWasDone, ListsAreComplete,
         UncertainIsReconciled, Ended
<1>. QED BY <1>1, <1>2, <1>3, <1>4 DEF IndInv

\* Nothing leaves before validation and sending.
LEMMA AuthorisedNext ==
  ASSUME TypeOK, Authorised, [Step]_vars
  PROVE  Authorised'
<1> USE DEF Authorised, TypeOK, client, upstream
<1>1. ASSUME NEW c \in Calls, NEW r \in Requests, Execute(c, r)
      PROVE  Authorised'
  BY <1>1 DEF Execute, ValidateRequest
<1>2. ASSUME NEW c \in Calls, LoadConfig(c)
      PROVE  Authorised'
  BY <1>2 DEF LoadConfig
<1>3. ASSUME NEW c \in Calls, Send(c)
      PROVE  Authorised'
  BY <1>3 DEF Send, ValidateRequest
<1>4. ASSUME NEW c \in Calls, Receive(c)
      PROVE  Authorised'
  BY <1>4 DEF Receive, Settle
<1>5. ASSUME NEW c \in Calls, GiveUp(c)
      PROVE  Authorised'
  BY <1>5 DEF GiveUp, Settle
<1>6. ASSUME NEW c \in Calls, SendList(c) \/ ReceiveList(c) \/ GiveUpList(c)
      PROVE  Authorised'
  BY <1>6 DEF SendList, ReceiveList, GiveUpList
<1>7. ASSUME NEW c \in Calls, Cut \/ AnswerQuery(c)
      PROVE  Authorised'
  BY <1>7 DEF Cut, AnswerQuery
<1>8. ASSUME NEW c \in Calls, WriteStep(c)
      PROVE  Authorised'
  BY <1>8 DEF WriteStep, ApplyReserve, ApplyCancel, RefuseWrite, LoseWrite,
              AnswerEarly, Resolve
<1>9. CASE OthersCreate \/ OthersCancel
  BY <1>9 DEF OthersCreate, OthersCancel
<1>10. CASE UNCHANGED vars
  BY <1>10 DEF vars
<1>. QED
  BY <1>1, <1>2, <1>3, <1>4, <1>5, <1>6, <1>7, <1>8, <1>9, <1>10
     DEF Step, ClientStep

\* Answers go to those who wait; reconciliation holds an uncertain result.
LEMMA WaitingNext ==
  ASSUME TypeOK, Waiting, [Step]_vars
  PROVE  Waiting'
<1> USE DEF Waiting, TypeOK, client, upstream
<1>1. ASSUME NEW c \in Calls, NEW r \in Requests, Execute(c, r)
      PROVE  Waiting'
  BY <1>1 DEF Execute
<1>2. ASSUME NEW c \in Calls, LoadConfig(c)
      PROVE  Waiting'
  BY <1>2 DEF LoadConfig
<1>3. ASSUME NEW c \in Calls, Send(c)
      PROVE  Waiting'
  BY <1>3 DEF Send
<1>4. ASSUME NEW c \in Calls, Receive(c)
      PROVE  Waiting'
  BY <1>4 DEF Receive, Settle, NeedsReconcile, Outcome, Results, Writes
<1>5. ASSUME NEW c \in Calls, GiveUp(c)
      PROVE  Waiting'
  BY <1>5 DEF GiveUp, Settle, NeedsReconcile, Outcome, Results, Writes
<1>6. ASSUME NEW c \in Calls, SendList(c) \/ ReceiveList(c) \/ GiveUpList(c)
      PROVE  Waiting'
  BY <1>6 DEF SendList, ReceiveList, GiveUpList
<1>7. ASSUME NEW c \in Calls, Cut \/ AnswerQuery(c)
      PROVE  Waiting'
  BY <1>7 DEF Cut, AnswerQuery
<1>8. ASSUME NEW c \in Calls, WriteStep(c)
      PROVE  Waiting'
  BY <1>8 DEF WriteStep, ApplyReserve, ApplyCancel, RefuseWrite, LoseWrite,
              AnswerEarly, Resolve, Waits
<1>9. CASE OthersCreate \/ OthersCancel
  BY <1>9 DEF OthersCreate, OthersCancel
<1>10. CASE UNCHANGED vars
  BY <1>10 DEF vars
<1>. QED
  BY <1>1, <1>2, <1>3, <1>4, <1>5, <1>6, <1>7, <1>8, <1>9, <1>10
     DEF Step, ClientStep

\* A call makes a ticket only by its one write, and nobody takes it over.
LEMMA MakersNext ==
  ASSUME TypeOK, Authorised, Makers, [Step]_vars
  PROVE  Makers'
<1> USE DEF Makers, TypeOK, client, upstream
<1>1. ASSUME NEW c \in Calls, NEW r \in Requests, Execute(c, r)
      PROVE  Makers'
  BY <1>1 DEF Execute, Authorised
<1>2. ASSUME NEW c \in Calls, LoadConfig(c) \/ Receive(c) \/ GiveUp(c)
      PROVE  Makers'
  BY <1>2 DEF LoadConfig, Receive, GiveUp
<1>3. ASSUME NEW c \in Calls, Send(c)
      PROVE  Makers'
  BY <1>3 DEF Send, Authorised
<1>6. ASSUME NEW c \in Calls, SendList(c) \/ ReceiveList(c) \/ GiveUpList(c)
      PROVE  Makers'
  BY <1>6 DEF SendList, ReceiveList, GiveUpList
<1>7. ASSUME NEW c \in Calls, Cut \/ AnswerQuery(c)
      PROVE  Makers'
  BY <1>7 DEF Cut, AnswerQuery
<1>8. ASSUME NEW c \in Calls, WriteStep(c)
      PROVE  Makers'
  <2>1. CASE ApplyReserve(c)
    <3>1. PICK t \in Tickets : Create(t, c) /\ write[c] = "pending"
                               /\ write' = [write EXCEPT ![c] = "applied"]
      BY <2>1 DEF ApplyReserve, Resolve
    <3>2. \A u \in Tickets : maker[u] # c
      BY <3>1
    <3>. QED BY <2>1, <3>1, <3>2 DEF ApplyReserve, Create
  <2>2. CASE ApplyCancel(c)
    BY <2>2 DEF ApplyCancel, SetCancelled, Resolve
  <2>3. CASE RefuseWrite(c) \/ LoseWrite(c) \/ AnswerEarly(c)
    BY <2>3 DEF RefuseWrite, LoseWrite, AnswerEarly, Resolve
  <2>. QED BY <1>8, <2>1, <2>2, <2>3 DEF WriteStep
<1>9. CASE OthersCreate
  BY <1>9, NobodyAssumption DEF OthersCreate, Create
<1>10. CASE OthersCancel
  BY <1>10 DEF OthersCancel, SetCancelled
<1>11. CASE UNCHANGED vars
  BY <1>11 DEF vars
<1>. QED
  BY <1>1, <1>2, <1>3, <1>6, <1>7, <1>8, <1>9, <1>10, <1>11
     DEF Step, ClientStep

\* What a list must show stays active until it is answered.
LEMMA StandingNext ==
  ASSUME TypeOK, StandingIsActive, [Step]_vars
  PROVE  StandingIsActive'
<1> USE DEF StandingIsActive, Active, TypeOK, client, upstream
<1>1. ASSUME NEW c \in Calls, NEW r \in Requests, Execute(c, r)
      PROVE  StandingIsActive'
  BY <1>1 DEF Execute
<1>2. ASSUME NEW c \in Calls, LoadConfig(c) \/ Receive(c) \/ GiveUp(c)
      PROVE  StandingIsActive'
  BY <1>2 DEF LoadConfig, Receive, GiveUp
<1>3. ASSUME NEW c \in Calls, Send(c) \/ SendList(c)
      PROVE  StandingIsActive'
  BY <1>3 DEF Send, SendList
<1>4. ASSUME NEW c \in Calls, ReceiveList(c) \/ GiveUpList(c)
      PROVE  StandingIsActive'
  BY <1>4 DEF ReceiveList, GiveUpList
<1>5. ASSUME NEW c \in Calls, Cut \/ AnswerQuery(c)
      PROVE  StandingIsActive'
  BY <1>5 DEF Cut, AnswerQuery
<1>6. ASSUME NEW c \in Calls, WriteStep(c)
      PROVE  StandingIsActive'
  BY <1>6 DEF WriteStep, ApplyReserve, ApplyCancel, RefuseWrite, LoseWrite,
              AnswerEarly, Create, SetCancelled
<1>7. CASE OthersCreate \/ OthersCancel
  BY <1>7 DEF OthersCreate, OthersCancel, Create, SetCancelled
<1>8. CASE UNCHANGED vars
  BY <1>8 DEF vars
<1>. QED
  BY <1>1, <1>2, <1>3, <1>4, <1>5, <1>6, <1>7, <1>8 DEF Step, ClientStep

\* No answer in flight lies: what upstream may say about a write depends on
\* what it did with it, and no later step makes it untrue.
LEMMA AnswersNext ==
  ASSUME TypeOK, Authorised, Waiting, Makers, StandingIsActive,
         AnswersAreTrue, [Step]_vars
  PROVE  AnswersAreTrue'
<1> USE DEF AnswersAreTrue, TypeOK, client, upstream
<1>1. ASSUME NEW c \in Calls, NEW r \in Requests, Execute(c, r)
      PROVE  AnswersAreTrue'
  BY <1>1 DEF Execute, Waiting
<1>2. ASSUME NEW c \in Calls, LoadConfig(c)
      PROVE  AnswersAreTrue'
  BY <1>2 DEF LoadConfig, Waiting
<1>3. ASSUME NEW c \in Calls, Send(c) \/ SendList(c)
      PROVE  AnswersAreTrue'
  BY <1>3 DEF Send, SendList, Waiting
<1>4. ASSUME NEW c \in Calls,
             Receive(c) \/ GiveUp(c) \/ ReceiveList(c) \/ GiveUpList(c)
      PROVE  AnswersAreTrue'
  <2>1. /\ answer' = [answer EXCEPT ![c] = NoReply]
        /\ \A d \in Calls \ {c} : pc'[d] = pc[d]
        /\ UNCHANGED <<req, write, tickets, maker, standing>>
    BY <1>4 DEF Receive, GiveUp, ReceiveList, GiveUpList, Settle
  <2>. QED BY <2>1
<1>5. ASSUME NEW c \in Calls, Cut
      PROVE  AnswersAreTrue'
  BY <1>5 DEF Cut
<1>6. ASSUME NEW c \in Calls, WriteStep(c)
      PROVE  AnswersAreTrue'
  <2>1. CASE ApplyReserve(c)
    <3>1. PICK t \in Tickets : Create(t, c) /\ Resolve(c, "applied", AppliedReplies(c, t))
      BY <2>1 DEF ApplyReserve
    <3>2. \A d \in Calls : maker[t] # d
      BY <3>1 DEF Makers, Create
    <3>3. \A u \in Tickets : maker[u] # c
      BY <3>1 DEF Makers, Resolve
    <3>4. ASSUME NEW d \in Calls \ {c}, answer[d] # NoReply
          PROVE  /\ answer'[d] = answer[d] /\ write'[d] = write[d]
                 /\ \A u \in Tickets : maker[u] = d => maker'[u] = d
                 /\ \A u \in Tickets : tickets[u] = "cancelled" => tickets'[u] = "cancelled"
      BY <3>1, <3>2 DEF Create, Resolve
    <3>5. CASE Waits(c)
      <4>1. PICK r \in AppliedReplies(c, t) : answer' = [answer EXCEPT ![c] = r]
        BY <3>1, <3>5 DEF Resolve
      <4>2. ~SaysRefused(r) /\ (SaysCreated(r) => r.ticket = t)
        BY <2>1, <4>1 DEF AppliedReplies, ApplyReserve
      <4>. QED
        BY <2>1, <3>1, <3>4, <3>5, <4>1, <4>2
           DEF ApplyReserve, Create, Waits, SaysCreated
    <3>6. CASE ~Waits(c)
      <4>1. UNCHANGED answer
        BY <3>1, <3>6 DEF Resolve
      <4>2. write[c] = "pending"
        BY <3>1 DEF Resolve
      <4>3. answer[c] # NoReply => answer[c] \in Reply
        OBVIOUS
      <4>4. pc[c] = "waiting" /\ answer[c] # NoReply =>
              ~SaysRefused(answer[c]) /\ ~SaysCreated(answer[c])
        BY <2>1, <3>3, <4>2, <4>3
           DEF ApplyReserve, Writes, SaysCreated, Reply, ReplyRecord
      <4>5. pc[c] # "reading" \/ answer[c] = NoReply \/ standing'[c] = standing[c]
        BY <3>1 DEF Create
      <4>. QED BY <2>1, <3>1, <3>4, <4>1, <4>2, <4>4, <4>5 DEF ApplyReserve, Create
    <3>. QED BY <3>5, <3>6
  <2>2. CASE ApplyCancel(c)
    <3>1. /\ Resolve(c, "applied", AppliedReplies(c, NoTicket))
          /\ SetCancelled(req[c].ticket)
          /\ req[c].op = "cancel"
      BY <2>2 DEF ApplyCancel
    <3>2. \A r \in AppliedReplies(c, NoTicket) : ~SaysRefused(r)
      BY DEF AppliedReplies
    <3>. QED BY <2>2, <3>1, <3>2 DEF ApplyCancel, Resolve, SetCancelled, Waits
  <2>3. CASE RefuseWrite(c)
    <3>1. \A r \in RefusedReplies(c) : req[c].op = "reserve" => ~SaysCreated(r)
      BY DEF RefusedReplies
    <3>2. req[c].op \in Writes
      BY <2>3 DEF RefuseWrite, Resolve, Authorised
    <3>. QED BY <2>3, <3>1, <3>2 DEF RefuseWrite, Resolve, Waits, Writes
  <2>4. CASE LoseWrite(c)
    BY <2>4 DEF LoseWrite
  <2>5. CASE AnswerEarly(c)
    <3>1. \A r \in EarlyReplies(c) :
            ~SaysRefused(r) /\ (req[c].op = "reserve" => ~SaysCreated(r))
      BY DEF EarlyReplies, RefusedReplies
    <3>2. req[c].op \in Writes
      BY <2>5 DEF AnswerEarly, Authorised
    <3>. QED BY <2>5, <3>1, <3>2 DEF AnswerEarly, Waits, Writes
  <2>. QED BY <1>6, <2>1, <2>2, <2>3, <2>4, <2>5 DEF WriteStep
<1>7. ASSUME NEW c \in Calls, AnswerQuery(c)
      PROVE  AnswersAreTrue'
  <2> DEFINE op == IF pc[c] = "reading" THEN "reservations" ELSE req[c].op
  <2>1. PICK r \in Replies({NoTicket}, {NoList} \cup TrueLists(op)) :
          answer' = [answer EXCEPT ![c] = r]
    BY <1>7 DEF AnswerQuery
  <2>2. r.list # NoList => r.list \in TrueLists(op)
    BY <2>1 DEF Replies
  <2>3. op = "reservations" /\ r.list # NoList =>
          /\ r.list \subseteq Known
          /\ standing[c] \subseteq Named(r.list)
    BY <2>2 DEF TrueLists, PublicOps, StandingIsActive
  <2>4. \A t \in Tickets : [ticket |-> t, status |-> "cancelled"] \in Known =>
          tickets[t] = "cancelled"
    BY DEF Known
  <2>. QED BY <1>7, <2>1, <2>3, <2>4 DEF AnswerQuery, Writes, Reads
<1>8. CASE OthersCreate
  BY <1>8 DEF OthersCreate, Create, Makers, SaysCreated, Reply, ReplyRecord
<1>9. CASE OthersCancel
  BY <1>9 DEF OthersCancel, SetCancelled
<1>10. CASE UNCHANGED vars
  BY <1>10 DEF vars
<1>. QED
  BY <1>1, <1>2, <1>3, <1>4, <1>5, <1>6, <1>7, <1>8, <1>9, <1>10
     DEF Step, ClientStep

-----------------------------------------------------------------------------
(***************************************************************************)
(* The verdicts.                                                           *)
(***************************************************************************)

\* An error that is not nil has a code.
LEMMA QueryErrorHasCode ==
  ASSUME NEW reply \in Reply, Query(reply) # None
  PROVE  Query(reply).code # "none"
BY DEF Query, request, businessError, HTTPError, Err, None, Success

\* What the end of an operation means, for the call that ends: a failed write
\* was refused, a reserve was created, and a list shows what stands.
LEMMA ReceiveVerdict ==
  ASSUME TypeOK, Authorised, Makers, AnswersAreTrue,
         NEW c \in Calls, Receive(c)
  PROVE  /\ result'[c].state = "failed" =>
              write[c] \notin {"pending", "applied"} /\ MadeBy(c) = {}
         /\ result'[c].state = "confirmed" =>
              /\ req[c].op # "cancel"
              /\ req[c].op = "reserve" =>
                   result'[c].data = MadeBy(c) /\ MadeBy(c) # {}
              /\ req[c].op = "reservations" => standing[c] \subseteq result'[c].data
         /\ pc'[c] = "done" => result'[c].state \in {"failed", "confirmed"}
<1> DEFINE op == req[c].op
           reply == answer[c]
           e == OperationError(op, reply)
           data == IF e = None /\ op # "cancel" THEN OperationData(op, reply) ELSE {}
<1>1. /\ pc[c] = "waiting" /\ reply \in Reply /\ reply # NoReply /\ op \in Ops
      /\ Settle(c, e, data)
  BY DEF Receive, TypeOK, Requests
<1>2. CASE NeedsReconcile(op, e)
  BY <1>1, <1>2 DEF Settle, Outcome, TypeOK
<1>3. CASE ~NeedsReconcile(op, e) /\ e = None
  <2>1. result'[c] = Outcome("confirmed", "none", data)
    BY <1>1, <1>3 DEF Settle, TypeOK
  <2>2. op # "cancel"
    BY <1>3 DEF NeedsReconcile
  <2>3. CASE op = "reserve"
    <3>1. SaysCreated(reply) /\ reply.ticket \in Tickets
      BY <1>1, <1>3, <2>3, SuccessIsCreated
    <3>2. MadeBy(c) = {reply.ticket}
      BY <1>1, <2>3, <3>1 DEF AnswersAreTrue, Makers, MadeBy
    <3>3. data = {reply.ticket}
      BY <1>3, <2>3 DEF OperationData
    <3>. QED BY <2>1, <2>3, <3>2, <3>3 DEF Outcome
  <2>4. CASE op # "reserve"
    <3>1. reply.list \in Lists
      BY <1>1, <1>3, <2>2, <2>4, QueryHasList DEF OperationError
    <3>2. op = "reservations" => standing[c] \subseteq Named(reply.list)
      BY <1>1, <3>1, NoListAssumption DEF AnswersAreTrue
    <3>3. data = Named(reply.list)
      BY <1>3, <2>2, <2>4 DEF OperationData
    <3>. QED BY <2>1, <2>2, <2>4, <3>2, <3>3 DEF Outcome
  <2>. QED BY <2>3, <2>4
<1>4. CASE ~NeedsReconcile(op, e) /\ e # None
  <2>1. result'[c].state = "failed"
    BY <1>1, <1>4 DEF Settle, TypeOK, Failed, Outcome
  <2>2. write[c] \notin {"pending", "applied"}
    <3>1. CASE op \in Writes
      <4>1. ~e.uncertain
        BY <1>4, <3>1 DEF NeedsReconcile, Writes
      <4>2. SaysRefused(reply)
        BY <1>1, <1>4, <3>1, <4>1, DefiniteIsRefused
      <4>. QED BY <1>1, <3>1, <4>2 DEF AnswersAreTrue
    <3>2. CASE op \notin Writes
      BY <3>2 DEF Authorised
    <3>. QED BY <3>1, <3>2
  <2>3. MadeBy(c) = {}
    BY <2>2 DEF MadeBy, Makers
  <2>. QED BY <2>1, <2>2, <2>3
<1>. QED BY <1>2, <1>3, <1>4

\* Giving up ends a read as failed and leaves a write uncertain.
LEMMA GiveUpVerdict ==
  ASSUME TypeOK, Authorised, Makers, NEW c \in Calls, GiveUp(c)
  PROVE  /\ pc'[c] = "done" =>
              /\ result'[c].state = "failed"
              /\ write[c] \notin {"pending", "applied"} /\ MadeBy(c) = {}
         /\ pc'[c] # "done" => pc'[c] = "reconciling"
<1> DEFINE op == req[c].op
           e == Err("transport_error", op \in Writes)
<1>1. Settle(c, e, {})
  BY DEF GiveUp
<1>2. CASE op \in Writes
  <2>1. e.uncertain
    BY <1>2 DEF Err
  <2>2. NeedsReconcile(op, e)
    BY <1>2, <2>1 DEF NeedsReconcile, Writes
  <2>. QED BY <1>1, <2>2 DEF Settle, TypeOK
<1>3. CASE op \notin Writes
  <2>1. e # None
    BY DEF Err, None
  <2>2. ~NeedsReconcile(op, e)
    BY <1>3 DEF NeedsReconcile, Writes
  <2>3. write[c] = "unsent" /\ MadeBy(c) = {}
    BY <1>3 DEF Authorised, Makers, MadeBy
  <2>. QED BY <1>1, <2>1, <2>2, <2>3 DEF Settle, TypeOK, Failed, Outcome
<1>. QED BY <1>2, <1>3

\* Reconciliation confirms nothing but a cancellation it has seen; otherwise
\* the write stays uncertain, with what was seen or why nothing was.
LEMMA ReceiveListVerdict ==
  ASSUME TypeOK, Waiting, AnswersAreTrue, NEW c \in Calls, ReceiveList(c)
  PROVE  /\ req[c].op \in Writes /\ result'[c].state \in {"confirmed", "uncertain"}
         /\ result'[c].state = "confirmed" =>
              /\ req[c].op = "cancel" /\ result'[c].data = {req[c].ticket}
              /\ req[c].ticket \in Tickets
              /\ tickets[req[c].ticket] = "cancelled"
         /\ result'[c].state = "uncertain" =>
              /\ (result'[c].obs # NoList) # (result'[c].rerr # "none")
              /\ result'[c].obs # NoList => standing[c] \subseteq Named(result'[c].obs)
<1> DEFINE reply == answer[c]
           e == Query(reply)
<1>1. /\ pc[c] = "reading" /\ reply \in Reply /\ reply # NoReply
      /\ result[c] \in Results /\ req[c].op \in Writes
      /\ result[c].state = "uncertain"
      /\ result[c].obs = NoList /\ result[c].rerr = "none"
  BY DEF ReceiveList, Waiting, TypeOK
<1>2. CASE e # None
  <2>1. result'[c] = [result[c] EXCEPT !.rerr = e.code]
    BY <1>2 DEF ReceiveList, TypeOK
  <2>2. /\ result'[c].state = "uncertain"
        /\ result'[c].obs = NoList /\ result'[c].rerr = e.code
    BY <1>1, <2>1 DEF Results
  <2>3. e.code # "none"
    BY <1>1, <1>2, QueryErrorHasCode
  <2>. QED BY <1>1, <2>2, <2>3
<1>3. CASE e = None /\ ProvesCancelled(req[c], reply.list)
  <2>1. result'[c] = Outcome("confirmed", "none", {req[c].ticket})
    BY <1>3 DEF ReceiveList, TypeOK
  <2>2. reply.list \in Lists /\ reply.list # NoList
    BY <1>1, <1>3, QueryHasList, NoListAssumption
  <2>3. req[c].op = "cancel" /\ req[c].ticket \in Tickets
    BY <1>3, <2>2 DEF ProvesCancelled, Lists, Entry
  <2>4. tickets[req[c].ticket] = "cancelled"
    BY <1>1, <1>3, <2>2, <2>3 DEF AnswersAreTrue, ProvesCancelled
  <2>. QED BY <1>1, <2>1, <2>3, <2>4 DEF Outcome
<1>4. CASE e = None /\ ~ProvesCancelled(req[c], reply.list)
  <2>1. result'[c] = [result[c] EXCEPT !.obs = reply.list]
    BY <1>4 DEF ReceiveList, TypeOK
  <2>2. /\ result'[c].state = "uncertain"
        /\ result'[c].obs = reply.list /\ result'[c].rerr = "none"
    BY <1>1, <2>1 DEF Results
  <2>3. reply.list # NoList
    BY <1>1, <1>4, QueryHasList, NoListAssumption
  <2>4. standing[c] \subseteq Named(reply.list)
    BY <1>1, <2>3 DEF AnswersAreTrue
  <2>. QED BY <1>1, <2>2, <2>3, <2>4
<1>. QED BY <1>2, <1>3, <1>4

\* What a returned call has said stays as true as it was: its result and its
\* dead write do not change, nor do the tickets it made, a cancelled ticket
\* stays cancelled, and no ticket becomes one its list should have had.
LEMMA DoneIsFinal ==
  ASSUME TypeOK, Authorised, Makers, [Step]_vars,
         NEW d \in Calls, pc[d] = "done"
  PROVE  /\ pc'[d] = "done" /\ result'[d] = result[d] /\ req'[d] = req[d]
         /\ write[d] \notin {"pending", "applied"} => write'[d] = write[d]
         /\ write[d] # "pending" => MadeBy(d)' = MadeBy(d)
         /\ standing'[d] \subseteq standing[d]
         /\ \A t \in Tickets : tickets[t] = "cancelled" => tickets'[t] = "cancelled"
<1> USE DEF TypeOK, client, upstream, MadeBy
<1> DEFINE Final ==
      /\ pc'[d] = "done" /\ result'[d] = result[d] /\ req'[d] = req[d]
      /\ write[d] \notin {"pending", "applied"} => write'[d] = write[d]
      /\ write[d] # "pending" => MadeBy(d)' = MadeBy(d)
      /\ standing'[d] \subseteq standing[d]
      /\ \A t \in Tickets : tickets[t] = "cancelled" => tickets'[t] = "cancelled"
<1>1. ASSUME NEW c \in Calls, NEW r \in Requests, Execute(c, r)
      PROVE  Final
  BY <1>1 DEF Execute
<1>2. ASSUME NEW c \in Calls, ClientStep(c)
      PROVE  Final
  <2>1. c # d
    BY <1>2 DEF ClientStep, LoadConfig, Send, Receive, GiveUp, SendList,
                ReceiveList, GiveUpList
  <2>2. CASE LoadConfig(c) \/ Receive(c) \/ GiveUp(c)
    BY <2>1, <2>2 DEF LoadConfig, Receive, GiveUp, Settle
  <2>3. CASE Send(c) \/ SendList(c) \/ ReceiveList(c) \/ GiveUpList(c)
    BY <2>1, <2>3 DEF Send, SendList, ReceiveList, GiveUpList
  <2>. QED BY <1>2, <2>2, <2>3 DEF ClientStep
<1>3. ASSUME NEW c \in Calls, Cut \/ AnswerQuery(c)
      PROVE  Final
  BY <1>3 DEF Cut, AnswerQuery
<1>4. ASSUME NEW c \in Calls, WriteStep(c)
      PROVE  Final
  <2>1. CASE ApplyReserve(c)
    <3>1. PICK t \in Tickets : Create(t, c)
      BY <2>1 DEF ApplyReserve
    <3>2. write[c] = "pending" /\ maker[t] # d
      BY <2>1, <3>1 DEF ApplyReserve, Resolve, Create, Makers
    <3>. QED BY <2>1, <3>1, <3>2 DEF ApplyReserve, Create, Resolve
  <2>2. CASE ApplyCancel(c)
    BY <2>2 DEF ApplyCancel, SetCancelled, Resolve
  <2>3. CASE RefuseWrite(c) \/ LoseWrite(c) \/ AnswerEarly(c)
    BY <2>3 DEF RefuseWrite, LoseWrite, AnswerEarly, Resolve
  <2>. QED BY <1>4, <2>1, <2>2, <2>3 DEF WriteStep
<1>5. CASE OthersCreate
  BY <1>5, NobodyAssumption DEF OthersCreate, Create, Makers
<1>6. CASE OthersCancel
  BY <1>6 DEF OthersCancel, SetCancelled
<1>7. CASE UNCHANGED vars
  BY <1>7 DEF vars
<1>. QED BY <1>1, <1>2, <1>3, <1>4, <1>5, <1>6, <1>7 DEF Step

\* A call that returns in this step tells the truth.
LEMMA NewVerdict ==
  ASSUME TypeOK, Authorised, Waiting, Makers, AnswersAreTrue, StandingIsActive,
         [Step]_vars, NEW d \in Calls, pc[d] # "done", pc'[d] = "done"
  PROVE  /\ result'[d].state = "failed" =>
              write'[d] \notin {"pending", "applied"} /\ MadeBy(d)' = {}
         /\ result'[d].state = "confirmed" =>
              /\ req'[d].op = "reserve" =>
                   result'[d].data = MadeBy(d)' /\ MadeBy(d)' # {}
              /\ req'[d].op = "cancel" =>
                   /\ result'[d].data = {req'[d].ticket}
                   /\ tickets'[req'[d].ticket] = "cancelled"
              /\ req'[d].op = "reservations" => standing'[d] \subseteq result'[d].data
         /\ result'[d].state = "uncertain" =>
              /\ req'[d].op \in Writes
              /\ (result'[d].obs # NoList) # (result'[d].rerr # "none")
              /\ result'[d].obs # NoList => standing'[d] \subseteq Named(result'[d].obs)
<1>1. CASE \E r \in Requests : Execute(d, r)
  <2>1. result'[d].state = "failed" /\ UNCHANGED <<write, maker>>
    BY <1>1 DEF Execute, TypeOK, Failed, Outcome, upstream
  <2>2. write[d] = "unsent" /\ MadeBy(d) = {}
    BY <1>1 DEF Execute, Authorised, Makers, MadeBy
  <2>. QED BY <2>1, <2>2 DEF MadeBy
<1>2. CASE LoadConfig(d)
  <2>1. result'[d].state = "failed" /\ UNCHANGED <<write, maker>>
    BY <1>2 DEF LoadConfig, TypeOK, Failed, Outcome, upstream
  <2>2. write[d] = "unsent" /\ MadeBy(d) = {}
    BY <1>2 DEF LoadConfig, Authorised, Makers, MadeBy
  <2>. QED BY <2>1, <2>2 DEF MadeBy
<1>3. CASE Receive(d)
  <2>1. UNCHANGED <<req, write, tickets, maker, standing>>
    BY <1>3 DEF Receive, upstream
  <2>. QED BY <1>3, <2>1, ReceiveVerdict DEF MadeBy
<1>4. CASE GiveUp(d)
  <2>1. UNCHANGED <<req, write, tickets, maker, standing>>
    BY <1>4 DEF GiveUp, upstream
  <2>. QED BY <1>4, <2>1, GiveUpVerdict DEF MadeBy
<1>5. CASE ReceiveList(d)
  <2>1. UNCHANGED <<req, write, tickets, maker, standing>>
    BY <1>5 DEF ReceiveList, upstream
  <2>2. req[d].op \notin {"reservations"} \/ req[d].op \notin Writes
    BY DEF Writes
  <2>. QED BY <1>5, <2>1, <2>2, ReceiveListVerdict DEF MadeBy
<1>6. CASE GiveUpList(d)
  <2>1. result[d] \in Results /\ result' = [result EXCEPT ![d].rerr = "transport_error"]
    BY <1>6 DEF GiveUpList, TypeOK
  <2>2. /\ result'[d].state = result[d].state /\ result'[d].obs = result[d].obs
        /\ result'[d].rerr = "transport_error"
    BY <2>1 DEF TypeOK, Results
  <2>3. /\ result[d].state = "uncertain" /\ result[d].obs = NoList
        /\ req[d].op \in Writes /\ req' = req
    BY <1>6 DEF GiveUpList, Waiting
  <2>. QED BY <2>2, <2>3
<1>7. \/ \E r \in Requests : Execute(d, r)
      \/ LoadConfig(d) \/ Receive(d) \/ GiveUp(d) \/ ReceiveList(d) \/ GiveUpList(d)
  <2>1. CASE \E c \in Calls : c # d /\ ((\E r \in Requests : Execute(c, r)) \/ ClientStep(c))
    BY <2>1 DEF TypeOK, Execute, ClientStep, LoadConfig, Send, Receive, GiveUp,
                Settle, SendList, ReceiveList, GiveUpList
  <2>2. CASE Send(d) \/ SendList(d)
    BY <2>2 DEF TypeOK, Send, SendList
  <2>3. CASE UNCHANGED pc
    BY <2>3
  <2>4. ASSUME NEW c \in Calls, Cut \/ WriteStep(c) \/ AnswerQuery(c)
        PROVE  UNCHANGED pc
    BY <2>4 DEF Cut, WriteStep, AnswerQuery, ApplyReserve, ApplyCancel,
                RefuseWrite, LoseWrite, AnswerEarly, client
  <2>5. OthersCreate \/ OthersCancel \/ UNCHANGED vars => UNCHANGED pc
    BY DEF OthersCreate, OthersCancel, vars, client
  <2>. QED BY <2>1, <2>2, <2>3, <2>4, <2>5 DEF Step, ClientStep
<1>. QED BY <1>1, <1>2, <1>3, <1>4, <1>5, <1>6, <1>7

\* Each step keeps the inductive invariant.
LEMMA IndInvNext == IndInv /\ [Step]_vars => IndInv'
<1> SUFFICES ASSUME IndInv, [Step]_vars PROVE IndInv'
  OBVIOUS
<1>1. /\ TypeOK /\ Authorised /\ Waiting /\ Makers /\ AnswersAreTrue
      /\ StandingIsActive
  BY DEF IndInv
<1>2. TypeOK' /\ Authorised' /\ Waiting' /\ Makers' /\ StandingIsActive'
  BY <1>1, TypeNext, AuthorisedNext, WaitingNext, MakersNext, StandingNext
<1>3. AnswersAreTrue'
  BY <1>1, AnswersNext
<1>4. ASSUME NEW c \in Calls, pc'[c] = "done"
      PROVE  /\ result'[c].state = "failed" =>
                  write'[c] \notin {"pending", "applied"} /\ MadeBy(c)' = {}
             /\ result'[c].state = "confirmed" =>
                  /\ req'[c].op = "reserve" =>
                       result'[c].data = MadeBy(c)' /\ MadeBy(c)' # {}
                  /\ req'[c].op = "cancel" =>
                       /\ result'[c].data = {req'[c].ticket}
                       /\ tickets'[req'[c].ticket] = "cancelled"
                  /\ req'[c].op = "reservations" => standing'[c] \subseteq result'[c].data
             /\ result'[c].state = "uncertain" =>
                  /\ req'[c].op \in Writes
                  /\ (result'[c].obs # NoList) # (result'[c].rerr # "none")
                  /\ result'[c].obs # NoList =>
                       standing'[c] \subseteq Named(result'[c].obs)
  <2>1. CASE pc[c] # "done"
    BY <1>1, <1>4, <2>1, NewVerdict
  <2>2. CASE pc[c] = "done"
    <3> DEFINE state == result[c].state
    <3>1. /\ result'[c] = result[c] /\ req'[c] = req[c]
          /\ write[c] \notin {"pending", "applied"} => write'[c] = write[c]
          /\ write[c] # "pending" => MadeBy(c)' = MadeBy(c)
          /\ standing'[c] \subseteq standing[c]
          /\ \A t \in Tickets : tickets[t] = "cancelled" => tickets'[t] = "cancelled"
      BY <1>1, <2>2, DoneIsFinal
    <3>2. state = "failed" =>
            write'[c] \notin {"pending", "applied"} /\ MadeBy(c)' = {}
      BY <2>2, <3>1 DEF IndInv, FailedNeverLands, Ended
    <3>3. state = "confirmed" /\ req[c].op = "reserve" =>
            result'[c].data = MadeBy(c)' /\ MadeBy(c)' # {}
      <4>1. MadeBy(c) # {} => write[c] # "pending"
        BY <1>1 DEF Makers, MadeBy
      <4>. QED BY <2>2, <3>1, <4>1 DEF IndInv, ConfirmedWasDone, Ended
    <3>4. state = "confirmed" /\ req[c].op = "cancel" =>
            result'[c].data = {req'[c].ticket} /\ tickets'[req'[c].ticket] = "cancelled"
      <4>1. result[c].data \subseteq Tickets
        BY <1>1 DEF TypeOK, Results
      <4>. QED BY <2>2, <3>1, <4>1 DEF IndInv, ConfirmedWasDone, Ended
    <3>5. state = "confirmed" /\ req[c].op = "reservations" =>
            standing'[c] \subseteq result'[c].data
      BY <2>2, <3>1 DEF IndInv, ListsAreComplete, Ended
    <3>6. state = "uncertain" =>
            /\ req'[c].op \in Writes
            /\ (result'[c].obs # NoList) # (result'[c].rerr # "none")
            /\ result'[c].obs # NoList =>
                 standing'[c] \subseteq Named(result'[c].obs)
      BY <2>2, <3>1 DEF IndInv, UncertainIsReconciled, ListsAreComplete, Ended
    <3>. QED BY <3>1, <3>2, <3>3, <3>4, <3>5, <3>6
  <2>. QED BY <2>1, <2>2
<1>5. /\ FailedNeverLands' /\ ConfirmedWasDone'
      /\ ListsAreComplete' /\ UncertainIsReconciled'
  BY <1>4 DEF FailedNeverLands, ConfirmedWasDone, ListsAreComplete,
              UncertainIsReconciled, Ended
<1>. QED BY <1>2, <1>3, <1>5 DEF IndInv

\* The inductive invariant holds in every reachable state.
THEOREM Invariance == Spec => []IndInv
<1>1. IndInv /\ [Next]_vars => IndInv'
  BY IndInvNext, NextIsStep DEF IndInv
<1>. QED BY <1>1, IndInvInit, PTL DEF Spec

\* "failed" means that the write has not happened and never will.
THEOREM FailedIsFinal == Spec => []FailedNeverLands
<1>1. IndInv => FailedNeverLands
  BY DEF IndInv
<1>. QED BY <1>1, Invariance, PTL

\* "confirmed" means that what was asked for was done: a reserve created the
\* ticket it names, a cancel names its own, cancelled ticket.
THEOREM ConfirmedIsTrue == Spec => []ConfirmedWasDone
<1>1. IndInv => ConfirmedWasDone
  BY DEF IndInv
<1>. QED BY <1>1, Invariance, PTL

\* No list that reaches a caller misses a ticket that stood while it was read.
THEOREM ListsComplete == Spec => []ListsAreComplete
<1>1. IndInv => ListsAreComplete
  BY DEF IndInv
<1>. QED BY <1>1, Invariance, PTL

\* "uncertain" is said of writes only, with the evidence of one reconciliation.
THEOREM UncertainHasEvidence == Spec => []UncertainIsReconciled
<1>1. IndInv => UncertainIsReconciled
  BY DEF IndInv
<1>. QED BY <1>1, Invariance, PTL

LEMMA OneEffectEach == IndInv => AtMostOneEffect
<1> SUFFICES ASSUME IndInv, NEW c \in Calls
             PROVE  /\ Cardinality(MadeBy(c)) <= 1
                    /\ write[c] # "unsent" => req[c].op \in Writes /\ req[c].confirm
                    /\ MadeBy(c) # {} => write[c] = "applied"
  BY DEF AtMostOneEffect
<1>1. Cardinality(MadeBy(c)) <= 1
  <2>1. CASE MadeBy(c) = {}
    BY <2>1, FS_EmptySet
  <2>2. CASE MadeBy(c) # {}
    <3>1. PICK t \in Tickets : MadeBy(c) = {t}
      BY <2>2 DEF IndInv, Makers, MadeBy
    <3>2. Cardinality({t}) = 1
      BY FS_Singleton
    <3>. QED BY <3>1, <3>2
  <2>. QED BY <2>1, <2>2
<1>2. write[c] # "unsent" => req[c].op \in Writes /\ req[c].confirm
  BY DEF IndInv, Authorised, ValidateRequest
<1>3. MadeBy(c) # {} => write[c] = "applied"
  BY DEF IndInv, Makers, MadeBy
<1>. QED BY <1>1, <1>2, <1>3

\* One call has at most one effect, and none without the user's word.
THEOREM OneEffect == Spec => []AtMostOneEffect
<1>. QED BY OneEffectEach, Invariance, PTL

-----------------------------------------------------------------------------
(***************************************************************************)
(* ReservationService implements WriteContract: each step of a call, of    *)
(* upstream or of the other clients is a step of the contract or none.     *)
(***************************************************************************)

\* Nothing has landed, and nobody has been answered.
LEMMA ContractInit == Init => Contract!Init
<1> SUFFICES ASSUME Init PROVE Contract!Init
  OBVIOUS
<1>1. \A c \in Calls : FateOf(c) = "open"
  BY DEF Init, FateOf
<1>2. \A c \in Calls : HoldsFor(c) = FALSE
  BY DEF Init, HoldsFor
<1>3. \A c \in Calls : VerdictOf(c) = "none"
  BY DEF Init, VerdictOf
<1>. QED BY <1>1, <1>2, <1>3 DEF Contract!Init

\* A step that concerns call c alone, and neither upstream nor its tickets,
\* leaves the abstract state of every other call as it is.
LEMMA Frame ==
  ASSUME TypeOK, NEW c \in Calls, NEW d \in Calls \ {c},
         pc'[d] = pc[d], req'[d] = req[d], result'[d] = result[d],
         write'[d] = write[d], UNCHANGED <<tickets, maker>>
  PROVE  FateOf(d)' = FateOf(d) /\ HoldsFor(d)' = HoldsFor(d) /\ VerdictOf(d)' = VerdictOf(d)
BY DEF FateOf, HoldsFor, VerdictOf, MadeBy

\* The abstract actions, in terms of the mapping.
LEMMA ContractSteps ==
  ASSUME NEW c \in Calls,
         \A d \in Calls \ {c} : FateOf(d)' = FateOf(d) /\ VerdictOf(d)' = VerdictOf(d),
         \A d \in Calls : HoldsFor(d) => HoldsFor(d)',
         HoldsFor(c)' \in BOOLEAN
  PROVE  /\ /\ FateOf(c) = "open" /\ VerdictOf(c) # "failed"
            /\ FateOf(c)' = "landed" /\ HoldsFor(c)' /\ VerdictOf(c)' = VerdictOf(c)
            => Contract!Land(c)
         /\ /\ VerdictOf(c) = "none" /\ FateOf(c) # "landed"
            /\ FateOf(c)' = "dead" /\ VerdictOf(c)' = "failed"
            => Contract!Fail(c)
         /\ /\ FateOf(c)' = FateOf(c) /\ VerdictOf(c)' = VerdictOf(c)
            => Contract!Others
<1> USE DEF Contract!Grows
<1>1. [d \in Calls |-> HoldsFor(d)]' \in [Calls -> BOOLEAN]
  BY DEF HoldsFor
<1>2. \A d \in Calls : [e \in Calls |-> HoldsFor(e)][d] => [e \in Calls |-> HoldsFor(e)]'[d]
  OBVIOUS
<1>. QED BY <1>1, <1>2 DEF Contract!Land, Contract!Fail, Contract!Others

LEMMA ContractQuietSteps ==
  ASSUME NEW c \in Calls,
         \A d \in Calls \ {c} : FateOf(d)' = FateOf(d) /\ VerdictOf(d)' = VerdictOf(d),
         \A d \in Calls : HoldsFor(d)' = HoldsFor(d)
  PROVE  /\ /\ FateOf(c) = "open" /\ FateOf(c)' = "dead"
            /\ VerdictOf(c)' = VerdictOf(c)
            => Contract!Die(c)
         /\ /\ FateOf(c)' = FateOf(c) /\ VerdictOf(c) = "none"
            /\ VerdictOf(c)' = "confirmed" /\ HoldsFor(c)
            => Contract!Confirm(c)
         /\ /\ FateOf(c)' = FateOf(c) /\ VerdictOf(c) = "none"
            /\ VerdictOf(c)' = "uncertain"
            => Contract!Doubt(c)
         /\ FateOf(c)' = FateOf(c) /\ VerdictOf(c)' = VerdictOf(c)
            => UNCHANGED Contract!vars
<1>1. [d \in Calls |-> HoldsFor(d)]' = [d \in Calls |-> HoldsFor(d)]
  OBVIOUS
<1>. QED
  BY <1>1 DEF Contract!Die, Contract!Confirm, Contract!Doubt, Contract!vars

LEMMA ContractNext ==
  ASSUME IndInv, IndInv', [Step]_vars
  PROVE  Contract!Next \/ UNCHANGED Contract!vars
<1>1. /\ TypeOK /\ TypeOK' /\ Authorised /\ Authorised' /\ Makers /\ Waiting
      /\ AnswersAreTrue /\ FailedNeverLands /\ FailedNeverLands'
      /\ ConfirmedWasDone'
  BY DEF IndInv
<1> DEFINE Maps == Contract!Next \/ UNCHANGED Contract!vars
<1>2. ASSUME NEW c \in Calls,
             Contract!Land(c) \/ Contract!Die(c) \/ Contract!Confirm(c)
               \/ Contract!Fail(c) \/ Contract!Doubt(c) \/ Contract!Others
      PROVE  Contract!Next
  BY <1>2 DEF Contract!Next
<1>3. ASSUME NEW c \in Calls, NEW r \in Requests, Execute(c, r)
      PROVE  Maps
  <2>1. /\ \A d \in Calls \ {c} : /\ FateOf(d)' = FateOf(d) /\ HoldsFor(d)' = HoldsFor(d)
                                  /\ VerdictOf(d)' = VerdictOf(d)
        /\ FateOf(c) = "open" /\ VerdictOf(c) = "none" /\ write'[c] = "unsent"
        /\ req'[c] = r
    BY <1>1, <1>3, Frame DEF Execute, upstream, TypeOK, FateOf, VerdictOf, Authorised
  <2>2. ~HoldsFor(c) /\ VerdictOf(c)' \in {"none", "failed"}
    BY <1>1, <1>3 DEF Execute, HoldsFor, VerdictOf, TypeOK, Failed, Outcome
  <2>3. CASE ValidateRequest(r)
    <3>1. FateOf(c)' = "open" /\ VerdictOf(c)' = "none"
      BY <1>1, <1>3, <2>1, <2>3 DEF Execute, TypeOK, FateOf, VerdictOf
    <3>2. Contract!Others
      BY <2>1, <2>2, <3>1, ContractSteps DEF HoldsFor
    <3>. QED BY <1>2, <3>2
  <2>4. CASE ~ValidateRequest(r)
    <3>1. pc'[c] = "done" /\ result'[c].state = "failed" /\ FateOf(c)' = "dead"
      BY <1>1, <1>3, <2>1, <2>4 DEF Execute, TypeOK, Failed, Outcome, FateOf
    <3>2. CASE r.op \in Writes
      <4>1. VerdictOf(c)' = "failed"
        BY <2>1, <3>1, <3>2 DEF VerdictOf
      <4>2. Contract!Fail(c)
        BY <2>1, <2>2, <3>1, <4>1, ContractSteps DEF HoldsFor
      <4>. QED BY <1>2, <4>2
    <3>3. CASE r.op \notin Writes
      <4>1. VerdictOf(c)' = "none" /\ ~HoldsFor(c)'
        BY <2>1, <3>3 DEF VerdictOf, HoldsFor, Writes
      <4>2. HoldsFor(c)' = HoldsFor(c)
        BY <2>2, <4>1 DEF HoldsFor
      <4>3. \A d \in Calls : HoldsFor(d)' = HoldsFor(d)
        BY <2>1, <4>2
      <4>4. Contract!Die(c)
        BY <2>1, <3>1, <4>1, <4>3, ContractQuietSteps
      <4>. QED BY <1>2, <4>4
    <3>. QED BY <3>2, <3>3
  <2>. QED BY <2>3, <2>4
<1>4. ASSUME NEW c \in Calls, LoadConfig(c)
      PROVE  Maps
  <2>1. /\ \A d \in Calls \ {c} : /\ FateOf(d)' = FateOf(d) /\ HoldsFor(d)' = HoldsFor(d)
                                  /\ VerdictOf(d)' = VerdictOf(d)
        /\ FateOf(c) = "open" /\ VerdictOf(c) = "none" /\ HoldsFor(c)' = HoldsFor(c)
        /\ write[c] = "unsent"
    BY <1>1, <1>4, Frame
       DEF LoadConfig, upstream, TypeOK, FateOf, VerdictOf, HoldsFor, MadeBy, Authorised
  <2>2. CASE pc'[c] = "sending"
    <3>1. FateOf(c)' = "open" /\ VerdictOf(c)' = "none"
      BY <1>4, <2>1, <2>2 DEF LoadConfig, FateOf, VerdictOf
    <3>. QED BY <2>1, <3>1, ContractQuietSteps
  <2>3. CASE pc'[c] = "done" /\ result'[c].state = "failed"
    <3>1. FateOf(c)' = "dead" /\ VerdictOf(c)' \in {"none", "failed"}
      BY <1>4, <2>1, <2>3 DEF LoadConfig, FateOf, VerdictOf
    <3>2. CASE VerdictOf(c)' = "none"
      BY <1>2, <2>1, <3>1, <3>2, ContractQuietSteps
    <3>3. CASE VerdictOf(c)' = "failed"
      <4>1. Contract!Fail(c)
        BY <2>1, <3>1, <3>3, ContractSteps DEF HoldsFor
      <4>. QED BY <1>2, <4>1
    <3>. QED BY <3>1, <3>2, <3>3
  <2>. QED
    BY <1>1, <1>4, <2>2, <2>3 DEF LoadConfig, TypeOK, Failed, Outcome
<1>5. ASSUME NEW c \in Calls, Send(c)
      PROVE  Maps
  <2>1. /\ \A d \in Calls \ {c} : /\ FateOf(d)' = FateOf(d) /\ HoldsFor(d)' = HoldsFor(d)
                                  /\ VerdictOf(d)' = VerdictOf(d)
        /\ FateOf(c) = "open" /\ VerdictOf(c) = "none" /\ HoldsFor(c)' = HoldsFor(c)
    BY <1>1, <1>5, Frame
       DEF Send, upstream, TypeOK, FateOf, VerdictOf, HoldsFor, MadeBy, Authorised
  <2>2. FateOf(c)' = "open" /\ VerdictOf(c)' = "none"
    BY <1>1, <1>5 DEF Send, FateOf, VerdictOf, TypeOK, Authorised
  <2>. QED BY <2>1, <2>2, ContractQuietSteps
<1>6. ASSUME NEW c \in Calls,
             Receive(c) \/ GiveUp(c) \/ ReceiveList(c) \/ GiveUpList(c)
      PROVE  Maps
  <2>1. /\ \A d \in Calls \ {c} : pc'[d] = pc[d] /\ result'[d] = result[d]
        /\ UNCHANGED <<req, write, tickets, maker, standing>>
        /\ pc[c] \notin {"idle", "loading", "done"}
        /\ pc'[c] \in {"reconciling", "done"}
    BY <1>1, <1>6 DEF Receive, GiveUp, ReceiveList, GiveUpList, Settle, TypeOK, upstream
  <2>2. \A d \in Calls \ {c} : /\ FateOf(d)' = FateOf(d) /\ HoldsFor(d)' = HoldsFor(d)
                               /\ VerdictOf(d)' = VerdictOf(d)
    BY <1>1, <2>1, Frame
  <2>3. HoldsFor(c)' = HoldsFor(c) /\ VerdictOf(c) = "none"
    <3>1. MadeBy(c)' = MadeBy(c) /\ pc[c] # "idle" /\ pc'[c] # "idle"
      BY <2>1 DEF MadeBy
    <3>2. HoldsFor(c)' = HoldsFor(c)
      BY <2>1, <3>1 DEF HoldsFor
    <3>3. VerdictOf(c) = "none"
      BY <2>1 DEF VerdictOf
    <3>. QED BY <3>2, <3>3
  <2>4. FateOf(c)' = FateOf(c) \/ (FateOf(c) = "open" /\ FateOf(c)' = "dead")
    <3>1. CASE write[c] \in {"applied", "pending"}
      BY <2>1, <3>1 DEF FateOf
    <3>2. CASE write[c] \notin {"applied", "pending"}
      <4>1. FateOf(c)' = "dead" /\ FateOf(c) \in {"open", "dead"}
        BY <2>1, <3>2 DEF FateOf
      <4>. QED BY <4>1
    <3>. QED BY <3>1, <3>2
  <2>5. CASE VerdictOf(c)' = "none"
    BY <1>2, <2>2, <2>3, <2>4, <2>5, ContractQuietSteps
  <2>6. CASE VerdictOf(c)' = "failed"
    <3>1. write[c] \notin {"pending", "applied"}
      BY <1>1, <2>1, <2>6 DEF FailedNeverLands, Ended, VerdictOf
    <3>2. FateOf(c) # "landed" /\ FateOf(c)' = "dead"
      BY <1>1, <2>1, <2>6, <3>1 DEF FateOf, VerdictOf
    <3>3. Contract!Fail(c)
      BY <2>2, <2>3, <2>6, <3>2, ContractSteps DEF HoldsFor
    <3>. QED BY <1>2, <3>3
  <2>7. CASE VerdictOf(c)' \in {"confirmed", "uncertain"}
    <3>1. pc'[c] = "done" /\ req[c].op \in Writes
          /\ result'[c].state \in {"confirmed", "uncertain"}
      BY <2>1, <2>7 DEF VerdictOf
    <3>2. pc[c] \in {"reading", "reconciling"} \/ Receive(c)
      <4>1. ~GiveUp(c)
        BY <1>1, <3>1, GiveUpVerdict
      <4>. QED BY <1>6, <4>1 DEF ReceiveList, GiveUpList
    <3>3. VerdictOf(c)' = "confirmed" => HoldsFor(c)
      <4> SUFFICES ASSUME VerdictOf(c)' = "confirmed" PROVE HoldsFor(c)
        OBVIOUS
      <4>1. result'[c].state = "confirmed" /\ req'[c] = req[c] /\ pc[c] # "idle"
        BY <2>1, <3>1 DEF VerdictOf
      <4>2. CASE req[c].op = "reserve"
        <5>1. MadeBy(c)' # {}
          BY <1>1, <3>1, <4>1, <4>2 DEF ConfirmedWasDone, Ended
        <5>. QED BY <2>1, <4>1, <4>2, <5>1 DEF HoldsFor, MadeBy
      <4>3. CASE req[c].op = "cancel"
        <5>1. tickets'[req[c].ticket] = "cancelled"
          BY <1>1, <3>1, <4>1, <4>3 DEF ConfirmedWasDone, Ended
        <5>2. req[c].ticket # NoTicket
          BY <1>1, <2>1, <4>3 DEF Authorised, ValidateRequest, TypeOK, PCs
        <5>. QED BY <2>1, <4>1, <4>3, <5>1, <5>2 DEF HoldsFor
      <4>. QED BY <3>1, <4>2, <4>3 DEF Writes
    <3>4. FateOf(c)' = FateOf(c)
      <4>1. CASE pc[c] \in {"reading", "reconciling"}
        BY <2>1, <3>1, <4>1 DEF FateOf
      <4>2. CASE Receive(c)
        <5>1. result'[c].state = "confirmed" /\ req[c].op = "reserve" /\ MadeBy(c) # {}
          BY <1>1, <3>1, <4>2, ReceiveVerdict DEF Writes
        <5>2. write[c] = "applied"
          BY <1>1, <5>1 DEF Makers, MadeBy
        <5>. QED BY <2>1, <5>2 DEF FateOf
      <4>. QED BY <3>2, <4>1, <4>2
    <3>. QED BY <1>2, <2>2, <2>3, <2>7, <3>3, <3>4, ContractQuietSteps
  <2>8. VerdictOf(c)' \in {"none", "failed", "confirmed", "uncertain"}
    BY <1>1 DEF VerdictOf, TypeOK, Results, States
  <2>. QED BY <2>5, <2>6, <2>7, <2>8
<1>7. ASSUME NEW c \in Calls,
             SendList(c) \/ Cut \/ AnswerQuery(c) \/ AnswerEarly(c)
      PROVE  Maps
  <2>1. \A d \in Calls : /\ FateOf(d)' = FateOf(d) /\ HoldsFor(d)' = HoldsFor(d)
                         /\ VerdictOf(d)' = VerdictOf(d)
    BY <1>1, <1>7
       DEF SendList, Cut, AnswerQuery, AnswerEarly, client, upstream,
           TypeOK, FateOf, HoldsFor, VerdictOf, MadeBy
  <2>. QED BY <2>1, ContractQuietSteps
<1>8. ASSUME NEW c \in Calls, RefuseWrite(c) \/ LoseWrite(c)
      PROVE  Maps
  <2>1. /\ \A d \in Calls \ {c} : /\ FateOf(d)' = FateOf(d)
        /\ \A d \in Calls : HoldsFor(d)' = HoldsFor(d) /\ VerdictOf(d)' = VerdictOf(d)
        /\ FateOf(c) = "open" /\ FateOf(c)' = "dead"
    BY <1>1, <1>8
       DEF RefuseWrite, LoseWrite, Resolve, client, upstream, TypeOK, FateOf,
           HoldsFor, VerdictOf, MadeBy
  <2>2. Contract!Die(c)
    BY <2>1, ContractQuietSteps
  <2>. QED BY <1>2, <2>2
<1>9. ASSUME NEW c \in Calls, ApplyReserve(c) \/ ApplyCancel(c)
      PROVE  Maps
  <2>1. /\ write[c] = "pending" /\ write' = [write EXCEPT ![c] = "applied"]
        /\ UNCHANGED <<pc, req, result>>
    BY <1>9 DEF ApplyReserve, ApplyCancel, Resolve, client
  <2>2. /\ \A d \in Calls \ {c} : FateOf(d)' = FateOf(d)
        /\ \A d \in Calls : VerdictOf(d)' = VerdictOf(d)
        /\ FateOf(c) = "open" /\ FateOf(c)' = "landed"
    BY <1>1, <2>1 DEF TypeOK, FateOf, VerdictOf
  <2>3. VerdictOf(c) # "failed"
    BY <1>1, <2>1 DEF VerdictOf, FailedNeverLands, Ended
  <2>4. pc[c] # "idle" /\ req[c].op \in Writes /\ ValidateRequest(req[c])
        /\ req[c] \in Requests
    BY <1>1, <2>1 DEF Authorised, TypeOK
  <2>5. (\A d \in Calls : HoldsFor(d) => HoldsFor(d)') /\ HoldsFor(c)'
    <3>1. CASE ApplyReserve(c)
      <4>1. PICK t \in Tickets : Create(t, c)
        BY <3>1 DEF ApplyReserve
      <4>2. \A d \in Calls : maker[t] # d
        BY <1>1, <4>1 DEF Create, Makers
      <4>3. \A d \in Calls : MadeBy(d) \subseteq MadeBy(d)'
        BY <1>1, <4>1, <4>2 DEF Create, MadeBy, TypeOK
      <4>4. t \in MadeBy(c)'
        BY <1>1, <4>1 DEF Create, MadeBy, TypeOK
      <4>5. \A u : tickets[u] = "cancelled" => tickets'[u] = "cancelled"
        BY <1>1, <4>1 DEF Create, TypeOK
      <4>. QED
        BY <2>1, <2>4, <3>1, <4>3, <4>4, <4>5 DEF HoldsFor, ApplyReserve
    <3>2. CASE ApplyCancel(c)
      <4>1. req[c].ticket \in Tickets /\ req[c].ticket # NoTicket
        BY <2>4, <3>2, NoTicketAssumption DEF ApplyCancel, ValidateRequest, Requests
      <4>2. SetCancelled(req[c].ticket) /\ req[c].op = "cancel"
        BY <3>2 DEF ApplyCancel
      <4>. QED
        BY <1>1, <2>1, <2>4, <4>1, <4>2
           DEF HoldsFor, SetCancelled, TypeOK, MadeBy, Requests
    <3>. QED BY <1>9, <3>1, <3>2
  <2>6. Contract!Land(c)
    BY <2>2, <2>3, <2>5, ContractSteps DEF HoldsFor
  <2>. QED BY <1>2, <2>6
<1>10. CASE OthersCreate \/ OthersCancel
  <2>1. \A d \in Calls : FateOf(d)' = FateOf(d) /\ VerdictOf(d)' = VerdictOf(d)
    BY <1>10 DEF OthersCreate, OthersCancel, client, FateOf, VerdictOf
  <2>2. \A d \in Calls : HoldsFor(d) => HoldsFor(d)'
    <3>1. CASE OthersCreate
      <4>1. PICK t \in Tickets : Create(t, Nobody) /\ UNCHANGED client
        BY <3>1 DEF OthersCreate
      <4>2. \A d \in Calls : maker[t] # d
        BY <1>1, <4>1 DEF Create, Makers
      <4>3. \A d \in Calls : MadeBy(d) \subseteq MadeBy(d)'
        BY <1>1, <4>1, <4>2 DEF Create, MadeBy, TypeOK
      <4>4. \A u : tickets[u] = "cancelled" => tickets'[u] = "cancelled"
        BY <1>1, <4>1 DEF Create, TypeOK
      <4>. QED BY <4>1, <4>3, <4>4 DEF HoldsFor, client
    <3>2. CASE OthersCancel
      BY <1>1, <3>2
         DEF OthersCancel, SetCancelled, client, HoldsFor, MadeBy, TypeOK
    <3>. QED BY <1>10, <3>1, <3>2
  <2>3. ASSUME Calls # {} PROVE Maps
    <3>1. PICK c \in Calls : TRUE
      BY <2>3
    <3>2. Contract!Others
      BY <2>1, <2>2, <3>1, ContractSteps DEF HoldsFor
    <3>. QED BY <1>2, <3>1, <3>2
  <2>4. ASSUME Calls = {} PROVE Maps
    BY <2>4 DEF Contract!vars
  <2>. QED BY <2>3, <2>4
<1>11. CASE UNCHANGED vars
  BY <1>11 DEF vars, Contract!vars, FateOf, HoldsFor, VerdictOf, MadeBy
<1>. QED
  BY <1>3, <1>4, <1>5, <1>6, <1>7, <1>8, <1>9, <1>10, <1>11
     DEF Step, ClientStep, WriteStep

\* Execute keeps the contract of writes, for any number of concurrent calls.
THEOREM Refinement == Spec => KeepsContract
<1>1. IndInv /\ IndInv' /\ [Next]_vars => [Contract!Next]_(Contract!vars)
  BY ContractNext, NextIsStep DEF IndInv
<1>. QED
  BY <1>1, ContractInit, Invariance, PTL DEF Spec, KeepsContract, Contract!Spec
=============================================================================
