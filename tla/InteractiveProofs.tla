------------------------- MODULE InteractiveProofs -------------------------
(***************************************************************************)
(* The safety properties of Interactive, for any lines, any number of      *)
(* commands and everything upstream may do meanwhile.  Every step of a     *)
(* session is one of the service (Step) or none, so that all that is       *)
(* proved of the service holds of the commands of a session too.           *)
(***************************************************************************)
EXTENDS Interactive, ReservationServiceProofs

\* What was handed to Execute as a write is what the user said "yes" to.
ConsentInv ==
  /\ shell = "confirming" => shown \in Requests
  /\ \A c \in Calls :
       /\ pc[c] # "idle" /\ req[c].op \in Writes => approved[c] = req[c]
       /\ write[c] # "unsent" => pc[c] # "idle" /\ req[c].op \in Writes

\* Where a call that began after the signal may be: never past Send.
Stopped == {"loading", "sending", "reconciling", "done"}

\* At most one call began after the signal, the session's last.
LateInv ==
  /\ late # {} => Interrupted /\ shell \in {"running", "closed"} /\ late = {current}
  /\ \A c \in late : c \in Calls /\ write[c] = "unsent" /\ pc[c] \in Stopped

-----------------------------------------------------------------------------
(* What the steps leave alone. *)

\* Execute validates a request, and sends nothing yet.
LEMMA ExecuteMoves ==
  ASSUME TypeOK, NEW c \in Calls, NEW r \in Requests, Execute(c, r)
  PROVE  /\ TypeOK'
         /\ pc[c] = "idle" /\ pc'[c] \in {"loading", "done"} /\ req'[c] = r
         /\ \A d \in Calls : d # c => pc'[d] = pc[d] /\ req'[d] = req[d]
         /\ UNCHANGED <<ctx, write>>
<1>1. Failed("invalid_arguments") \in Results
  BY OutcomeType DEF States, ErrorCodes
<1>2. TypeOK'
  BY <1>1 DEF Execute, TypeOK, upstream, PCs
<1>. QED BY <1>2 DEF Execute, TypeOK

\* What goes on below the loop.
Below == \/ \E c \in Calls : ClientStep(c) \/ WriteStep(c) \/ AnswerQuery(c)
         \/ OthersCreate
         \/ OthersCancel

LEMMA BelowMoves ==
  ASSUME TypeOK, Below
  PROVE  /\ TypeOK' /\ UNCHANGED <<req, ctx>>
         /\ \A d \in Calls :
              /\ pc'[d] = "idle" <=> pc[d] = "idle"
              /\ \/ write'[d] = write[d]
                 \/ write[d] = "pending"
                 \/ pc[d] = "sending" /\ ctx[d] = "live" /\ req[d].op \in Writes
              /\ ctx[d] = "cancelled" /\ pc[d] \in Stopped => pc'[d] \in Stopped
<1>1. TypeOK'
  BY TypeNext DEF Below, Step
<1> DEFINE Moves == /\ UNCHANGED <<req, ctx>>
                    /\ \A d \in Calls :
                         /\ pc'[d] = "idle" <=> pc[d] = "idle"
                         /\ \/ write'[d] = write[d]
                            \/ write[d] = "pending"
                            \/ pc[d] = "sending" /\ ctx[d] = "live" /\ req[d].op \in Writes
                         /\ ctx[d] = "cancelled" /\ pc[d] \in Stopped => pc'[d] \in Stopped
<1>2. ASSUME NEW c \in Calls, LoadConfig(c)
      PROVE  Moves
  BY <1>2 DEF LoadConfig, TypeOK, Stopped
<1>3. ASSUME NEW c \in Calls, Send(c)
      PROVE  Moves
  BY <1>3 DEF Send, TypeOK, Stopped
<1>4. ASSUME NEW c \in Calls, Receive(c)
      PROVE  Moves
  BY <1>4 DEF Receive, Settle, TypeOK, Stopped
<1>5. ASSUME NEW c \in Calls, GiveUp(c)
      PROVE  Moves
  BY <1>5 DEF GiveUp, Settle, TypeOK, Stopped
<1>6. ASSUME NEW c \in Calls, SendList(c)
      PROVE  Moves
  BY <1>6 DEF SendList, TypeOK, Stopped
<1>7. ASSUME NEW c \in Calls, ReceiveList(c) \/ GiveUpList(c)
      PROVE  Moves
  BY <1>7 DEF ReceiveList, GiveUpList, TypeOK, Stopped
<1>8. ASSUME NEW c \in Calls, WriteStep(c)
      PROVE  Moves
  <2>1. UNCHANGED <<pc, req, ctx>>
    BY <1>8 DEF WriteStep, ApplyReserve, ApplyCancel, RefuseWrite, LoseWrite, AnswerEarly,
                client
  <2>2. \A d \in Calls : write'[d] = write[d] \/ write[d] = "pending"
    BY <1>8 DEF WriteStep, ApplyReserve, ApplyCancel, RefuseWrite, LoseWrite, AnswerEarly,
                Resolve, TypeOK
  <2>. QED BY <2>1, <2>2
<1>9. ASSUME NEW c \in Calls, AnswerQuery(c)
      PROVE  Moves
  BY <1>9 DEF AnswerQuery, client
<1>10. CASE OthersCreate \/ OthersCancel
  <2>1. UNCHANGED <<pc, req, ctx, write>>
    BY <1>10 DEF OthersCreate, OthersCancel, client
  <2>. QED BY <1>1, <2>1
<1>. QED BY <1>1, <1>2, <1>3, <1>4, <1>5, <1>6, <1>7, <1>8, <1>9, <1>10
            DEF Below, ClientStep

\* The steps of the loop, sorted by what they do to the calls.
Handed(c, r) ==
  /\ Execute(c, r)
  /\ shell \in {"prompt", "confirming"} /\ shell' = "running" /\ current' = c
  /\ approved' = [approved EXCEPT ![c] = shown']
  /\ late' = IF Interrupted THEN late \cup {c} ELSE late
  /\ r.op \in Writes => shown' = r
  /\ shown' \in {NoRequest} \cup Requests
  /\ UNCHANGED code

\* A line that hands nothing on, or a return to the prompt.
Stays ==
  /\ shell \in {"prompt", "confirming", "running"}
  /\ shell' \in {"prompt", "confirming", "closed"}
  /\ shell' = "confirming" => shown' \in Requests
  /\ shell = "running" /\ Interrupted => shell' = "closed"
  /\ shown' \in {NoRequest} \cup Requests
  /\ code' \in {0, 1}
  /\ UNCHANGED <<vars, current, approved, late>>

LEMMA LoopMoves ==
  ASSUME SessionTypeOK, ConsentInv, SessionNext
  PROVE  \/ \E c \in Calls, r \in Requests : Handed(c, r)
         \/ Stays
         \/ ctx' = [c \in Calls |-> "cancelled"]
            /\ UNCHANGED <<client, write, answer, upstream, session>>
         \/ Below /\ UNCHANGED session
<1>1. ASSUME NEW line \in Lines, ReadWrite(line)
      PROVE  Stays
  <2>1. [line.req EXCEPT !.confirm = TRUE] \in Requests
    BY LinesAssumption DEF Line, Requests
  <2>. QED BY <1>1, <2>1 DEF ReadWrite, Prompt, Stays, SessionTypeOK
<1>2. ASSUME NEW line \in Lines, Confirm(line)
      PROVE  Stays \/ \E c \in Calls, r \in Requests : Handed(c, r)
  <2>1. shell = "confirming" /\ shown \in Requests
    BY <1>2 DEF Confirm, ConsentInv
  <2>2. CASE line.kind = "yes"
    <3>1. PICK c \in Calls : shown' = shown /\ Submit(c, shown)
      BY <1>2, <2>2 DEF Confirm
    <3>2. Handed(c, shown)
      BY <2>1, <3>1 DEF Submit, Handed
    <3>. QED BY <2>1, <3>2
  <2>3. CASE line.kind # "yes"
    BY <1>2, <2>1, <2>3 DEF Confirm, Prompt, Stays, SessionTypeOK
  <2>. QED BY <2>2, <2>3
<1>3. ASSUME NEW line \in Lines, ReadQuery(line)
      PROVE  \E c \in Calls, r \in Requests : Handed(c, r)
  <2>1. line.req \in Requests
    BY LinesAssumption DEF Line
  <2>2. PICK c \in Calls : Submit(c, line.req)
    BY <1>3 DEF ReadQuery
  <2>3. line.req.op \notin Writes /\ shown' = NoRequest /\ shell = "prompt"
    BY <1>3 DEF ReadQuery, Reads, Writes
  <2>4. Handed(c, line.req)
    BY <2>2, <2>3 DEF Submit, Handed
  <2>. QED BY <2>1, <2>4
<1>4. ASSUME NEW line \in Lines, ReadLocal(line) \/ Skip(line) \/ Leave(line)
      PROVE  Stays
  BY <1>4 DEF ReadLocal, Skip, Leave, AfterCommand, Prompt, Close, Stays, SessionTypeOK
<1>5. CASE EndOfInput
  BY <1>5 DEF EndOfInput, Prompt, Close, Stays, SessionTypeOK
<1>6. CASE Return
  BY <1>6 DEF Return, AfterCommand, Prompt, Close, Stays, SessionTypeOK
<1>7. CASE Signal
  BY <1>7 DEF Signal
<1>. QED BY <1>1, <1>2, <1>3, <1>4, <1>5, <1>6, <1>7 DEF SessionNext, User, Below

-----------------------------------------------------------------------------
(* Type correctness. *)

LEMMA SessionTypeInit == SessionInit => SessionTypeOK
BY TypeInit DEF SessionInit, SessionTypeOK

LEMMA SessionTypeNext == SessionTypeOK /\ ConsentInv /\ [SessionNext]_all => SessionTypeOK'
<1> SUFFICES ASSUME SessionTypeOK, ConsentInv, [SessionNext]_all PROVE SessionTypeOK'
  OBVIOUS
<1>1. ASSUME NEW c \in Calls, NEW r \in Requests, Handed(c, r)
      PROVE  SessionTypeOK'
  <2>1. TypeOK'
    BY <1>1, ExecuteMoves DEF Handed, SessionTypeOK
  <2>2. approved' \in [Calls -> {NoRequest} \cup Requests]
    BY <1>1 DEF Handed, SessionTypeOK
  <2>. QED BY <1>1, <2>1, <2>2 DEF Handed, SessionTypeOK
<1>2. CASE Stays
  <2>1. TypeOK'
    BY <1>2 DEF Stays, vars, TypeOK, SessionTypeOK
  <2>. QED BY <1>2, <2>1 DEF Stays, SessionTypeOK
<1>3. CASE ctx' = [c \in Calls |-> "cancelled"]
           /\ UNCHANGED <<client, write, answer, upstream, session>>
  <2>1. TypeOK'
    BY <1>3 DEF TypeOK, client, upstream, SessionTypeOK
  <2>. QED BY <1>3, <2>1 DEF session, SessionTypeOK
<1>4. CASE Below /\ UNCHANGED session
  BY <1>4, BelowMoves DEF session, SessionTypeOK
<1>5. CASE UNCHANGED all
  BY <1>5 DEF all, vars, session, SessionTypeOK, TypeOK
<1>. QED BY <1>1, <1>2, <1>3, <1>4, <1>5, LoopMoves

-----------------------------------------------------------------------------
(* Consent. *)

LEMMA ConsentNext == SessionTypeOK /\ ConsentInv /\ [SessionNext]_all => ConsentInv'
<1> SUFFICES ASSUME SessionTypeOK, ConsentInv, [SessionNext]_all PROVE ConsentInv'
  OBVIOUS
<1>0. TypeOK
  BY DEF SessionTypeOK
<1>1. ASSUME NEW c \in Calls, NEW r \in Requests, Handed(c, r)
      PROVE  ConsentInv'
  <2>1. /\ pc[c] = "idle" /\ pc'[c] \in {"loading", "done"} /\ req'[c] = r
        /\ \A d \in Calls : d # c => pc'[d] = pc[d] /\ req'[d] = req[d]
        /\ write' = write
    BY <1>0, <1>1, ExecuteMoves DEF Handed
  <2>2. approved'[c] = shown' /\ \A d \in Calls : d # c => approved'[d] = approved[d]
    BY <1>1 DEF Handed, SessionTypeOK
  <2>3. shell' = "running" /\ (r.op \in Writes => shown' = r)
    BY <1>1 DEF Handed
  <2>. QED BY <2>1, <2>2, <2>3 DEF ConsentInv
<1>2. CASE Stays
  BY <1>2 DEF Stays, vars, ConsentInv
<1>3. CASE ctx' = [c \in Calls |-> "cancelled"]
           /\ UNCHANGED <<client, write, answer, upstream, session>>
  BY <1>3 DEF client, session, ConsentInv
<1>4. CASE Below /\ UNCHANGED session
  <2>1. /\ UNCHANGED <<req, shell, shown, approved>>
        /\ \A d \in Calls :
             /\ pc'[d] = "idle" <=> pc[d] = "idle"
             /\ \/ write'[d] = write[d]
                \/ write[d] = "pending"
                \/ pc[d] = "sending" /\ req[d].op \in Writes
    BY <1>0, <1>4, BelowMoves DEF session
  <2>. QED BY <2>1 DEF ConsentInv
<1>5. CASE UNCHANGED all
  BY <1>5 DEF all, vars, session, ConsentInv
<1>. QED BY <1>1, <1>2, <1>3, <1>4, <1>5, LoopMoves

-----------------------------------------------------------------------------
(* The signal. *)

LEMMA LateNext == SessionTypeOK /\ ConsentInv /\ LateInv /\ [SessionNext]_all => LateInv'
<1> SUFFICES ASSUME SessionTypeOK, ConsentInv, LateInv, [SessionNext]_all PROVE LateInv'
  OBVIOUS
<1>0. TypeOK
  BY DEF SessionTypeOK
<1>1. ASSUME NEW c \in Calls, NEW r \in Requests, Handed(c, r)
      PROVE  LateInv'
  <2>1. /\ pc[c] = "idle" /\ pc'[c] \in {"loading", "done"} /\ UNCHANGED <<ctx, write>>
    BY <1>0, <1>1, ExecuteMoves DEF Handed
  <2>2. late = {} /\ shell' = "running" /\ current' = c
    BY <1>1 DEF Handed, LateInv
  <2>3. write[c] = "unsent"
    BY <2>1 DEF ConsentInv
  <2>4. CASE Interrupted
    <3>1. late' = {c}
      BY <1>1, <2>2, <2>4 DEF Handed
    <3>2. Interrupted'
      BY <2>1, <2>4 DEF Interrupted
    <3>. QED BY <2>1, <2>2, <2>3, <3>1, <3>2 DEF LateInv, Stopped
  <2>5. CASE ~Interrupted
    <3>1. late' = {}
      BY <1>1, <2>2, <2>5 DEF Handed
    <3>. QED BY <3>1 DEF LateInv
  <2>. QED BY <2>4, <2>5
<1>2. CASE Stays
  <2>1. /\ UNCHANGED <<pc, ctx, write, current, late>>
        /\ shell \in {"prompt", "confirming", "running"}
        /\ shell = "running" /\ Interrupted => shell' = "closed"
    BY <1>2 DEF Stays, vars
  <2>2. Interrupted' <=> Interrupted
    BY <2>1 DEF Interrupted
  <2>. QED BY <2>1, <2>2 DEF LateInv
<1>3. CASE ctx' = [c \in Calls |-> "cancelled"]
           /\ UNCHANGED <<client, write, answer, upstream, session>>
  <2>1. Interrupted'
    BY <1>3 DEF Interrupted
  <2>. QED BY <1>3, <2>1 DEF client, session, LateInv
<1>4. CASE Below /\ UNCHANGED session
  <2>1. UNCHANGED <<ctx, shell, current, late>>
    BY <1>0, <1>4, BelowMoves DEF session
  <2>2. Interrupted' <=> Interrupted
    BY <2>1 DEF Interrupted
  <2>3. ASSUME NEW c \in late
        PROVE  c \in Calls /\ write'[c] = "unsent" /\ pc'[c] \in Stopped
    <3>1. c \in Calls /\ ctx[c] = "cancelled" /\ write[c] = "unsent" /\ pc[c] \in Stopped
      BY DEF LateInv, Interrupted
    <3>. QED BY <1>0, <1>4, <3>1, BelowMoves
  <2>. QED BY <2>1, <2>2, <2>3 DEF LateInv
<1>5. CASE UNCHANGED all
  BY <1>5 DEF all, vars, session, LateInv, Interrupted
<1>. QED BY <1>1, <1>2, <1>3, <1>4, <1>5, LoopMoves

-----------------------------------------------------------------------------
(* The properties. *)

LEMMA SessionInvariant == SessionSpec => [](SessionTypeOK /\ ConsentInv /\ LateInv)
<1>1. SessionInit => SessionTypeOK /\ ConsentInv /\ LateInv
  <2> SUFFICES ASSUME SessionInit PROVE SessionTypeOK /\ ConsentInv /\ LateInv
    OBVIOUS
  <2>1. shell = "prompt" /\ late = {}
    BY DEF SessionInit
  <2>2. \A c \in Calls : pc[c] = "idle" /\ write[c] = "unsent"
    BY DEF SessionInit, Init
  <2>. QED BY <2>1, <2>2, SessionTypeInit DEF ConsentInv, LateInv
<1>2. SessionTypeOK /\ ConsentInv /\ LateInv /\ [SessionNext]_all
        => SessionTypeOK' /\ ConsentInv' /\ LateInv'
  BY SessionTypeNext, ConsentNext, LateNext
<1>. QED BY <1>1, <1>2, PTL DEF SessionSpec

\* The loop and everything below it keep their types, whatever is typed.
THEOREM SessionTypeCorrect == SessionSpec => []SessionTypeOK
<1>. QED BY SessionInvariant, PTL

\* No write is sent but the one last shown and answered with "yes".
THEOREM ConfirmedIsSent == SessionSpec => []OnlyConfirmedIsSent
<1>1. ConsentInv => OnlyConfirmedIsSent
  BY DEF ConsentInv, OnlyConfirmedIsSent
<1>. QED BY <1>1, SessionInvariant, PTL

\* After a signal one more command begins at most, and it sends nothing.
THEOREM SignalStops == SessionSpec => []SignalStopsTheSession
<1>1. LateInv => SignalStopsTheSession
  <2> SUFFICES ASSUME LateInv PROVE SignalStopsTheSession
    OBVIOUS
  <2>1. late = {} \/ late = {current}
    BY DEF LateInv
  <2>2. Cardinality(late) <= 1
    <3>1. CASE late = {}
      BY <3>1, FS_EmptySet
    <3>2. CASE late = {current}
      BY <3>2, FS_Singleton
    <3>. QED BY <2>1, <3>1, <3>2
  <2>. QED BY <2>2 DEF LateInv, SignalStopsTheSession, Stopped
<1>. QED BY <1>1, SessionInvariant, PTL

-----------------------------------------------------------------------------
(* What holds of the service holds of the commands of a session. *)

\* A line typed, a signal and whatever goes on below the loop are steps of
\* the service.
LEMMA SessionSteps == SessionTypeOK /\ ConsentInv /\ [SessionNext]_all => [Step]_vars
<1> SUFFICES ASSUME SessionTypeOK, ConsentInv, [SessionNext]_all PROVE [Step]_vars
  OBVIOUS
<1>1. ASSUME NEW c \in Calls, NEW r \in Requests, Handed(c, r)
      PROVE  Step
  BY <1>1 DEF Handed, Step
<1>2. CASE Stays
  BY <1>2 DEF Stays
<1>3. CASE ctx' = [c \in Calls |-> "cancelled"]
           /\ UNCHANGED <<client, write, answer, upstream, session>>
  <2>1. Cut
    BY <1>3 DEF Cut
  <2>. QED BY <2>1 DEF Step, SessionTypeOK
<1>4. CASE Below /\ UNCHANGED session
  BY <1>4 DEF Below, Step
<1>5. CASE UNCHANGED all
  BY <1>5 DEF all
<1>. QED BY <1>1, <1>2, <1>3, <1>4, <1>5, LoopMoves

\* The invariant of the service holds throughout a session.
THEOREM SessionInvariance == SessionSpec => []IndInv
<1>1. SessionInit => IndInv
  BY IndInvInit DEF SessionInit
<1>2. SessionTypeOK /\ ConsentInv /\ IndInv /\ [SessionNext]_all => IndInv'
  BY SessionSteps, IndInvNext
<1>. QED BY <1>1, <1>2, SessionInvariant, PTL DEF SessionSpec

\* In a session too, with a signal at any time and upstream still at work on
\* earlier commands, no verdict is wrong and no list incomplete, and each
\* command has one effect at most.
THEOREM SessionVerdicts ==
  SessionSpec => [](/\ FailedNeverLands /\ ConfirmedWasDone /\ AtMostOneEffect
                    /\ ListsAreComplete /\ UncertainIsReconciled)
<1>1. IndInv => /\ FailedNeverLands /\ ConfirmedWasDone /\ AtMostOneEffect
                /\ ListsAreComplete /\ UncertainIsReconciled
  BY OneEffectEach DEF IndInv
<1>. QED BY <1>1, SessionInvariance, PTL

\* The commands of a session keep the contract of writes: the next one may
\* begin while upstream has not ended the last.
THEOREM SessionRefinement == SessionSpec => KeepsContract
<1>1. SessionTypeOK /\ ConsentInv /\ IndInv /\ IndInv' /\ [SessionNext]_all
        => [Contract!Next]_(Contract!vars)
  BY SessionSteps, ContractNext
<1>2. SessionInit => Contract!Init
  BY ContractInit DEF SessionInit
<1>. QED
  BY <1>1, <1>2, SessionInvariant, SessionInvariance, PTL
     DEF SessionSpec, KeepsContract, Contract!Spec
=============================================================================
