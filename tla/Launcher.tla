------------------------------ MODULE Launcher ------------------------------
(***************************************************************************)
(* The npm launcher (packaging/npm/launcher.cjs) and the Go process it     *)
(* starts (cmd/sushiro-cli/main.go), on POSIX: which of them a signal      *)
(* reaches, and what the launcher's caller learns from its wait status.    *)
(* Signals come from a supervisor (to the launcher alone) or from the      *)
(* terminal or a process group's kill (to both), at any time: those that   *)
(* the launcher forwards and those that it does not or cannot.             *)
(***************************************************************************)
EXTENDS Naturals, Sequences

CONSTANTS
  Order,     \* the signals that the launcher forwards, as it installs them
  Cancelling,\* those that main turns into the end of its context
  Fatal,     \* others that a child dies of
  Ignored,   \* those of Fatal that Node ignores (SIGPIPE)
  Dumping,   \* those of Fatal that Go's runtime answers by an exit (SIGQUIT)
  MaxSent    \* a bound on the signals that are sent

Signals == {Order[i] : i \in DOMAIN Order}

ASSUME SignalsAssumption ==
  /\ Order \in Seq(STRING) /\ Order # <<>>
  /\ Cancelling \subseteq Signals /\ Ignored \subseteq Fatal /\ Dumping \subseteq Fatal
  /\ Signals \cap Fatal = {}
  /\ MaxSent \in Nat

Codes  == {0, 1, 3}  \* what App.Run returns
Dumped == 2          \* the runtime's own, for a panic too

\* A wait status: an exit code, a signal, or an exit with 128 plus a signal.
Exit(c)   == [kind |-> "code", of |-> c]
Killed(s) == [kind |-> "signal", of |-> s]
Plus(s)   == [kind |-> "128+signal", of |-> s]
NoStatus  == [kind |-> "none", of |-> 0]
Statuses  == {NoStatus} \cup {Exit(c) : c \in Codes \cup {Dumped}}
                        \cup {Killed(s) : s \in Signals \cup Fatal}
                        \cup {Plus(s) : s \in Signals \cup Fatal}

VARIABLES
  launcher, \* its phase
  handled,  \* the signals with a handler
  caught,   \* signals whose handlers have not run yet
  status,   \* its wait status, or the exitCode it has set
  child,    \* the phase of the Go process
  waits,    \* its command is the loop that waits for a line, context or not
  code,     \* what App.Run returned
  ended,    \* the child's wait status
  sent,     \* how many signals were sent
  early     \* the launcher was struck after the spawn, before all handlers were on

vars == <<launcher, handled, caught, status, child, waits, code, ended, sent, early>>
own   == <<launcher, handled, caught, status>>
theirs == <<child, waits, code, ended>>

Alive == child \in {"starting", "running", "stopping", "leaving"}

-----------------------------------------------------------------------------
(* The Go process: main installs its context, runs the command, calls stop *)
(* and exits.                                                              *)

\* How the child dies of s: of the signal, or by the exit of a runtime that is
\* up to answer it.
Deaths(s) == {Killed(s)} \cup IF s \in Dumping THEN {Exit(Dumped)} ELSE {}

\* The child is sent a signal: it ends the context while main listens, and
\* kills the process before and after; one that main does not name kills it
\* at any time.
Receive(s) ==
  IF child \in {"running", "stopping"} /\ s \in Cancelling
  THEN child' = "stopping" /\ UNCHANGED ended
  ELSE IF Alive THEN child' = "dead" /\ ended' \in Deaths(s)
  ELSE UNCHANGED <<child, ended>>

Start ==
  /\ child = "starting"
  /\ child' = "running"
  /\ UNCHANGED <<own, waits, code, ended, sent, early>>

\* App.Run returns, and stop gives the signals back their default.
Finish ==
  /\ child \in {"running", "stopping"}
  /\ child' = "leaving"
  /\ code' \in {Exit(c) : c \in Codes}
  /\ UNCHANGED <<own, waits, ended, sent, early>>

Leave ==
  /\ child = "leaving"
  /\ child' = "dead" /\ ended' = code
  /\ UNCHANGED <<own, waits, code, sent, early>>

\* It dies of something else: a broken pipe, the kernel, a panic.
Crash(s) ==
  /\ child \in {"running", "stopping"}
  /\ child' = "dead" /\ ended' \in Deaths(s)
  /\ UNCHANGED <<own, waits, code, sent, early>>

-----------------------------------------------------------------------------
(* The launcher. *)

\* No package for this platform, a wrong version.
Unloadable ==
  /\ launcher = "loading"
  /\ launcher' = "closing" /\ status' = Exit(1)
  /\ UNCHANGED <<handled, caught, theirs, sent, early>>

\* spawn starts a child, or fails and says so by an event later.
Spawn ==
  /\ launcher = "loading"
  /\ launcher' = "spawned"
  /\ child' \in {"starting", "failed"}
  /\ UNCHANGED <<handled, caught, status, waits, code, ended, sent, early>>

Install(i) ==
  /\ launcher = "spawned" /\ handled = {Order[j] : j \in 1..(i - 1)}
  /\ handled' = handled \cup {Order[i]}
  /\ launcher' = IF handled' = Signals THEN "waiting" ELSE "spawned"
  /\ UNCHANGED <<caught, status, theirs, sent, early>>

\* A slip of Forward: the handlers run once (process.once).
ForwardOnce ==
  /\ launcher = "waiting" /\ caught # <<>>
  /\ Receive(Head(caught))
  /\ caught' = Tail(caught) /\ handled' = handled \ {Head(caught)}
  /\ UNCHANGED <<launcher, status, waits, code, sent, early>>

\* A slip of Forward: the child's state is tested the wrong way round.
ForwardInverted ==
  /\ launcher = "waiting" /\ caught # <<>>
  /\ caught' = Tail(caught)
  /\ UNCHANGED <<launcher, handled, status, theirs, sent, early>>

\* A handler runs. The launcher has not seen the child exit, but it may have.
Forward ==
  /\ launcher = "waiting" /\ caught # <<>>
  /\ Receive(Head(caught))
  /\ caught' = Tail(caught)
  /\ UNCHANGED <<launcher, handled, status, waits, code, sent, early>>

\* A slip of SpawnFailed: no cleanup.
SpawnFailedUncleaned ==
  /\ launcher = "waiting" /\ child = "failed"
  /\ launcher' = "closing" /\ status' = Exit(1)
  /\ UNCHANGED <<handled, caught, theirs, sent, early>>

\* The event "error": cleanup, then fail.
SpawnFailed ==
  /\ launcher = "waiting" /\ child = "failed"
  /\ launcher' = "closing" /\ status' = Exit(1)
  /\ handled' = {} /\ caught' = <<>>
  /\ UNCHANGED <<theirs, sent, early>>

\* A slip of ChildExits: the launcher's signal meets its own handler.
ChildExitsUncleaned ==
  /\ launcher = "waiting" /\ child = "dead"
  /\ handled' = {} /\ caught' = <<>>
  /\ launcher' = IF ended.kind = "signal" /\ ended.of \notin Ignored \cup Signals
                 THEN "ended" ELSE "closing"
  /\ status' = IF launcher' = "ended" \/ ended.kind = "code" THEN ended ELSE Plus(ended.of)
  /\ UNCHANGED <<theirs, sent, early>>

\* The event "exit": cleanup, then the child's code, or its signal to itself.
ChildExits ==
  /\ launcher = "waiting" /\ child = "dead"
  /\ handled' = {} /\ caught' = <<>>
  /\ launcher' = IF ended.kind = "signal" /\ ended.of \notin Ignored THEN "ended" ELSE "closing"
  /\ status' = IF launcher' = "ended" \/ ended.kind = "code" THEN ended ELSE Plus(ended.of)
  /\ UNCHANGED <<theirs, sent, early>>

\* Nothing is left to do: the process ends with the exitCode it has set.
Close ==
  /\ launcher = "closing"
  /\ launcher' = "ended"
  /\ UNCHANGED <<handled, caught, status, theirs, sent, early>>

-----------------------------------------------------------------------------
(* Signals. *)

\* A signal for the launcher: caught if it has a handler, fatal if not.
Strike(s) ==
  IF s \in handled
  THEN caught' = Append(caught, s) /\ UNCHANGED <<launcher, handled, status, early>>
  ELSE /\ launcher' = "ended" /\ status' = Killed(s)
       /\ handled' = {} /\ caught' = <<>>
       /\ early' = (launcher = "spawned")

\* A signal that Node does not ignore: to the launcher, or to both.
Signal(s) ==
  /\ launcher # "ended" /\ sent < MaxSent
  /\ sent' = sent + 1
  /\ Strike(s)
  /\ \/ UNCHANGED theirs
     \/ Receive(s) /\ UNCHANGED <<waits, code>>

-----------------------------------------------------------------------------
Init ==
  /\ launcher = "loading" /\ handled = {} /\ caught = <<>> /\ status = NoStatus
  /\ child = "none" /\ code = NoStatus /\ ended = NoStatus
  /\ waits \in BOOLEAN
  /\ sent = 0 /\ early = FALSE

Next ==
  \/ Start \/ Finish \/ Leave
  \/ \E s \in Fatal : Crash(s)
  \/ Unloadable \/ Spawn \/ SpawnFailed \/ Forward \/ ChildExits \/ Close
  \/ \E i \in DOMAIN Order : Install(i)
  \/ \E s \in (Signals \cup Fatal) \ Ignored : Signal(s)

Spec == Init /\ [][Next]_vars

\* Node's event loop and the kernel go on; a command whose context has ended
\* comes to an end, but for the interactive loop: it waits for a line that may
\* never come, whatever its context (cli.go:215-219).
FairSpec ==
  /\ Spec
  /\ WF_vars(Forward) /\ WF_vars(ChildExits) /\ WF_vars(SpawnFailed) /\ WF_vars(Close)
  /\ WF_vars(\E i \in DOMAIN Order : Install(i))
  /\ WF_vars(Start) /\ WF_vars(Leave) /\ WF_vars(child = "stopping" /\ ~waits /\ Finish)

-----------------------------------------------------------------------------
(***************************************************************************)
(* Properties.                                                             *)
(***************************************************************************)

\* The type invariant; handlers are on only from the spawn to the child's end.
TypeOK ==
  /\ launcher \in {"loading", "spawned", "waiting", "closing", "ended"}
  /\ handled \subseteq Signals
  /\ caught \in Seq(Signals)
  /\ status \in Statuses
  /\ child \in {"none", "failed", "starting", "running", "stopping", "leaving", "dead"}
  /\ waits \in BOOLEAN
  /\ code \in Statuses
  /\ ended \in Statuses
  /\ sent \in 0..MaxSent
  /\ early \in BOOLEAN
  /\ launcher \notin {"spawned", "waiting"} => handled = {} /\ caught = <<>>

\* What the caller learns is true: an exit code is the child's, or 1 where no
\* child ran; 128 plus a signal stands for one that Node cannot die of; and a
\* launcher that nobody signalled died only of the child's signal.
StatusIsTrue ==
  launcher = "ended" =>
    /\ status.kind = "code" => IF child \in {"none", "failed"} THEN status = Exit(1)
                                                               ELSE status = ended
    /\ status.kind = "128+signal" => ended = Killed(status.of) /\ status.of \in Ignored
    /\ status.kind = "signal" => sent > 0 \/ status = ended

\* The launcher was struck by a signal that it forwards to nobody: one without
\* a handler (SIGQUIT, and SIGKILL, of which docs/distribution/README.md:62 says
\* that the child's cleanup is not guaranteed), or one of the three that came
\* between the spawn and the last handler.
Unforwarded == status.kind = "signal" /\ (status.of \in Signals => early)

\* The launcher ends before its child only if it was struck so: never by an
\* event of its own, and never by a signal that it forwards, once it is set up.
NoOrphan == launcher = "ended" /\ Alive => Unforwarded

\* A signal that the launcher has caught ends the child, and the launcher after
\* it, however often it is repeated and whichever of the two exits first,
\* unless the launcher is struck so meanwhile.  Not if the command is the
\* interactive loop: its context ends, and it goes on waiting for a line.
SignalEndsBoth ==
  (caught # <<>> /\ ~waits) ~> (launcher = "ended" /\ (Alive => Unforwarded))
=============================================================================
