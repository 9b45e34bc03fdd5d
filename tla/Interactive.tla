----------------------------- MODULE Interactive -----------------------------
(***************************************************************************)
(* The interactive command line (App.interactive in internal/cli/cli.go)   *)
(* on top of ReservationService: one loop that reads lines, asks for a     *)
(* "yes" before any write, and runs one command after another, each a call *)
(* of Execute.  A signal cancels the one context that all of them share.   *)
(* What upstream does to a write goes on while the user is back at the     *)
(* prompt.                                                                 *)
(***************************************************************************)
EXTENDS ReservationService

CONSTANTS
  Lines,     \* what the user may type
  NoRequest  \* no request was shown or approved

\* "flagged" lines begin with a flag, "gated" ones with auth, public, mcp or
\* interactive; "local" is help, version and all that is no command here.
LineKinds == {"command", "flagged", "gated", "blank", "exit", "yes", "local"}
Line == [kind: LineKinds, req: Requests]

ASSUME LinesAssumption == Lines \subseteq Line
ASSUME NoRequestAssumption == \A r \in Requests : r # NoRequest

VARIABLES
  shell,    \* "prompt", "confirming", "running" or "closed"
  shown,    \* the request displayed for confirmation
  current,  \* the call that runs
  code,     \* the exit code, once closed
  approved, \* approved[c]: the request on display when "yes" began c (history)
  late      \* the calls begun after the signal (history)

session == <<shell, shown, current, code, approved, late>>
all     == <<vars, session>>

Interrupted == \A c \in Calls : ctx[c] = "cancelled"

-----------------------------------------------------------------------------
\* Hand a request to Execute.
Submit(c, r) ==
  /\ Execute(c, r)
  /\ shell' = "running"
  /\ current' = c
  /\ approved' = [approved EXCEPT ![c] = shown']
  /\ late' = IF Interrupted THEN late \cup {c} ELSE late
  /\ UNCHANGED code

\* Back to the top of the loop; after a command that ran, the context counts.
Prompt ==
  /\ shell' = "prompt"
  /\ UNCHANGED <<shown, current, code, approved, late, vars>>
Close(exitCode) ==
  /\ shell' = "closed"
  /\ code' = exitCode
  /\ UNCHANGED <<shown, current, approved, late, vars>>
AfterCommand == IF Interrupted THEN Close(1) ELSE Prompt

\* A write is validated as if confirmed, and shown.
ReadWrite(line) ==
  LET r == [line.req EXCEPT !.confirm = TRUE] IN
  /\ shell = "prompt" /\ line.kind = "command" /\ line.req.op \in Writes
  /\ IF ValidateRequest(r)
     THEN /\ shell' = "confirming"
          /\ shown' = r
          /\ UNCHANGED <<current, code, approved, late, vars>>
     ELSE Prompt

\* Anything but "yes", the end of the input too, declines.
Confirm(line) ==
  /\ shell = "confirming"
  /\ IF line.kind = "yes"
     THEN shown' = shown /\ \E c \in Calls : Submit(c, shown)
     ELSE Prompt

\* Other commands go through App.Run.
ReadQuery(line) ==
  /\ shell = "prompt" /\ line.kind = "command" /\ line.req.op \in Reads
  /\ shown' = NoRequest
  /\ \E c \in Calls : Submit(c, line.req)

\* help, version, an unknown word: nothing runs.
ReadLocal(line) ==
  /\ shell = "prompt" /\ line.kind \in {"yes", "local"}
  /\ AfterCommand

\* A slip of Skip: a leading flag is passed on to App.Run.
SkipUnlessFlagged(line) ==
  /\ shell = "prompt"
  /\ IF line.kind = "flagged"
     THEN shown' = NoRequest /\ \E c \in Calls : Submit(c, line.req)
     ELSE line.kind \in {"gated", "blank"} /\ Prompt

\* Lines that are refused or empty do not even look at the context.
Skip(line) ==
  /\ shell = "prompt" /\ line.kind \in {"flagged", "gated", "blank"}
  /\ Prompt

Leave(line) == shell = "prompt" /\ line.kind = "exit" /\ Close(0)

\* The input ends, or cannot be read.
EndOfInput ==
  \/ shell = "confirming" /\ Prompt
  \/ shell = "prompt" /\ \E exitCode \in {0, 1} : Close(exitCode)

\* A slip of Return: the context is not looked at.
ReturnAlways == shell = "running" /\ pc[current] = "done" /\ Prompt

\* The command returned: its result is printed.
Return == shell = "running" /\ pc[current] = "done" /\ AfterCommand

\* SIGINT or SIGTERM.
Signal ==
  /\ shell # "closed"
  /\ ctx' = [c \in Calls |-> "cancelled"]
  /\ UNCHANGED <<client, write, answer, upstream, session>>

-----------------------------------------------------------------------------
SessionInit ==
  /\ Init
  /\ shell = "prompt"
  /\ shown = NoRequest
  /\ current \in Calls
  /\ code = 0
  /\ approved = [c \in Calls |-> NoRequest]
  /\ late = {}

User ==
  \/ \E line \in Lines :
       \/ ReadWrite(line) \/ Confirm(line) \/ ReadQuery(line)
       \/ ReadLocal(line) \/ Skip(line) \/ Leave(line)
  \/ EndOfInput

SessionNext ==
  \/ User
  \/ Return
  \/ Signal
  \/ /\ \/ \E c \in Calls : ClientStep(c) \/ WriteStep(c) \/ AnswerQuery(c)
        \/ OthersCreate
        \/ OthersCancel
     /\ UNCHANGED session

SessionSpec == SessionInit /\ [][SessionNext]_all

-----------------------------------------------------------------------------
(***************************************************************************)
(* Properties.                                                             *)
(***************************************************************************)

\* The type invariant of the loop.
SessionTypeOK ==
  /\ TypeOK
  /\ shell \in {"prompt", "confirming", "running", "closed"}
  /\ shown \in {NoRequest} \cup Requests
  /\ current \in Calls
  /\ code \in {0, 1}
  /\ approved \in [Calls -> {NoRequest} \cup Requests]
  /\ late \subseteq Calls

\* No write leaves the program that the user was not shown, and did not
\* answer with "yes" on the very next line: not through a pasted --confirm,
\* not behind a leading flag, not through a confirmation of something else.
OnlyConfirmedIsSent ==
  \A c \in Calls : write[c] # "unsent" => approved[c] = req[c]

\* A signal ends the session at the next command: at most one more begins,
\* and that one sends nothing, even when it is a write confirmed with "yes".
SignalStopsTheSession ==
  /\ Cardinality(late) <= 1
  /\ \A c \in late : write[c] = "unsent" /\ pc[c] \notin {"waiting", "reading"}

\* docs/usage.md gives the exit code 3 to an uncertain write: a session in
\* which a write stayed uncertain does not exit as a success.
ExitCodeTellsDoubt ==
  shell = "closed" /\ code = 0 => \A c \in Calls : ~Ended(c, "uncertain")
=============================================================================
