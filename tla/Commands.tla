------------------------------ MODULE Commands ------------------------------
(***************************************************************************)
(* From what is typed to what is run: App.Run, parseOperation, auth and    *)
(* emit (internal/cli/cli.go), token by token, for the arguments of a      *)
(* process and for one line of the interactive loop.  The global flags may *)
(* stand anywhere; the loop has to see a write whatever stands before it,  *)
(* and hands all other lines to App.Run, which reads them anew.  The loop  *)
(* itself, and what Execute does, are the modules Interactive and          *)
(* ReservationService: here Execute ends in any of its results.            *)
(***************************************************************************)
EXTENDS Naturals, Sequences

CONSTANTS
  Lines,       \* what may be typed, cut into tokens
  Tokens,
  Profiles,    \* the tokens that are profile names
  Inline,      \* Inline[t]: the name in a token "--profile=NAME"
  StoreFlag,   \* StoreFlag[t]: the value in a token "--store=ID"
  Numeric,     \* the tokens that are store identifiers
  Launched     \* the profile that interactive was launched with

Writes     == {"reserve", "cancel"}
Operations == {"stores", "slots", "reservations", "ticket-status"} \cup Writes
Dashed(t)  == t \in {"--json", "--profile", "--confirm", "--confirm=false", "--store", "--help"}
                    \cup DOMAIN Inline \cup DOMAIN StoreFlag
None       == "" \* no command, no store

ASSUME LinesAssumption == Lines \subseteq Seq(Tokens)
ASSUME TokensAssumption ==
  /\ Profiles \subseteq {"default"} \cup Tokens /\ \A t \in Profiles : ~Dashed(t)
  /\ \A t \in DOMAIN Inline : Inline[t] \in Tokens
  /\ {"--json", "--profile"} \cap DOMAIN Inline = {}
  /\ \A t \in DOMAIN StoreFlag : StoreFlag[t] \in Tokens
  /\ {"--profile", Launched} \subseteq Tokens /\ Launched \in Profiles /\ None \notin Tokens

VARIABLES
  entry,   \* "argv" or "session"
  typed,   \* the line
  rest,    \* the tokens still to read
  args,    \* the tokens that are no global flags
  machine, \* --json
  profile, \* the profile, and whether one is missing
  command, \* the first word
  confirm, \* --confirm
  store,   \* --store
  pc,      \* the next step, or how it ended
  result,  \* the state of the result that is printed
  printed, \* the result reached standard output
  exit     \* the exit code

vars == <<entry, typed, rest, args, machine, profile, command, confirm, store, pc,
          result, printed, exit>>
read == <<entry, typed>>
opts == <<machine, profile>>
flags == <<confirm, store>>
out  == <<result, printed, exit>>

Steps == {"gate", "filter", "dispatch", "flags", "validate", "execute", "config",
          "ask", "interactive", "mcp", "emit", "skipped", "ended"}
Results == {"none", "confirmed", "failed", "uncertain"}

\* Print a result of this state.
Emit(state) == pc' = "emit" /\ result' = state /\ UNCHANGED <<printed, exit>>
Stop(code) ==
  /\ pc' = "ended" /\ exit' = code
  /\ UNCHANGED <<read, rest, args, opts, command, flags, result, printed>>
Goto(step)  == pc' = step /\ UNCHANGED out

-----------------------------------------------------------------------------
(* One line of the interactive loop. *)

Gated == {"interactive", "mcp", "auth", "public"}

\* A slip of Gate: a line may begin with a flag.
GateOpen ==
  /\ pc = "gate"
  /\ IF rest = <<>> \/ Head(rest) \in Gated \/ rest = <<"exit">>
     THEN Goto("skipped") /\ UNCHANGED <<rest, args, profile, command>>
     ELSE IF Head(rest) \in Writes
     THEN /\ command' = Head(rest) /\ args' = Tail(rest) /\ profile' = Launched
          /\ Goto("flags")
          /\ UNCHANGED rest
     ELSE /\ rest' = <<"--profile", Launched>> \o rest /\ profile' = "default"
          /\ Goto("filter")
          /\ UNCHANGED <<args, command>>
  /\ UNCHANGED <<read, machine, flags>>

\* Another slip of Gate: App.Run is called with the line as it is.
GateForgetsProfile ==
  /\ pc = "gate"
  /\ IF rest = <<>> \/ Dashed(Head(rest)) \/ Head(rest) \in Gated \/ rest = <<"exit">>
     THEN Goto("skipped") /\ UNCHANGED <<rest, args, profile, command>>
     ELSE IF Head(rest) \in Writes
     THEN /\ command' = Head(rest) /\ args' = Tail(rest) /\ profile' = Launched
          /\ Goto("flags")
          /\ UNCHANGED rest
     ELSE /\ profile' = "default"
          /\ Goto("filter")
          /\ UNCHANGED <<rest, args, command>>
  /\ UNCHANGED <<read, machine, flags>>

\* Flags, gated commands and blank lines are refused, writes are parsed here,
\* the rest is for App.Run, which starts from its own default profile.
Gate ==
  /\ pc = "gate"
  /\ IF rest = <<>> \/ Dashed(Head(rest)) \/ Head(rest) \in Gated \/ rest = <<"exit">>
     THEN Goto("skipped") /\ UNCHANGED <<rest, args, profile, command>>
     ELSE IF Head(rest) \in Writes
     THEN /\ command' = Head(rest) /\ args' = Tail(rest) /\ profile' = Launched
          /\ Goto("flags")
          /\ UNCHANGED rest
     ELSE /\ rest' = <<"--profile", Launched>> \o rest /\ profile' = "default"
          /\ Goto("filter")
          /\ UNCHANGED <<args, command>>
  /\ UNCHANGED <<read, machine, flags>>

-----------------------------------------------------------------------------
(* App.Run. *)

\* Take the global flags out, wherever they stand.
Filter ==
  /\ pc = "filter" /\ rest # <<>>
  /\ IF rest = <<"--profile">>
     THEN Emit("failed") /\ UNCHANGED <<rest, args, opts>>
     ELSE LET taken == IF Head(rest) = "--profile" THEN 2 ELSE 1 IN
          /\ rest' = SubSeq(rest, taken + 1, Len(rest))
          /\ machine' = (machine \/ Head(rest) = "--json")
          /\ profile' = IF Head(rest) = "--profile" THEN rest[2]
                        ELSE IF Head(rest) \in DOMAIN Inline THEN Inline[Head(rest)]
                        ELSE profile
          /\ args' = IF Head(rest) \in {"--json", "--profile"} \cup DOMAIN Inline
                     THEN args ELSE Append(args, Head(rest))
          /\ Goto("filter")
  /\ UNCHANGED <<read, command, flags>>

\* A slip of FilterEnd: the profile is not looked at.
FilterEndAny ==
  /\ pc = "filter" /\ rest = <<>>
  /\ command' = IF args = <<>> THEN command ELSE Head(args)
  /\ args' = IF args = <<>> THEN args ELSE Tail(args)
  /\ Goto("dispatch")
  /\ UNCHANGED <<read, rest, opts, flags>>

\* The profile must be valid; then the command is the first word that is left.
FilterEnd ==
  /\ pc = "filter" /\ rest = <<>>
  /\ IF profile \notin Profiles
     THEN Emit("failed") /\ UNCHANGED <<args, command>>
     ELSE IF args = <<>>
     THEN Goto("dispatch") /\ UNCHANGED <<args, command>>
     ELSE /\ command' = Head(args) /\ args' = Tail(args)
          /\ Goto("dispatch")
  /\ UNCHANGED <<read, rest, opts, flags>>

Dispatch ==
  /\ pc = "dispatch"
  /\ CASE command \in {None, "help", "--help"} ->
            IF machine THEN Emit("confirmed")
            ELSE pc' = "ended" /\ exit' = 0 /\ UNCHANGED <<result, printed>>
       [] command = "version" -> Emit(IF args = <<>> THEN "confirmed" ELSE "failed")
       [] command = "mcp" -> IF args = <<>> THEN Goto("mcp") ELSE Emit("failed")
       [] command = "interactive" -> IF machine THEN Emit("failed") ELSE Goto("interactive")
       [] command \in {"auth", "public"} -> Goto("config")
       [] command \in Operations -> Goto("flags")
       [] OTHER -> Emit("failed")
  /\ UNCHANGED <<read, rest, args, opts, command, flags>>

\* App.auth: status takes no arguments, import a file.
Config ==
  /\ pc = "config"
  /\ \/ args = <<"status">> /\ Emit("confirmed")
     \/ args # <<>> /\ Head(args) = "import" /\ Len(args) > 1 /\ Emit("confirmed")
     \/ Emit("failed")
  /\ UNCHANGED <<read, rest, args, opts, command, flags>>

-----------------------------------------------------------------------------
(* parseOperation: the flags of the operation, each once or more. *)

HasStore == command \in {"stores", "slots", "reserve"}

Flag ==
  /\ pc = "flags" /\ args # <<>>
  /\ \/ /\ command \in Writes /\ Head(args) \in {"--confirm", "--confirm=false"}
        /\ confirm' = (Head(args) = "--confirm")
        /\ args' = Tail(args)
        /\ UNCHANGED store
     \/ /\ HasStore /\ Head(args) \in DOMAIN StoreFlag
        /\ store' = StoreFlag[Head(args)]
        /\ args' = Tail(args)
        /\ UNCHANGED confirm
     \/ /\ HasStore /\ Head(args) = "--store" /\ Len(args) > 1
        /\ store' = args[2]
        /\ args' = Tail(Tail(args))
        /\ UNCHANGED confirm
  /\ Goto("flags")
  /\ UNCHANGED <<read, rest, opts, command>>

\* A token that is no flag of this operation, or a flag without its value.
BadFlag ==
  /\ pc = "flags" /\ args # <<>>
  /\ ~(command \in Writes /\ Head(args) \in {"--confirm", "--confirm=false"})
  /\ ~(HasStore /\ Head(args) \in DOMAIN StoreFlag)
  /\ ~(HasStore /\ Head(args) = "--store" /\ Len(args) > 1)
  /\ Emit("failed")
  /\ UNCHANGED <<read, rest, args, opts, command, flags>>

FlagsEnd ==
  /\ pc = "flags" /\ args = <<>>
  /\ Goto("validate")
  /\ UNCHANGED <<read, rest, args, opts, command, flags>>

\* Lines of the loop get to ValidateRequest only as writes that were not yet
\* confirmed by a person, and count as confirmed there.
Asking == entry = "session" /\ command \in Writes

\* A slip of Validate: the operation's own authorisation is not looked at.
ValidateTrusting ==
  /\ pc = "validate"
  /\ \/ /\ store # None => store \in Numeric
        /\ command \in {"slots", "reserve"} => store # None
        /\ Goto(IF Asking THEN "ask" ELSE "execute")
     \/ Emit("failed")
  /\ UNCHANGED <<read, rest, args, opts, command, flags>>

\* ValidateRequest; the arguments that are left out here may be bad as well.
Validate ==
  /\ pc = "validate"
  /\ \/ /\ command \in Writes => confirm \/ Asking
        /\ store # None => store \in Numeric
        /\ command \in {"slots", "reserve"} => store # None
        /\ Goto(IF Asking THEN "ask" ELSE "execute")
     \/ Emit("failed")
  /\ UNCHANGED <<read, rest, args, opts, command, flags>>

Execute ==
  /\ pc = "execute"
  /\ \E state \in {"confirmed", "failed"}
                    \cup (IF command \in Writes THEN {"uncertain"} ELSE {}) : Emit(state)
  /\ UNCHANGED <<read, rest, args, opts, command, flags>>

Mcp == pc = "mcp" /\ \E code \in {0, 1} : Stop(code)

-----------------------------------------------------------------------------
\* Print the result; the write may fail.
emit ==
  /\ pc = "emit"
  /\ printed' \in BOOLEAN
  /\ exit' = IF ~printed' THEN 1
             ELSE IF result = "uncertain" THEN 3 ELSE IF result = "failed" THEN 1 ELSE 0
  /\ pc' = "ended"
  /\ UNCHANGED <<read, rest, args, opts, command, flags, result>>

-----------------------------------------------------------------------------
Init ==
  /\ entry \in {"argv", "session"}
  /\ typed \in Lines
  /\ rest = typed
  /\ args = <<>>
  /\ machine = FALSE
  /\ profile \in IF entry = "argv" THEN {"default"} ELSE {Launched}
  /\ command = None
  /\ confirm = FALSE
  /\ store = None
  /\ pc = IF entry = "argv" THEN "filter" ELSE "gate"
  /\ result = "none"
  /\ printed = FALSE
  /\ exit = 0

Next ==
  \/ Gate \/ Filter \/ FilterEnd \/ Dispatch \/ Config \/ Flag \/ BadFlag \/ FlagsEnd
  \/ Validate \/ Execute \/ Mcp \/ emit

Spec == Init /\ [][Next]_vars

-----------------------------------------------------------------------------
(***************************************************************************)
(* Properties.                                                             *)
(***************************************************************************)

\* The type invariant; past the global flags the profile is one that may be
\* part of a path.
TypeOK ==
  /\ entry \in {"argv", "session"}
  /\ typed \in Seq(Tokens)
  /\ rest \in Seq(Tokens)
  /\ args \in Seq(Tokens)
  /\ machine \in BOOLEAN
  /\ profile \in {"default"} \cup Tokens
  /\ command \in {None} \cup Tokens
  /\ confirm \in BOOLEAN
  /\ store \in {None} \cup Tokens
  /\ pc \in Steps
  /\ result \in Results
  /\ printed \in BOOLEAN
  /\ exit \in {0, 1, 3}
  /\ pc \in {"dispatch", "flags", "validate", "execute", "config", "ask", "mcp", "interactive"}
       => profile \in Profiles

Occurs(t) == \E i \in DOMAIN typed : typed[i] = t

\* The two readers of a line agree on what it is: nothing that the loop hands
\* to App.Run is run there as a write, as a server, as another session or on
\* the stored configuration, whatever flags stand in it.
GateHolds ==
  entry = "session" =>
    /\ pc = "execute" => command \notin Writes
    /\ pc \notin {"mcp", "interactive", "config"}

\* No write is run that was not authorised on the command line itself: not
\* through a flag's value, a profile or a default.
WritesAreAuthorised ==
  pc = "execute" /\ command \in Writes => confirm /\ Occurs("--confirm") /\ Occurs(command)

\* The places of a line where a profile is given, and the one given there.
Places == {i \in DOMAIN typed : \/ typed[i] = "--profile" /\ i < Len(typed)
                                \/ typed[i] \in DOMAIN Inline}
Given(i) == IF typed[i] = "--profile" THEN typed[i + 1] ELSE Inline[typed[i]]

\* A command runs on the account that was chosen for it: the last profile that
\* the line gives, wherever it stands, or else the one that the process or the
\* session was launched with.  A write of a session is asked for on the
\* session's own (cli.go:48-63, 239-263).
AccountIsChosen ==
  /\ pc \in {"execute", "config", "mcp", "interactive"} =>
       /\ profile \in {Given(i) : i \in Places}
                        \cup {IF entry = "argv" THEN "default" ELSE Launched}
       /\ \A i \in Places :
            (\A j \in Places : j <= i) /\ (i > 1 => typed[i - 1] # "--profile")
              => profile = Given(i)
  /\ pc = "ask" => profile = Launched
=============================================================================
