---------------------------- MODULE CommandsProofs ----------------------------
(***************************************************************************)
(* The safety properties of Commands, for lines of any length, any tokens, *)
(* profiles and stores.                                                    *)
(***************************************************************************)
EXTENDS Commands, SequenceTheorems, TLAPS

\* What was typed.
Typed == {typed[i] : i \in DOMAIN typed}

\* A process reads nothing but what was typed, and only --confirm confirms.
OriginInv ==
  entry = "argv" =>
    /\ rest \in Seq(Typed) /\ args \in Seq(Typed)
    /\ command \in {None} \cup Typed
    /\ confirm => "--confirm" \in Typed
    /\ pc # "gate"

\* A word that the loop may hand to App.Run.
Harmless(w) == w \notin Gated \cup Writes

\* The first word of a line of the loop is harmless and stays the first, with
\* the loop's own --profile before it or taken out already.
GateInv ==
  entry = "session" =>
    /\ pc = "gate" => args = <<>>
    /\ pc = "filter" =>
         \/ args # <<>> /\ Harmless(Head(args))
         \/ args = <<>> /\ rest # <<>> /\ ~Dashed(Head(rest)) /\ Harmless(Head(rest))
         \/ /\ args = <<>> /\ Len(rest) > 2 /\ Head(rest) = "--profile"
            /\ ~Dashed(rest[3]) /\ Harmless(rest[3])
    /\ pc = "dispatch" => Harmless(command)
    /\ pc = "execute" => command \notin Writes
    /\ pc \notin {"mcp", "interactive", "config"}

\* A write gets to execute with --confirm only.
ConfirmInv == pc = "execute" /\ command \in Writes /\ entry = "argv" => confirm

\* The places within the first n tokens where a profile is given, and a profile
\* that was chosen from these tokens: the last one given, unless it is itself
\* the value of a flag.
PlacesTo(n) == {i \in 1..n : (typed[i] = "--profile" /\ i < n) \/ typed[i] \in DOMAIN Inline}
Own == IF entry = "argv" THEN "default" ELSE Launched
ChosenBy(n) ==
  /\ profile \in {Given(i) : i \in PlacesTo(n)} \cup {Own}
  /\ \A i \in PlacesTo(n) :
       (\A j \in PlacesTo(n) : j <= i) /\ (i > 1 => typed[i - 1] # "--profile") => profile = Given(i)
  /\ n > 0 /\ typed[n] = "--profile" => n > 1 /\ typed[n - 1] = "--profile"

\* The first n tokens of the line are read.
Read(n) == Len(rest) = Len(typed) - n /\ \A i \in 1..Len(rest) : rest[i] = typed[n + i]

\* The loop's own --profile stands before the line.
Prefixed ==
  /\ entry = "session"
  /\ Len(rest) = Len(typed) + 2 /\ rest[1] = "--profile" /\ rest[2] = Launched
  /\ \A i \in 1..Len(typed) : rest[i + 2] = typed[i]

\* The profile is chosen from what was read of the line, or that of the session
\* for a write of its own.
ProfileInv ==
  /\ pc = "gate" => entry = "session" /\ rest = typed
  /\ pc = "filter" => Prefixed \/ \E n \in 0..Len(typed) : Read(n) /\ ChosenBy(n)
  /\ pc \in {"dispatch", "flags", "validate", "execute", "config", "mcp", "interactive", "ask"} =>
       \/ Asking /\ profile = Launched /\ pc \in {"flags", "validate", "ask"}
       \/ ~Asking /\ ChosenBy(Len(typed)) /\ pc # "ask"

IInv == OriginInv /\ GateInv /\ ConfirmInv /\ ProfileInv

-----------------------------------------------------------------------------
(* How the readers take tokens. *)

LEMMA FilterReads ==
  ASSUME NEW S, rest \in Seq(S), args \in Seq(S), Filter
  PROVE  rest' \in Seq(S) /\ args' \in Seq(S)
<1>1. CASE rest = <<"--profile">>
  BY <1>1 DEF Filter
<1>2. CASE rest # <<"--profile">>
  <2>1. PICK taken \in {1, 2} : rest' = SubSeq(rest, taken + 1, Len(rest))
    BY <1>2 DEF Filter
  <2>2. rest' \in Seq(S)
    <3>1. Len(rest) \in Nat /\ taken + 1 \in Int
      BY LenProperties
    <3>2. \A i \in (taken + 1)..Len(rest) : rest[i] \in S
      BY <3>1, ElementOfSeq
    <3>. QED BY <2>1, <3>1, <3>2, SubSeqProperties
  <2>3. Head(rest) \in S
    BY HeadTailProperties DEF Filter
  <2>4. args' \in {args, Append(args, Head(rest))}
    BY <1>2 DEF Filter
  <2>5. Append(args, Head(rest)) \in Seq(S)
    BY <2>3, AppendProperties
  <2>. QED BY <2>2, <2>4, <2>5
<1>. QED BY <1>1, <1>2

\* The value of a flag is the token that follows it.
LEMMA FilterProfile ==
  ASSUME TypeOK, Filter
  PROVE  profile' \in {"default"} \cup Tokens
<1>1. CASE rest = <<"--profile">>
  BY <1>1 DEF Filter, TypeOK, opts
<1>2. CASE rest # <<"--profile">> /\ Head(rest) = "--profile"
  <2>1. Len(rest) \in Nat \ {0}
    BY EmptySeq DEF Filter, TypeOK
  <2>2. Len(rest) # 1
    BY <1>2, <2>1, SeqEqual DEF TypeOK
  <2>3. rest[2] \in Tokens
    <3>1. 2 \in 1..Len(rest)
      BY <2>1, <2>2
    <3>. QED BY <3>1, ElementOfSeq DEF TypeOK
  <2>. QED BY <1>2, <2>3 DEF Filter
<1>3. CASE Head(rest) # "--profile"
  <2>1. rest # <<"--profile">>
    BY <1>3
  <2>. QED BY <1>3, <2>1, TokensAssumption DEF Filter, TypeOK
<1>. QED BY <1>1, <1>2, <1>3

LEMMA FilterEndReads ==
  ASSUME NEW S, args \in Seq(S), command \in {None} \cup S, FilterEnd
  PROVE  args' \in Seq(S) /\ command' \in {None} \cup S
<1>1. args # <<>> => Head(args) \in S /\ Tail(args) \in Seq(S)
  BY HeadTailProperties
<1>. QED BY <1>1 DEF FilterEnd

LEMMA FlagReads ==
  ASSUME NEW S, args \in Seq(S), Flag
  PROVE  /\ args' \in Seq(S)
         /\ Head(args) \in S
         /\ store' \in {store} \cup S \cup {StoreFlag[t] : t \in DOMAIN StoreFlag}
         /\ confirm' => confirm \/ Head(args) = "--confirm"
<1>1. Head(args) \in S /\ Tail(args) \in Seq(S) /\ Len(Tail(args)) = Len(args) - 1
  BY HeadTailProperties DEF Flag
<1>2. Len(args) \in Nat
  BY LenProperties
<1>3. Len(args) > 1 => args[2] \in S /\ Tail(Tail(args)) \in Seq(S)
  <2>1. ASSUME Len(args) > 1 PROVE Tail(args) # <<>>
    <3>1. Len(Tail(args)) # 0
      BY <1>1, <1>2, <2>1
    <3>2. Len(<<>>) = 0
      BY EmptySeq
    <3>3. ASSUME NEW s, Len(s) # 0 PROVE s # <<>>
      BY <3>2, <3>3, Zenon
    <3>. QED BY <3>1, <3>3, Zenon
  <2>2. Len(args) > 1 => args[2] \in S
    BY <1>2, ElementOfSeq
  <2>. QED BY <1>1, <2>1, <2>2, HeadTailProperties
<1>4. args' \in Seq(S)
  BY <1>1, <1>3 DEF Flag
<1>5. store' \in {store} \cup S \cup {StoreFlag[t] : t \in DOMAIN StoreFlag}
  BY <1>3 DEF Flag
<1>6. confirm' => confirm \/ Head(args) = "--confirm"
  BY DEF Flag
<1>. QED BY <1>1, <1>4, <1>5, <1>6

LEMMA GateReads ==
  ASSUME TypeOK, Gate
  PROVE  /\ rest' \in Seq(Tokens) /\ args' \in Seq(Tokens)
         /\ command' \in {None} \cup Tokens /\ profile' \in {"default"} \cup Tokens
<1>1. rest # <<>> => Head(rest) \in Tokens /\ Tail(rest) \in Seq(Tokens)
  BY HeadTailProperties DEF TypeOK
<1>2. <<"--profile", Launched>> \in Seq(Tokens)
  BY TokensAssumption
<1>3. <<"--profile", Launched>> \o rest \in Seq(Tokens)
  BY <1>2, ConcatProperties DEF TypeOK
<1>. QED BY <1>1, <1>3, TokensAssumption DEF Gate, TypeOK

-----------------------------------------------------------------------------
(* Type correctness. *)

LEMMA TypeInit == Init => TypeOK
<1> SUFFICES ASSUME Init PROVE TypeOK
  OBVIOUS
<1>1. typed \in Seq(Tokens)
  BY LinesAssumption DEF Init
<1>2. <<>> \in Seq(Tokens)
  OBVIOUS
<1>3. profile \in {"default"} \cup Tokens
  BY TokensAssumption DEF Init
<1>. QED BY <1>1, <1>2, <1>3 DEF Init, TypeOK, Steps, Results

\* What emitting a result does, and going on.
LEMMA Ways ==
  /\ \A r \in Results : Emit(r) => pc' = "emit" /\ result' = r /\ UNCHANGED <<printed, exit>>
  /\ \A s : Goto(s) => pc' = s /\ UNCHANGED <<result, printed, exit>>
BY DEF Emit, Goto, out

LEMMA TypeNext == TypeOK /\ [Next]_vars => TypeOK'
<1> SUFFICES ASSUME TypeOK, [Next]_vars PROVE TypeOK'
  OBVIOUS
<1> USE DEF TypeOK, Steps, Results, Emit, Goto, out, read, opts, flags
<1>1. CASE Gate
  <2>1. pc' \in {"skipped", "flags", "filter"} /\ UNCHANGED <<result, printed, exit>>
    BY <1>1 DEF Gate
  <2>2. pc' = "flags" => profile' \in Profiles
    BY <1>1, TokensAssumption DEF Gate
  <2>. QED BY <1>1, <2>1, <2>2, GateReads DEF Gate
<1>2. CASE Filter
  <2>1. machine' \in BOOLEAN
    BY <1>2 DEF Filter
  <2>2. pc' \in {"filter", "emit"} /\ result' \in Results /\ UNCHANGED <<printed, exit>>
    BY <1>2 DEF Filter
  <2>3. rest' \in Seq(Tokens) /\ args' \in Seq(Tokens)
    BY <1>2, FilterReads
  <2>. QED BY <1>2, <2>1, <2>2, <2>3, FilterProfile DEF Filter
<1>3. CASE FilterEnd
  <2>1. args' \in Seq(Tokens) /\ command' \in {None} \cup Tokens
    BY <1>3, FilterEndReads
  <2>2. pc' \in {"dispatch", "emit"} /\ result' \in Results /\ UNCHANGED <<printed, exit>>
    BY <1>3 DEF FilterEnd
  <2>3. pc' = "dispatch" => profile' \in Profiles
    BY <1>3 DEF FilterEnd
  <2>. QED BY <1>3, <2>1, <2>2, <2>3 DEF FilterEnd
<1>4. CASE Dispatch
  <2>1. /\ pc' \in {"emit", "ended", "mcp", "interactive", "config", "flags"}
        /\ result' \in Results /\ exit' \in {0, 1, 3} /\ printed' = printed
    BY <1>4 DEF Dispatch
  <2>. QED BY <1>4, <2>1 DEF Dispatch
<1>5. CASE Config
  BY <1>5 DEF Config
<1>6. CASE Flag
  <2>1. args' \in Seq(Tokens) /\ store' \in {None} \cup Tokens
    BY <1>6, FlagReads, TokensAssumption
  <2>2. confirm' \in BOOLEAN /\ pc = "flags"
    BY <1>6 DEF Flag
  <2>. QED BY <1>6, <2>1, <2>2 DEF Flag
<1>7. CASE BadFlag \/ FlagsEnd \/ Validate
  BY <1>7 DEF BadFlag, FlagsEnd, Validate
<1>8. CASE Execute
  BY <1>8 DEF Execute
<1>9. CASE Mcp
  BY <1>9 DEF Mcp, Stop
<1>10. CASE emit
  BY <1>10 DEF emit
<1>11. CASE UNCHANGED vars
  BY <1>11 DEF vars
<1>. QED BY <1>1, <1>2, <1>3, <1>4, <1>5, <1>6, <1>7, <1>8, <1>9, <1>10, <1>11 DEF Next

-----------------------------------------------------------------------------
(* Where tokens come from. *)

LEMMA OriginNext == TypeOK /\ OriginInv /\ [Next]_vars => OriginInv'
<1> SUFFICES ASSUME TypeOK, OriginInv, [Next]_vars, entry' = "argv" PROVE OriginInv'
  BY DEF OriginInv
<1>1. entry = "argv" /\ Typed' = Typed
  BY DEF Next, vars, Gate, Filter, FilterEnd, Dispatch, Config, Flag, BadFlag, FlagsEnd,
         Validate, Execute, Mcp, Stop, emit, read, Typed
<1>2. /\ rest \in Seq(Typed) /\ args \in Seq(Typed)
      /\ command \in {None} \cup Typed
      /\ confirm => "--confirm" \in Typed
      /\ pc # "gate"
  BY <1>1 DEF OriginInv
<1> HIDE DEF Typed
<1>3. CASE UNCHANGED <<rest, args, command, confirm>> /\ pc' # "gate"
  BY <1>1, <1>2, <1>3 DEF OriginInv
<1>4. CASE Filter
  <2>1. UNCHANGED <<command, confirm>> /\ pc' # "gate"
    BY <1>4 DEF Filter, flags, Emit, Goto
  <2>. QED BY <1>1, <1>2, <1>4, <2>1, FilterReads DEF OriginInv
<1>5. CASE FilterEnd
  <2>1. UNCHANGED <<rest, confirm>> /\ pc' # "gate"
    BY <1>5 DEF FilterEnd, flags, Emit, Goto
  <2>. QED BY <1>1, <1>2, <1>5, <2>1, FilterEndReads DEF OriginInv
<1>6. CASE Flag
  <2>1. UNCHANGED <<rest, command>> /\ pc' # "gate"
    BY <1>6 DEF Flag, Goto
  <2>. QED BY <1>1, <1>2, <1>6, <2>1, FlagReads DEF OriginInv
<1>7. CASE Dispatch \/ Config \/ BadFlag \/ FlagsEnd \/ Validate \/ Execute \/ Mcp \/ emit
  <2>1. UNCHANGED <<rest, args, command, confirm>>
    BY <1>7 DEF Dispatch, Config, BadFlag, FlagsEnd, Validate, Execute, Mcp, emit, Stop, flags
  <2>2. pc' # "gate"
    BY <1>7 DEF Dispatch, Config, BadFlag, FlagsEnd, Validate, Execute, Mcp, emit, Stop,
                Emit, Goto
  <2>. QED BY <1>3, <2>1, <2>2
<1>8. CASE UNCHANGED vars
  BY <1>2, <1>3, <1>8 DEF vars
<1>. QED BY <1>2, <1>4, <1>5, <1>6, <1>7, <1>8 DEF Next, Gate

-----------------------------------------------------------------------------
(* What the loop lets through. *)

\* The words of the program are not one another's flags.
LEMMA Words ==
  /\ Gated \cap Operations = {} /\ Writes \subseteq Operations
  /\ None \notin Gated \cup Operations
  /\ Dashed("--profile")
BY DEF Gated, Operations, Writes, None, Dashed

LEMMA GateFilter ==
  ASSUME TypeOK, GateInv, entry = "session", Filter, pc' = "filter"
  PROVE  \/ args' # <<>> /\ Harmless(Head(args'))
         \/ args' = <<>> /\ rest' # <<>> /\ ~Dashed(Head(rest')) /\ Harmless(Head(rest'))
<1>1. rest # <<"--profile">> /\ pc = "filter" /\ rest # <<>>
  BY DEF Filter, Emit, Goto
<1>2. Head(rest) \in Tokens /\ Len(rest) \in Nat
  BY <1>1, HeadTailProperties, LenProperties DEF TypeOK
<1>3. CASE args # <<>> /\ Harmless(Head(args))
  <2>1. args' \in {args, Append(args, Head(rest))}
    BY <1>1 DEF Filter
  <2>. QED BY <1>2, <1>3, <2>1, HeadTailAppend, AppendProperties DEF TypeOK
<1>4. CASE args = <<>> /\ ~Dashed(Head(rest)) /\ Harmless(Head(rest))
  <2>1. args' = Append(args, Head(rest))
    BY <1>1, <1>4 DEF Filter, Dashed
  <2>. QED BY <1>2, <1>4, <2>1, HeadTailAppend, AppendProperties DEF TypeOK
<1>5. CASE /\ args = <<>> /\ Len(rest) > 2 /\ Head(rest) = "--profile"
           /\ ~Dashed(rest[3]) /\ Harmless(rest[3])
  <2>1. rest' = SubSeq(rest, 3, Len(rest)) /\ args' = args
    BY <1>1, <1>5 DEF Filter
  <2>2. Head(rest') = rest[3]
    BY <1>2, <1>5, <2>1, HeadTailOfSubSeq DEF TypeOK
  <2>3. rest' # <<>>
    <3>1. \A i \in 3..Len(rest) : rest[i] \in Tokens
      BY <1>2, ElementOfSeq DEF TypeOK
    <3>2. Len(rest') = Len(rest) - 2
      BY <1>2, <1>5, <2>1, <3>1, SubSeqProperties
    <3>. QED BY <1>2, <1>5, <3>2, EmptySeq
  <2>. QED BY <1>5, <2>1, <2>2, <2>3
<1>. QED BY <1>1, <1>3, <1>4, <1>5 DEF GateInv

LEMMA GateNext == TypeOK /\ GateInv /\ [Next]_vars => GateInv'
<1> SUFFICES ASSUME TypeOK, GateInv, [Next]_vars, entry' = "session" PROVE GateInv'
  BY DEF GateInv
<1>1. entry = "session"
  BY DEF Next, vars, Gate, Filter, FilterEnd, Dispatch, Config, Flag, BadFlag, FlagsEnd,
         Validate, Execute, Mcp, Stop, emit, read
<1>2. CASE Gate
  <2>1. CASE pc' = "filter"
    <3>1. /\ rest # <<>> /\ ~Dashed(Head(rest)) /\ Harmless(Head(rest))
          /\ rest' = <<"--profile", Launched>> \o rest /\ args' = args
      BY <1>2, <2>1 DEF Gate, Goto, Harmless
    <3>2. <<"--profile", Launched>> \in Seq(Tokens) /\ Len(<<"--profile", Launched>>) = 2
      BY TokensAssumption
    <3>3. Len(rest) \in Nat \ {0} /\ Head(rest) = rest[1]
      BY <3>1, EmptySeq DEF TypeOK
    <3>4. /\ Len(rest') = 2 + Len(rest)
          /\ rest'[1] = "--profile" /\ rest'[3] = rest[1]
          /\ rest' \in Seq(Tokens)
      BY <3>1, <3>2, <3>3, ConcatProperties DEF TypeOK
    <3>5. Head(rest') = "--profile" /\ Len(rest') > 2
      BY <3>3, <3>4
    <3>6. ~Dashed(rest'[3]) /\ Harmless(rest'[3])
      BY <3>1, <3>3, <3>4
    <3>7. \/ args' # <<>> /\ Harmless(Head(args'))
          \/ args' = <<>> /\ Len(rest') > 2 /\ Head(rest') = "--profile"
             /\ ~Dashed(rest'[3]) /\ Harmless(rest'[3])
      <4>1. args = <<>>
        BY <1>1, <1>2 DEF Gate, GateInv
      <4>. QED BY <3>1, <3>5, <3>6, <4>1
    <3>. QED BY <2>1, <3>7 DEF GateInv
  <2>. QED BY <1>2, <2>1 DEF Gate, Goto, GateInv
<1>3. CASE Filter
  <2>1. pc' \in {"filter", "emit"}
    BY <1>3 DEF Filter, Emit, Goto
  <2>. QED BY <1>1, <1>3, <2>1, GateFilter DEF GateInv
<1>4. CASE FilterEnd
  <2>1. pc' = "dispatch" => args # <<>> /\ command' = Head(args) /\ Harmless(Head(args))
    BY <1>1, <1>4 DEF FilterEnd, Emit, Goto, GateInv
  <2>2. pc' \in {"dispatch", "emit"}
    BY <1>4 DEF FilterEnd, Emit, Goto
  <2>. QED BY <2>1, <2>2 DEF GateInv
<1>5. CASE Dispatch
  <2>1. Harmless(command)
    BY <1>1, <1>5 DEF Dispatch, GateInv
  <2>2. pc' \in {"emit", "ended", "flags"}
    BY <1>5, <2>1 DEF Dispatch, Harmless, Gated, Emit, Goto
  <2>. QED BY <2>2 DEF GateInv
<1>6. CASE Config \/ Mcp
  BY <1>1, <1>6 DEF Config, Mcp, GateInv
<1>7. CASE Flag \/ BadFlag \/ FlagsEnd
  BY <1>7 DEF Flag, BadFlag, FlagsEnd, Emit, Goto, GateInv
<1>8. CASE Validate
  BY <1>1, <1>8 DEF Validate, Asking, Emit, Goto, GateInv
<1>9. CASE Execute \/ emit
  BY <1>9 DEF Execute, emit, Emit, GateInv
<1>10. CASE UNCHANGED vars
  BY <1>10 DEF vars, GateInv
<1>. QED BY <1>2, <1>3, <1>4, <1>5, <1>6, <1>7, <1>8, <1>9, <1>10 DEF Next

-----------------------------------------------------------------------------
(* Authorisation. *)

LEMMA ConfirmNext == TypeOK /\ ConfirmInv /\ [Next]_vars => ConfirmInv'
<1> SUFFICES ASSUME TypeOK, ConfirmInv, [Next]_vars PROVE ConfirmInv'
  OBVIOUS
<1>1. CASE Validate
  BY <1>1 DEF Validate, Asking, Emit, Goto, ConfirmInv, read, flags
<1>2. CASE UNCHANGED vars
  BY <1>2 DEF vars, ConfirmInv
<1>3. CASE ~Validate /\ Next
  <2>1. pc' # "execute"
    BY <1>3 DEF Next, Gate, Filter, FilterEnd, Dispatch, Config, Flag, BadFlag, FlagsEnd,
                Execute, Mcp, Stop, emit, Emit, Goto
  <2>. QED BY <2>1 DEF ConfirmInv
<1>. QED BY <1>1, <1>2, <1>3

-----------------------------------------------------------------------------
(* The profile. *)

\* One step of the filter: one token, or two with the value of --profile.
LEMMA FilterTakes ==
  ASSUME TypeOK, Filter, pc' = "filter"
  PROVE  /\ Len(rest) \in Nat \ {0}
         /\ \E taken \in {1, 2} :
              /\ taken = 2 <=> rest[1] = "--profile"
              /\ taken <= Len(rest)
              /\ Len(rest') = Len(rest) - taken
              /\ \A i \in 1..Len(rest') : rest'[i] = rest[i + taken]
         /\ profile' = IF rest[1] = "--profile" THEN rest[2]
                       ELSE IF rest[1] \in DOMAIN Inline THEN Inline[rest[1]] ELSE profile
         /\ typed' = typed /\ entry' = entry
<1>1. rest # <<"--profile">> /\ pc = "filter" /\ rest # <<>>
  BY DEF Filter, Emit, Goto
<1>2. Len(rest) \in Nat \ {0}
  BY <1>1, EmptySeq DEF TypeOK
<1>9. Head(rest) = rest[1] /\ rest[1] \in Tokens
  <2>1. 1 \in 1..Len(rest)
    BY <1>2
  <2>. QED BY <1>2, <2>1, ElementOfSeq DEF TypeOK
<1>3. rest[1] = "--profile" => Len(rest) > 1
  <2>1. <<"--profile">> \in Seq(Tokens)
    BY TokensAssumption
  <2>2. ASSUME rest[1] = "--profile", Len(rest) = 1 PROVE FALSE
    BY <1>1, <2>1, <2>2, SeqEqual DEF TypeOK
  <2>3. \A m \in Nat \ {0} : m # 1 => m > 1
    OBVIOUS
  <2>. QED BY <1>2, <2>2, <2>3
<1> DEFINE taken == IF rest[1] = "--profile" THEN 2 ELSE 1
<1>4. rest' = SubSeq(rest, taken + 1, Len(rest)) /\ taken \in {1, 2} /\ taken <= Len(rest)
  BY <1>1, <1>2, <1>3, <1>9 DEF Filter
<1>8. taken = 2 <=> rest[1] = "--profile"
  OBVIOUS
<1> HIDE DEF taken
<1>5. Len(rest') = Len(rest) - taken /\ \A i \in 1..Len(rest') : rest'[i] = rest[i + taken]
  <2>1. \A i \in (taken + 1)..Len(rest) : rest[i] \in Tokens
    <3>1. \A i \in (taken + 1)..Len(rest) : i \in 1..Len(rest)
      BY <1>2, <1>4
    <3>. QED BY <3>1, ElementOfSeq DEF TypeOK
  <2>2. taken + 1 \in Int /\ Len(rest) \in Int
    BY <1>2, <1>4
  <2>3. /\ Len(rest') = IF taken + 1 <= Len(rest) THEN Len(rest) - (taken + 1) + 1 ELSE 0
        /\ \A i \in 1..(Len(rest) - (taken + 1) + 1) : rest'[i] = rest[taken + 1 + i - 1]
    BY <1>4, <2>1, <2>2, SubSeqProperties
  <2>4. Len(rest') = Len(rest) - taken
    BY <1>2, <1>4, <2>3
  <2>5. ASSUME NEW i \in 1..Len(rest') PROVE rest'[i] = rest[i + taken]
    <3>1. i \in 1..(Len(rest) - (taken + 1) + 1) /\ taken + 1 + i - 1 = i + taken
      BY <1>2, <1>4, <2>4
    <3>. QED BY <2>3, <3>1
  <2>. QED BY <2>4, <2>5
<1>6. profile' = IF rest[1] = "--profile" THEN rest[2]
                 ELSE IF rest[1] \in DOMAIN Inline THEN Inline[rest[1]] ELSE profile
  BY <1>1, <1>9 DEF Filter
<1>7. typed' = typed /\ entry' = entry
  BY DEF Filter, read
<1>. QED BY <1>2, <1>4, <1>5, <1>6, <1>7, <1>8

\* The profile chosen from n tokens, and then from those that a step reads.
LEMMA FilterChooses ==
  ASSUME TypeOK, Filter, pc' = "filter", NEW n \in 0..Len(typed), Read(n), ChosenBy(n)
  PROVE  \E k \in 0..Len(typed)' : Read(k)' /\ ChosenBy(k)'
<1>1. PICK taken \in {1, 2} :
        /\ taken = 2 <=> rest[1] = "--profile"
        /\ taken <= Len(rest)
        /\ Len(rest') = Len(rest) - taken
        /\ \A i \in 1..Len(rest') : rest'[i] = rest[i + taken]
  BY FilterTakes
<1>2. /\ Len(rest) \in Nat \ {0} /\ typed' = typed /\ entry' = entry
      /\ profile' = IF rest[1] = "--profile" THEN rest[2]
                    ELSE IF rest[1] \in DOMAIN Inline THEN Inline[rest[1]] ELSE profile
  BY FilterTakes
<1>3. Len(typed) \in Nat /\ n \in Nat /\ n <= Len(typed) /\ Len(rest) = Len(typed) - n
  BY LenProperties DEF TypeOK, Read
<1> DEFINE k == n + taken
<1>4. k \in 0..Len(typed) /\ rest[1] = typed[n + 1]
  BY <1>1, <1>2, <1>3 DEF Read
<1>5. Read(k)'
  <2>1. Len(rest') = Len(typed) - k
    BY <1>1, <1>3
  <2>2. ASSUME NEW i \in 1..Len(rest') PROVE rest'[i] = typed[k + i]
    <3>1. i + taken \in 1..Len(rest) /\ n + (i + taken) = k + i
      BY <1>1, <1>2, <1>3, <2>1
    <3>. QED BY <1>1, <3>1 DEF Read
  <2>. QED BY <1>2, <2>1, <2>2 DEF Read
<1>6. /\ profile' \in {Given(i) : i \in PlacesTo(k)} \cup {Own}
      /\ \A i \in PlacesTo(k) :
           (\A j \in PlacesTo(k) : j <= i) /\ (i > 1 => typed[i - 1] # "--profile")
             => profile' = Given(i)
      /\ typed[k] = "--profile" => k > 1 /\ typed[k - 1] = "--profile"
  <2>1. "--profile" \notin DOMAIN Inline
    BY TokensAssumption
  <2>2. CASE typed[n + 1] = "--profile"
    <3>1. taken = 2 /\ k = n + 2 /\ profile' = typed[n + 2]
      BY <1>1, <1>2, <1>3, <1>4, <2>2 DEF Read
    <3>2. n + 1 \in PlacesTo(k) /\ profile' = Given(n + 1) /\ k - 1 = n + 1
      BY <1>3, <2>2, <3>1 DEF PlacesTo, Given
    <3>3. ASSUME NEW i \in PlacesTo(k), \A j \in PlacesTo(k) : j <= i
          PROVE  i = n + 1 \/ (i = n + 2 /\ typed[i - 1] = "--profile")
      BY <1>3, <2>2, <3>1, <3>2, <3>3 DEF PlacesTo
    <3>. QED BY <1>3, <2>2, <3>1, <3>2, <3>3
  <2>3. CASE typed[n + 1] \in DOMAIN Inline
    <3>1. taken = 1 /\ k = n + 1 /\ profile' = Inline[typed[n + 1]]
      BY <1>1, <1>2, <1>3, <1>4, <2>1, <2>3
    <3>2. n + 1 \in PlacesTo(k) /\ profile' = Given(n + 1) /\ typed[k] # "--profile"
      BY <1>3, <2>1, <2>3, <3>1 DEF PlacesTo, Given
    <3>3. ASSUME NEW i \in PlacesTo(k), \A j \in PlacesTo(k) : j <= i
          PROVE  i = n + 1
      BY <1>3, <3>1, <3>2, <3>3 DEF PlacesTo
    <3>. QED BY <3>2, <3>3
  <2>4. CASE typed[n + 1] # "--profile" /\ typed[n + 1] \notin DOMAIN Inline
    <3>1. taken = 1 /\ k = n + 1 /\ profile' = profile
      BY <1>1, <1>2, <1>3, <1>4, <2>4
    <3>2. PlacesTo(k) = PlacesTo(n) \cup {i \in {n} : n > 0 /\ typed[n] = "--profile"}
      BY <1>3, <2>4, <3>1 DEF PlacesTo
    <3>3. ASSUME NEW i \in PlacesTo(k), \A j \in PlacesTo(k) : j <= i,
                 i > 1 => typed[i - 1] # "--profile"
          PROVE  profile = Given(i)
      <4>1. i \in PlacesTo(n)
        BY <1>3, <3>2, <3>3 DEF ChosenBy
      <4>. QED BY <3>2, <3>3, <4>1 DEF ChosenBy
    <3>4. profile \in {Given(i) : i \in PlacesTo(k)} \cup {Own}
      BY <3>2 DEF ChosenBy
    <3>. QED BY <2>4, <3>1, <3>3, <3>4
  <2>. QED BY <2>2, <2>3, <2>4
<1>7. ChosenBy(k)'
  BY <1>2, <1>6 DEF ChosenBy, PlacesTo, Own, Given
<1>. QED BY <1>2, <1>4, <1>5, <1>7

\* The loop's own --profile is read first.
LEMMA PrefixChooses ==
  ASSUME TypeOK, Filter, pc' = "filter", Prefixed
  PROVE  \E k \in 0..Len(typed)' : Read(k)' /\ ChosenBy(k)'
<1>1. PICK taken \in {1, 2} :
        /\ taken = 2 <=> rest[1] = "--profile"
        /\ Len(rest') = Len(rest) - taken
        /\ \A i \in 1..Len(rest') : rest'[i] = rest[i + taken]
  BY FilterTakes
<1>2. typed' = typed /\ entry' = "session" /\ profile' = Launched
  BY FilterTakes DEF Prefixed
<1>3. Len(typed) \in Nat
  BY LenProperties DEF TypeOK
<1>4. Read(0)'
  BY <1>1, <1>2, <1>3 DEF Prefixed, Read
<1>5. ChosenBy(0)'
  <2>1. PlacesTo(0)' = {}
    BY DEF PlacesTo
  <2>2. Own' = Launched
    BY <1>2 DEF Own
  <2>. QED BY <1>2, <2>1, <2>2 DEF ChosenBy
<1>. QED BY <1>2, <1>3, <1>4, <1>5

\* A step that leaves the profile, the line and the command alone.
LEMMA ProfileKeep ==
  ASSUME ProfileInv, UNCHANGED <<entry, typed, profile, command>>, pc' \notin {"gate", "filter"},
         pc' \in {"dispatch", "flags", "validate", "execute", "config", "mcp", "interactive", "ask"} =>
           /\ pc \in {"dispatch", "flags", "validate"}
           /\ Asking => pc' \in {"flags", "validate", "ask"}
           /\ ~Asking => pc' # "ask"
  PROVE  ProfileInv'
<1>1. Asking' = Asking
  BY DEF Asking
<1>2. ChosenBy(Len(typed))' = ChosenBy(Len(typed))
  BY DEF ChosenBy, PlacesTo, Own, Given
<1>. QED BY <1>1, <1>2 DEF ProfileInv

LEMMA ProfileNext == TypeOK /\ GateInv /\ ProfileInv /\ [Next]_vars => ProfileInv'
<1> SUFFICES ASSUME TypeOK, GateInv, ProfileInv, [Next]_vars PROVE ProfileInv'
  OBVIOUS
<1>1. CASE Gate
  <2>1. entry = "session" /\ rest = typed /\ entry' = entry /\ typed' = typed
    BY <1>1 DEF Gate, ProfileInv, read
  <2>2. CASE pc' = "filter"
    <3>1. rest' = <<"--profile", Launched>> \o typed
      BY <1>1, <2>1, <2>2 DEF Gate, Goto
    <3>2. <<"--profile", Launched>> \in Seq(Tokens) /\ Len(<<"--profile", Launched>>) = 2
      BY TokensAssumption
    <3>3. Len(typed) \in Nat
      BY LenProperties DEF TypeOK
    <3>4. /\ Len(rest') = 2 + Len(typed)
          /\ \A i \in 1..(2 + Len(typed)) :
               rest'[i] = IF i <= 2 THEN <<"--profile", Launched>>[i] ELSE typed[i - 2]
      BY <3>1, <3>2, ConcatProperties DEF TypeOK
    <3>5. rest'[1] = "--profile" /\ rest'[2] = Launched
      BY <3>3, <3>4
    <3>6. \A i \in 1..Len(typed) : rest'[i + 2] = typed[i]
      BY <3>3, <3>4
    <3>7. Prefixed'
      BY <2>1, <3>3, <3>4, <3>5, <3>6 DEF Prefixed
    <3>. QED BY <2>2, <3>7 DEF ProfileInv
  <2>3. CASE pc' = "flags"
    <3>1. command' \in Writes /\ profile' = Launched
      BY <1>1, <2>3 DEF Gate, Goto
    <3>. QED BY <2>1, <2>3, <3>1 DEF ProfileInv, Asking
  <2>4. CASE pc' = "skipped"
    BY <2>4 DEF ProfileInv
  <2>. QED BY <1>1, <2>2, <2>3, <2>4 DEF Gate, Goto
<1>2. CASE Filter
  <2>1. pc = "filter" /\ pc' \in {"filter", "emit"}
    BY <1>2 DEF Filter, Emit, Goto
  <2>2. CASE pc' = "filter"
    <3>1. \E k \in 0..Len(typed)' : Read(k)' /\ ChosenBy(k)'
      BY <1>2, <2>1, <2>2, FilterChooses, PrefixChooses DEF ProfileInv
    <3>. QED BY <2>2, <3>1 DEF ProfileInv
  <2>3. CASE pc' = "emit"
    BY <2>3 DEF ProfileInv
  <2>. QED BY <2>1, <2>2, <2>3
<1>3. CASE FilterEnd
  <2>1. pc = "filter" /\ rest = <<>> /\ UNCHANGED <<entry, typed, profile>>
    BY <1>3 DEF FilterEnd, read, opts
  <2>2. Len(typed) \in Nat /\ Len(rest) = 0
    BY <2>1, LenProperties DEF TypeOK
  <2>3. ChosenBy(Len(typed))
    <3>1. ~Prefixed
      BY <2>2 DEF Prefixed
    <3>2. PICK n \in 0..Len(typed) : Read(n) /\ ChosenBy(n)
      BY <2>1, <3>1 DEF ProfileInv
    <3>3. n = Len(typed)
      BY <2>2, <3>2 DEF Read
    <3>. QED BY <3>2, <3>3
  <2>4. ChosenBy(Len(typed))'
    BY <2>1, <2>3 DEF ChosenBy, PlacesTo, Own, Given
  <2>5. pc' = "dispatch" => ~Asking'
    <3>1. ASSUME pc' = "dispatch", entry' = "session"
          PROVE  command' = Head(args) /\ Harmless(Head(args))
      BY <1>3, <2>1, <3>1 DEF FilterEnd, Emit, Goto, GateInv
    <3>. QED BY <3>1 DEF Asking, Harmless
  <2>. QED BY <1>3, <2>4, <2>5 DEF FilterEnd, Emit, Goto, ProfileInv
<1>4. CASE Dispatch
  <2>1. ~Asking
    BY <1>4 DEF Dispatch, ProfileInv
  <2>2. /\ pc = "dispatch" /\ pc' \in {"emit", "ended", "mcp", "interactive", "config", "flags"}
        /\ UNCHANGED <<entry, typed, profile, command>>
    BY <1>4 DEF Dispatch, Emit, Goto, read, opts
  <2>. QED BY <2>1, <2>2, ProfileKeep
<1>5. CASE Config \/ Execute \/ Mcp \/ emit \/ BadFlag
  <2>1. pc' \in {"emit", "ended"}
    BY <1>5 DEF Config, Execute, Mcp, emit, BadFlag, Emit, Stop
  <2>. QED BY <2>1 DEF ProfileInv
<1>6. CASE Flag \/ FlagsEnd \/ Validate
  <2>1. /\ pc \in {"flags", "validate"} /\ UNCHANGED <<entry, typed, profile, command>>
        /\ pc' \in {"flags", "validate", "emit"} \/ (pc' = IF Asking THEN "ask" ELSE "execute")
    BY <1>6 DEF Flag, FlagsEnd, Validate, Emit, Goto, read, opts
  <2>. QED BY <2>1, ProfileKeep
<1>7. CASE UNCHANGED vars
  <2>1. Asking' = Asking /\ Prefixed' = Prefixed /\ Len(typed)' = Len(typed)
    BY <1>7 DEF vars, Asking, Prefixed
  <2>2. \A n : Read(n)' = Read(n) /\ ChosenBy(n)' = ChosenBy(n)
    BY <1>7 DEF vars, Read, ChosenBy, PlacesTo, Own, Given
  <2>. QED BY <1>7, <2>1, <2>2 DEF vars, ProfileInv
<1>. QED BY <1>1, <1>2, <1>3, <1>4, <1>5, <1>6, <1>7 DEF Next

LEMMA Invariant == Spec => [](TypeOK /\ IInv)
<1>1. Init => IInv
  <2> SUFFICES ASSUME Init PROVE IInv
    OBVIOUS
  <2>1. typed \in Seq(Tokens)
    BY LinesAssumption DEF Init
  <2>2. typed \in Seq(Typed)
    <3>1. Len(typed) \in Nat /\ DOMAIN typed = 1..Len(typed)
      BY <2>1, LenProperties
    <3>2. typed = [i \in 1..Len(typed) |-> typed[i]]
      BY <2>1
    <3>. QED BY <3>1, <3>2 DEF Typed
  <2>3. <<>> \in Seq(Typed)
    OBVIOUS
  <2>4. OriginInv
    BY <2>2, <2>3 DEF Init, OriginInv
  <2>5. GateInv /\ ConfirmInv
    BY DEF Init, GateInv, ConfirmInv
  <2>6. ProfileInv
    <3>1. Len(typed) \in Nat
      BY <2>1, LenProperties
    <3>2. pc = "filter" => Read(0) /\ ChosenBy(0)
      <4>1. PlacesTo(0) = {}
        BY DEF PlacesTo
      <4>. QED BY <3>1, <4>1 DEF Init, Read, ChosenBy, Own
    <3>. QED BY <3>1, <3>2 DEF Init, ProfileInv
  <2>. QED BY <2>4, <2>5, <2>6 DEF IInv
<1>2. TypeOK /\ IInv /\ [Next]_vars => IInv'
  BY OriginNext, GateNext, ConfirmNext, ProfileNext DEF IInv
<1>. QED BY <1>1, <1>2, TypeInit, TypeNext, PTL DEF Spec

-----------------------------------------------------------------------------
(* The properties. *)

\* Every variable keeps its type, and the profile is valid past the flags.
THEOREM TypeCorrect == Spec => []TypeOK
<1>. QED BY Invariant, PTL

\* No line of the loop is run by App.Run as what the loop would have refused
\* or asked about.
THEOREM GateIsTight == Spec => []GateHolds
<1>1. IInv => GateHolds
  BY DEF IInv, GateInv, GateHolds
<1>. QED BY <1>1, Invariant, PTL

\* A write that is run was typed as a write and with --confirm.
THEOREM WritesWereAuthorised == Spec => []WritesAreAuthorised
<1>1. TypeOK /\ IInv => WritesAreAuthorised
  <2> SUFFICES ASSUME TypeOK, IInv, pc = "execute", command \in Writes
               PROVE  confirm /\ Occurs("--confirm") /\ Occurs(command)
    BY DEF WritesAreAuthorised
  <2>1. entry = "argv"
    BY DEF IInv, GateInv, TypeOK
  <2>2. confirm /\ "--confirm" \in Typed /\ command \in Typed
    BY <2>1, Words DEF IInv, ConfirmInv, OriginInv
  <2>. QED BY <2>2 DEF Typed, Occurs
<1>. QED BY <1>1, Invariant, PTL

\* What is run, is run on the last profile that the line gives, or on the one
\* that the process or the session was launched with.
THEOREM ProfileIsChosen == Spec => []AccountIsChosen
<1>1. TypeOK /\ IInv => AccountIsChosen
  <2> SUFFICES ASSUME TypeOK, IInv PROVE AccountIsChosen
    OBVIOUS
  <2>1. pc \in {"execute", "config", "mcp", "interactive"} => ChosenBy(Len(typed))
    BY DEF IInv, ProfileInv
  <2>2. pc = "ask" => profile = Launched
    BY DEF IInv, ProfileInv
  <2>3. PlacesTo(Len(typed)) = Places
    <3>1. DOMAIN typed = 1..Len(typed)
      BY LenProperties DEF TypeOK
    <3>. QED BY <3>1 DEF PlacesTo, Places
  <2>. QED BY <2>1, <2>2, <2>3 DEF ChosenBy, Own, AccountIsChosen
<1>. QED BY <1>1, Invariant, PTL
=============================================================================
