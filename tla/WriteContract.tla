---------------------------- MODULE WriteContract ----------------------------
(***************************************************************************)
(* What the program promises about a write (reserve, cancel), without HTTP *)
(* or reconciliation.  A write has a fate that the caller cannot see: it   *)
(* lands, or it dies, at some time and perhaps after the caller was        *)
(* answered.  The verdict the caller gets is tied to it:                   *)
(*   confirmed  only when what was asked for holds;                        *)
(*   failed     only for a write that is dead, now and for ever;           *)
(*   uncertain  at any time, and then nothing is promised.                 *)
(* service.Result, the README ("uncertain") and the tool descriptions of   *)
(* internal/mcp/server.go give these three words this meaning.             *)
(***************************************************************************)
CONSTANT Calls

VARIABLES
  fate,        \* fate[c]: "open", "landed" or "dead"
  holds,       \* holds[c]: what c asked for has been brought about
  verdict      \* verdict[c]: "none" until the caller is answered

vars == <<fate, holds, verdict>>

Init ==
  /\ fate = [c \in Calls |-> "open"]
  /\ holds = [c \in Calls |-> FALSE]
  /\ verdict = [c \in Calls |-> "none"]

\* What was brought about stays so, and may please other callers too.
Grows == holds' \in [Calls -> BOOLEAN] /\ \A c \in Calls : holds[c] => holds'[c]

\* The write takes effect, once, and not after it was reported as failed.
Land(c) ==
  /\ fate[c] = "open" /\ verdict[c] # "failed"
  /\ fate' = [fate EXCEPT ![c] = "landed"]
  /\ Grows /\ holds'[c]
  /\ UNCHANGED verdict

\* The write is refused, lost, or never leaves.
Die(c) ==
  /\ fate[c] = "open"
  /\ fate' = [fate EXCEPT ![c] = "dead"]
  /\ UNCHANGED <<holds, verdict>>

\* Someone else brings about what a caller asked for.
Others == Grows /\ UNCHANGED <<fate, verdict>>

Confirm(c) ==
  /\ verdict[c] = "none"
  /\ holds[c]
  /\ verdict' = [verdict EXCEPT ![c] = "confirmed"]
  /\ UNCHANGED <<fate, holds>>

\* The caller is told of a failure: the write is dead, at the latest now.
\* It may have asked for something that someone else had brought about.
Fail(c) ==
  /\ verdict[c] = "none" /\ fate[c] # "landed"
  /\ fate' = [fate EXCEPT ![c] = "dead"]
  /\ verdict' = [verdict EXCEPT ![c] = "failed"]
  /\ Grows

Doubt(c) ==
  /\ verdict[c] = "none"
  /\ verdict' = [verdict EXCEPT ![c] = "uncertain"]
  /\ UNCHANGED <<fate, holds>>

Next ==
  \/ \E c \in Calls : Land(c) \/ Die(c) \/ Confirm(c) \/ Fail(c) \/ Doubt(c)
  \/ Others

Spec == Init /\ [][Next]_vars
=============================================================================
