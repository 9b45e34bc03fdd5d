--------------------------- MODULE ConfigContract ---------------------------
(***************************************************************************)
(* What the program promises about one profile's configuration, without    *)
(* files, directories or mutexes: an atomic register that holds a whole    *)
(* configuration or none.  A load, an import or a deletion acts on it at   *)
(* one moment between its call and its return; what is refused has done    *)
(* nothing; and only a power loss takes the register back, to what it held *)
(* when it was last made safe.                                             *)
(***************************************************************************)
CONSTANTS
  Calls,    \* the loads, imports and deletions
  Initial,  \* the configuration that was there before
  Nothing   \* there is no configuration

VARIABLES
  current,  \* the configuration in force: Initial, Nothing, or that of an import
  backed,   \* the one that a power loss brings back
  taken,    \* taken[c]: what load c took or import c put in force, {} before
  report    \* report[c]: "idle", "open" once called, or what the caller is told

vars == <<current, backed, taken, report>>

Tell(c, what) == report[c] = "open" /\ report' = [report EXCEPT ![c] = what]
PutInForce(configuration) == current' = configuration /\ UNCHANGED backed

Init ==
  /\ current \in {Initial, Nothing}
  /\ backed = current
  /\ taken = [c \in Calls |-> {}]
  /\ report = [c \in Calls |-> "idle"]

Call(c) ==
  /\ report[c] = "idle"
  /\ report' = [report EXCEPT ![c] = "open"]
  /\ UNCHANGED <<current, backed, taken>>

\* A load takes what is in force, and is told of it later.
Take(c) ==
  /\ report[c] = "open" /\ taken[c] = {} /\ current # Nothing
  /\ taken' = [taken EXCEPT ![c] = {current}]
  /\ UNCHANGED <<current, backed, report>>

Loaded(c) ==
  /\ taken[c] \notin {{}, {c}}
  /\ Tell(c, "loaded")
  /\ UNCHANGED <<current, backed, taken>>

Missing(c) ==
  /\ taken[c] = {} /\ current = Nothing
  /\ Tell(c, "missing")
  /\ UNCHANGED <<current, backed, taken>>

\* An import is in force at once and as a whole.
Put(c) ==
  /\ report[c] = "open" /\ taken[c] = {}
  /\ PutInForce(c)
  /\ taken' = [taken EXCEPT ![c] = {c}]
  /\ UNCHANGED report

Saved(c) ==
  /\ taken[c] = {c}
  /\ Tell(c, "saved")
  /\ UNCHANGED <<current, backed, taken>>

Remove(c) ==
  /\ taken[c] = {}
  /\ PutInForce(Nothing)
  /\ Tell(c, "removed")
  /\ UNCHANGED taken

\* An error is told: whatever the call took is forgotten, and it put nothing.
Refuse(c) ==
  /\ taken[c] # {c}
  /\ Tell(c, "refused")
  /\ taken' = [taken EXCEPT ![c] = {}]
  /\ UNCHANGED <<current, backed>>

\* Calls die with their process, and a power loss may undo the last changes.
Die ==
  /\ UNCHANGED <<backed, report>>
  /\ current' \in {current, backed}
  /\ \A c \in Calls : \/ taken'[c] = taken[c]
                      \/ report[c] = "open" /\ taken[c] # {c} /\ taken'[c] = {}
  /\ taken' \in [Calls -> SUBSET ({Initial, Nothing} \cup Calls)]

\* What is in force is safe from then on.
Settle == backed' = current /\ UNCHANGED <<current, taken, report>>

Next ==
  \/ Die
  \/ Settle
  \/ \E c \in Calls :
       \/ Call(c)
       \/ Take(c) \/ Loaded(c) \/ Missing(c)
       \/ Put(c) \/ Saved(c) \/ Remove(c)
       \/ Refuse(c)

Spec == Init /\ [][Next]_vars
=============================================================================
