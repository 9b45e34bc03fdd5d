-------------------------- MODULE ConfigRefinement --------------------------
(***************************************************************************)
(* ConfigStore implements ConfigContract: the configuration in force is    *)
(* the document in the file that <profile>.json names, a load takes it     *)
(* when it has opened the file that it looked at, and an import puts it in *)
(* force by the rename.                                                    *)
(***************************************************************************)
EXTENDS ConfigStore

\* The document in a file; an import's that is not all there is torn.
Document(f) == IF f \in Calls /\ disk[f] # "good" THEN "torn" ELSE f

TakenBy(c) ==
  IF c \in published THEN {c}
  ELSE IF op[c] = "load" /\ (pc[c] = "read" \/ Ended(c, "loaded")) THEN {got[c]}
  ELSE {}

ReportOf(c) ==
  IF pc[c] = "idle" THEN "idle"
  ELSE IF pc[c] # "done" THEN "open"
  ELSE IF outcome[c] \in {"loaded", "missing", "saved", "removed"} THEN outcome[c]
  ELSE "refused"

Contract == INSTANCE ConfigContract WITH
  Initial <- Original,
  Nothing <- NoFile,
  current <- Document(path),
  backed  <- Document(durable.path),
  taken   <- [c \in Calls |-> TakenBy(c)],
  report  <- [c \in Calls |-> ReportOf(c)]

\* The stores are an atomic register of whole configurations: each load,
\* import and deletion acts at one moment between its call and its return,
\* and what failed has done nothing, through interleavings of calls and
\* processes, kills and power losses (store.go:67-181, public.go:66-97).
KeepsConfigurations == Contract!Spec
=============================================================================
