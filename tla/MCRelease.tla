------------------------------ MODULE MCRelease ------------------------------
(* Instances of Release for TLC. *)
EXTENDS Release, TLC

SomeFiles == {"a", "b"}
\* Two builds that differ in the main package and not in the other.
TwoBuilds == {[i \in Packages |-> "a"],
              [i \in Packages |-> IF i = 1 THEN "a" ELSE "b"]}
=============================================================================
