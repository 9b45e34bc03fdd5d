--------------------------- MODULE MCConfigStore ---------------------------
(* Instances of ConfigStore for TLC. *)
EXTENDS ConfigRefinement, TLC

CONSTANTS c1, c2, c3, p1, p2

\* Two calls in one process (the MCP server), the third in another.
TwoAndOne == c1 :> p1 @@ c2 :> p1 @@ c3 :> p2
OneEach   == c1 :> p1 @@ c2 :> p2
Shared    == c1 :> p1 @@ c2 :> p1
SameCalls == Permutations({c1, c2})
=============================================================================
