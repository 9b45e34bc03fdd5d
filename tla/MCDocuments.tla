----------------------------- MODULE MCDocuments -----------------------------
(* Instances of Documents for TLC. *)
EXTENDS Documents, FiniteSets

MostMembers == 3 \* a bound on the members of an imported document

Schemas == [personal |-> <<"profile", "query_authorization",
                           "reservation_authorization", "wechat_id">>,
            public   |-> <<"profile", "query_authorization">>]
SomeNames == {"profile", "PROFILE", "query_authorization",
              "reservation_authorization", "wechat_id"}
InLowerCase == [n \in SomeNames |-> IF n = "PROFILE" THEN "profile" ELSE n]

\* "dirty" has a control character; "<" is escaped when it is written.
SomeTexts == {"", "p", "<", "dirty"}
Accepted  == [f \in SomeNames |->
                IF f = "profile" THEN {"p"} ELSE {"", "p", "<"}]
\* One byte for a field, six for one that is escaped.
Bytes == [k \in Kinds |->
            [x \in Contents(k) |->
               Cardinality(Fields(k)) + 5 * Cardinality({f \in Fields(k) : x[f] = "<"})]]

SomeDocuments ==
  {[members |-> m, rest |-> r, size |-> s] :
     m \in UNION {[1..n -> [name : SomeNames, value : SomeTexts \cup {Null, Foreign}]] :
                    n \in 0..MostMembers},
     r \in {"end", "more"}, s \in {MaxImportBytes, MaxImportBytes + 1}}
=============================================================================
