----------------------------- MODULE MCAnswers -----------------------------
(* Instances of Answers for TLC. *)
EXTENDS Answers

\* Objects with the given ticketId whose fields are among those of values.
Objects(ids, values) ==
  {Object(t, f) : t \in ids,
     f \in UNION {{g \in [D -> UNION {values[k] : k \in D}] : \A k \in D : g[k] \in values[k]} :
                    D \in SUBSET DOMAIN values}}
Plain(t) == Object(t, <<>>)

\* Business codes in two of the four fields, "success" and "error".
CodeValues == {Null, Scalar("E044"), Scalar("E052"), Scalar("E001"), Plain(NoTicket)}
Coded ==
  Objects({NoTicket, 1},
          [code |-> CodeValues, errCode |-> CodeValues \cup {Scalar("")},
           success |-> {Scalar("true"), Scalar("false")},
           error |-> {Null, Scalar(""), Scalar("false"), Scalar("E044")}])

\* Tickets in objects in objects, and one at each depth, past that of record too.
Leaves  == {Null, Plain(1), Plain(2), Plain(Broken)}
Inner   == Objects({NoTicket, Broken, 2}, [reservationTicket |-> Leaves, ticket |-> Leaves])
Nested  == Objects({NoTicket, 1}, [data |-> Inner, ticket |-> Inner \cup {Scalar("x")}])
Wrapped(v) ==
  LET wrap[n \in 0..6] == IF n = 0 THEN v ELSE Object(NoTicket, [data |-> wrap[n - 1]])
  IN {wrap[n] : n \in DOMAIN wrap}
Chains  == UNION {Wrapped(v) : v \in Leaves}

Entries == {Plain(1), Plain(2), Plain(NoTicket), Plain(Broken), Null}
Arrays  == {Array(s) : s \in UNION {[1..n -> Entries] : n \in 0..2}}
Wraps   == Objects({NoTicket}, [data |-> Arrays \cup {Null, Plain(1)}])

Members == Leaves \cup {Scalar("x"), Array(<<>>)} \cup {Object(NoTicket, [data |-> v]) : v \in Leaves}
Current == Objects({NoTicket}, [netTicket |-> Members, reservationTicket |-> Members])

AllBodies == {Cut, Empty, Garbage, Null, Scalar("x")}
             \cup Coded \cup Nested \cup Chains \cup Arrays \cup Wraps \cup Current
=============================================================================
