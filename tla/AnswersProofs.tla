--------------------------- MODULE AnswersProofs ---------------------------
(***************************************************************************)
(* The safety properties of Answers, for all bodies and statuses.          *)
(*                                                                         *)
(* The tickets that a value names are a set, each with its place.  What    *)
(* the search of one depth finds follows from what those below it found;   *)
(* what an operation returns follows from the search of its answer.        *)
(***************************************************************************)
EXTENDS Answers, SequenceTheorems, TLAPS

-----------------------------------------------------------------------------
(* The order of places. *)

Places == Seq(Nat)

\* Two places that come before each other are the same.
LEMMA BeforeAntisymmetric ==
  ASSUME NEW p \in Places, NEW q \in Places, Before(p, q), Before(q, p)
  PROVE  p = q
<1>1. Len(p) \in Nat /\ Len(q) \in Nat
  BY LenProperties DEF Places
<1>2. \A m \in 1..Len(p) : p[m] \in Nat
  BY ElementOfSeq DEF Places
<1>3. \A m \in 1..Len(q) : q[m] \in Nat
  BY ElementOfSeq DEF Places
<1>4. Len(p) = Len(q) /\ \A m \in 1..Len(p) : p[m] = q[m]
  BY <1>1, <1>2, <1>3 DEF Before
<1>. QED BY <1>4, SeqEqual DEF Places

LEMMA EmptyBefore ==
  ASSUME NEW p \in Places
  PROVE  Before(<<>>, p)
BY LenProperties DEF Before, Places

\* Below one object: first the place of the object, then by keys.
LEMMA Cons ==
  ASSUME NEW i \in Nat, NEW p \in Places
  PROVE  /\ <<i>> \o p \in Places
         /\ Len(<<i>> \o p) = Len(p) + 1
         /\ (<<i>> \o p)[1] = i
         /\ \A m \in 1..Len(p) : (<<i>> \o p)[m + 1] = p[m]
<1>1. <<i>> \in Seq(Nat) /\ Len(<<i>>) = 1 /\ <<i>>[1] = i
  OBVIOUS
<1>2. Len(p) \in Nat
  BY LenProperties DEF Places
<1>. QED BY <1>1, <1>2, ConcatProperties DEF Places

LEMMA BeforeUnder ==
  ASSUME NEW i \in Nat, NEW j \in Nat, NEW p \in Places, NEW q \in Places,
         i < j \/ (i = j /\ Before(p, q))
  PROVE  Before(<<i>> \o p, <<j>> \o q)
<1>1. Len(p) \in Nat /\ Len(q) \in Nat
  BY LenProperties DEF Places
<1> DEFINE x == <<i>> \o p
           y == <<j>> \o q
<1>2. /\ Len(x) = Len(p) + 1 /\ x[1] = i /\ \A m \in 1..Len(p) : x[m + 1] = p[m]
      /\ Len(y) = Len(q) + 1 /\ y[1] = j /\ \A m \in 1..Len(q) : y[m + 1] = q[m]
  BY Cons
<1> HIDE DEF x, y
<1>3. CASE i < j
  <2>1. 1 \in 1..Len(x) /\ 1 <= Len(y) /\ x[1] < y[1] /\ \A m \in 1..(1 - 1) : x[m] = y[m]
    BY <1>1, <1>2, <1>3
  <2>. QED BY <2>1 DEF Before, x, y
<1>4. CASE i = j /\ Len(p) <= Len(q) /\ \A m \in 1..Len(p) : p[m] = q[m]
  <2>1. ASSUME NEW m \in 1..Len(x) PROVE x[m] = y[m]
    <3>1. CASE m = 1
      BY <3>1, <1>2, <1>4
    <3>2. CASE m # 1
      <4>1. m - 1 \in 1..Len(p) /\ m - 1 \in 1..Len(q) /\ (m - 1) + 1 = m
        BY <3>2, <1>1, <1>2, <1>4
      <4>. QED BY <4>1, <1>2, <1>4
    <3>. QED BY <3>1, <3>2
  <2>2. Len(x) <= Len(y)
    BY <1>1, <1>2, <1>4
  <2>. QED BY <2>1, <2>2 DEF Before, x, y
<1>5. ASSUME i = j, NEW n \in 1..Len(p), n <= Len(q), p[n] < q[n],
             \A m \in 1..(n - 1) : p[m] = q[m]
      PROVE  Before(x, y)
  <2>1. n + 1 \in 1..Len(x) /\ n + 1 <= Len(y) /\ x[n + 1] < y[n + 1]
    BY <1>1, <1>2, <1>5
  <2>2. ASSUME NEW m \in 1..((n + 1) - 1) PROVE x[m] = y[m]
    <3>1. CASE m = 1
      BY <3>1, <1>2, <1>5
    <3>2. CASE m # 1
      <4>1. m - 1 \in 1..(n - 1) /\ m - 1 \in 1..Len(p) /\ m - 1 \in 1..Len(q) /\ (m - 1) + 1 = m
        BY <3>2, <1>1, <1>5
      <4>. QED BY <4>1, <1>2, <1>5
    <3>. QED BY <3>1, <3>2
  <2>. QED BY <2>1, <2>2 DEF Before
<1>. QED BY <1>3, <1>4, <1>5 DEF Before, x, y

\* The first of some keys.
LEMMA FirstKey ==
  ASSUME NEW hits \in SUBSET Keys, hits # {}
  PROVE  Min(hits) \in hits /\ \A i \in hits : Min(hits) <= i
<1>1. Keys = 1..9
  BY DEF Keys, TicketKeys
<1>2. ASSUME \A i \in hits : \E j \in hits : j < i
      PROVE  FALSE
  <2>1. 1 \notin hits
    BY <1>1, <1>2
  <2>2. 2 \notin hits
    BY <1>1, <1>2, <2>1
  <2>3. 3 \notin hits
    BY <1>1, <1>2, <2>1, <2>2
  <2>4. 4 \notin hits
    BY <1>1, <1>2, <2>1, <2>2, <2>3
  <2>5. 5 \notin hits
    BY <1>1, <1>2, <2>1, <2>2, <2>3, <2>4
  <2>6. 6 \notin hits
    BY <1>1, <1>2, <2>1, <2>2, <2>3, <2>4, <2>5
  <2>7. 7 \notin hits
    BY <1>1, <1>2, <2>1, <2>2, <2>3, <2>4, <2>5, <2>6
  <2>8. 8 \notin hits
    BY <1>1, <1>2, <2>1, <2>2, <2>3, <2>4, <2>5, <2>6, <2>7
  <2>9. 9 \notin hits
    BY <1>1, <1>2, <2>1, <2>2, <2>3, <2>4, <2>5, <2>6, <2>7, <2>8
  <2>10. PICK k \in hits : TRUE
    OBVIOUS
  <2>11. k \in 1..9
    BY <1>1
  <2>. QED BY <2>1, <2>2, <2>3, <2>4, <2>5, <2>6, <2>7, <2>8, <2>9, <2>10, <2>11
<1>3. PICK i \in hits : \A j \in hits : ~(j < i)
  BY <1>2
<1>4. \A j \in hits : i <= j
  BY <1>1, <1>3
<1>. QED BY <1>4 DEF Min

-----------------------------------------------------------------------------
(* What one call of record finds. *)

Finds == [place : Places, ticket : Tickets]

\* A search that found t among the tickets named: the first one, if any, and
\* no two tickets are named at the same place.
Leads(found, t) ==
  /\ found \subseteq Finds
  /\ \A f, g \in found : f.place = g.place => f = g
  /\ found = {} => t = NoTicket
  /\ found # {} => \E f \in found : First(found, f) /\ f.ticket = t

LEMMA OwnFinds ==
  ASSUME NEW v
  PROVE  /\ Own(v) \subseteq Finds
         /\ \A f \in Own(v) : f.place = <<>> /\ f.ticket = v.ticket
<1>1. <<>> \in Seq(Nat)
  OBVIOUS
<1>2. CASE v.kind = "object" /\ v.ticket \in Tickets
  <2>1. Own(v) = {[place |-> <<>>, ticket |-> v.ticket]}
    BY <1>2 DEF Own
  <2>. QED BY <1>1, <1>2, <2>1 DEF Finds, Places
<1>3. CASE ~(v.kind = "object" /\ v.ticket \in Tickets)
  BY <1>3 DEF Own
<1>. QED BY <1>2, <1>3

LEMMA UnderFinds ==
  ASSUME NEW i \in Keys, NEW found \in SUBSET Finds
  PROVE  /\ Under(i, found) \subseteq Finds
         /\ \A f \in Under(i, found) : f.place # <<>> /\ f.place[1] = i
         /\ \A f, g \in found : <<i>> \o f.place = <<i>> \o g.place => f.place = g.place
<1>1. i \in Nat
  BY DEF Keys, TicketKeys
<1>2. ASSUME NEW f \in found
      PROVE  /\ f.place \in Places /\ f.ticket \in Tickets
             /\ <<i>> \o f.place \in Places /\ <<i>> \o f.place # <<>>
             /\ (<<i>> \o f.place)[1] = i
  <2>1. f.place \in Places /\ f.ticket \in Tickets
    BY DEF Finds
  <2>2. Len(f.place) \in Nat
    BY <2>1, LenProperties DEF Places
  <2>3. <<i>> \o f.place \in Places /\ Len(<<i>> \o f.place) > 0 /\ (<<i>> \o f.place)[1] = i
    BY <1>1, <2>1, <2>2, Cons
  <2>. QED BY <2>1, <2>3
<1>3. ASSUME NEW f \in found, NEW g \in found, <<i>> \o f.place = <<i>> \o g.place
      PROVE  f.place = g.place
  <2>1. f.place \in Seq(Nat) /\ g.place \in Seq(Nat)
    BY <1>2 DEF Places
  <2>2. Len(f.place) \in Nat /\ Len(g.place) \in Nat
    BY <2>1, LenProperties
  <2>3. /\ Len(<<i>> \o f.place) = Len(f.place) + 1
        /\ \A m \in 1..Len(f.place) : (<<i>> \o f.place)[m + 1] = f.place[m]
    BY <1>1, <1>2, Cons
  <2>4. /\ Len(<<i>> \o g.place) = Len(g.place) + 1
        /\ \A m \in 1..Len(g.place) : (<<i>> \o g.place)[m + 1] = g.place[m]
    BY <1>1, <1>2, Cons
  <2>5. Len(f.place) = Len(g.place)
    BY <1>3, <2>2, <2>3, <2>4
  <2>6. \A m \in 1..Len(f.place) : f.place[m] = g.place[m]
    BY <1>3, <2>3, <2>4, <2>5
  <2>. QED BY <2>1, <2>5, <2>6, SeqEqual
<1>4. ASSUME NEW f \in Under(i, found)
      PROVE  f \in Finds /\ f.place # <<>> /\ f.place[1] = i
  <2>1. PICK b \in found : f = [place |-> <<i>> \o b.place, ticket |-> b.ticket]
    BY <1>4 DEF Under
  <2>. QED BY <1>2, <2>1 DEF Finds
<1>. QED BY <1>3, <1>4

\* A find is the object's own or one of those below it.
LEMMA GatherFinds ==
  ASSUME NEW v, NEW named,
         \A i \in Keys : named[i] \subseteq Finds
               /\ \A f, g \in named[i] : f.place = g.place => f = g
  PROVE  /\ Gather(v, named) \subseteq Finds
         /\ \A f, g \in Gather(v, named) : f.place = g.place => f = g
<1>1. ASSUME NEW f \in Gather(v, named), f \notin Own(v)
      PROVE  /\ f \in Finds /\ f.place # <<>>
             /\ \E i \in Keys : \E b \in named[i] :
                  /\ f.place[1] = i
                  /\ f = [place |-> <<i>> \o b.place, ticket |-> b.ticket]
  <2>1. PICK i \in Keys : f \in Under(i, named[i])
    BY <1>1 DEF Gather
  <2>2. named[i] \in SUBSET Finds
    OBVIOUS
  <2>3. /\ Under(i, named[i]) \subseteq Finds
        /\ \A g \in Under(i, named[i]) : g.place # <<>> /\ g.place[1] = i
    BY <2>2, UnderFinds, Zenon
  <2>4. \E b \in named[i] : f = [place |-> <<i>> \o b.place, ticket |-> b.ticket]
    BY <2>1 DEF Under
  <2>. QED BY <2>1, <2>3, <2>4
<1>2. Gather(v, named) \subseteq Finds
  BY <1>1, OwnFinds
<1>3. ASSUME NEW f \in Gather(v, named), NEW g \in Gather(v, named), f.place = g.place
      PROVE  f = g
  <2>1. CASE f \in Own(v) /\ g \in Own(v)
    BY <2>1 DEF Own
  <2>2. CASE (f \in Own(v)) # (g \in Own(v))
    BY <2>2, <1>1, <1>3, OwnFinds
  <2>3. CASE f \notin Own(v) /\ g \notin Own(v)
    <3>1. PICK i \in Keys : \E b \in named[i] :
            f.place[1] = i /\ f = [place |-> <<i>> \o b.place, ticket |-> b.ticket]
      BY <2>3, <1>1
    <3>2. PICK b \in named[i] : f = [place |-> <<i>> \o b.place, ticket |-> b.ticket]
      BY <3>1
    <3>3. PICK j \in Keys : \E c \in named[j] :
            g.place[1] = j /\ g = [place |-> <<j>> \o c.place, ticket |-> c.ticket]
      BY <2>3, <1>1
    <3>4. PICK c \in named[j] : g = [place |-> <<j>> \o c.place, ticket |-> c.ticket]
      BY <3>3
    <3>5. i = j
      BY <3>1, <3>3, <1>3
    <3>6. <<i>> \o b.place = <<i>> \o c.place
      BY <1>3, <3>2, <3>4, <3>5
    <3>7. named[i] \in SUBSET Finds
      OBVIOUS
    <3>8. \A x, y \in named[i] : <<i>> \o x.place = <<i>> \o y.place => x.place = y.place
      BY <3>7, UnderFinds, Zenon
    <3>9. b = c
      BY <3>5, <3>6, <3>8
    <3>. QED BY <3>2, <3>4, <3>5, <3>9
  <2>. QED BY <2>1, <2>2, <2>3
<1>. QED BY <1>2, <1>3

\* One call of record finds the first of what its object names, given that
\* the calls it makes do.
LEMMA LookFinds ==
  ASSUME NEW v, NEW inner, NEW named,
         \A i \in Keys : Leads(named[i], inner[i]),
         v.kind # "object" => \A i \in Keys : named[i] = {}
  PROVE  Leads(Gather(v, named), Look(v, inner))
<1> DEFINE all  == Gather(v, named)
           hits == {i \in Keys : inner[i] # NoTicket}
<1>1. \A i \in Keys : named[i] \in SUBSET Finds /\ named[i] \subseteq Finds
  BY DEF Leads
<1>2. all \subseteq Finds /\ \A f, g \in all : f.place = g.place => f = g
  BY <1>1, GatherFinds DEF Leads
<1>3. \A i \in Keys : i \in hits <=> named[i] # {}
  BY NamesAssumption DEF Leads, Finds
<1>4. \A f \in Finds : f.place \in Places
  BY DEF Finds
<1>5. CASE v.kind = "object" /\ v.ticket \in Tickets
  <2> DEFINE top == [place |-> <<>>, ticket |-> v.ticket]
  <2>1. top \in all
    BY <1>5 DEF Gather, Own
  <2>2. \A g \in all : Before(top.place, g.place)
    BY <1>2, <1>4, EmptyBefore
  <2>3. Look(v, inner) = top.ticket
    BY <1>5 DEF Look
  <2>4. First(all, top)
    BY <2>1, <2>2 DEF First
  <2>. HIDE DEF top, all
  <2>5. \E f \in all : First(all, f) /\ f.ticket = Look(v, inner)
    BY <2>1, <2>3, <2>4
  <2>6. all # {}
    BY <2>1
  <2>. QED BY <1>2, <2>5, <2>6 DEF Leads, all
<1>6. CASE ~(v.kind = "object" /\ v.ticket \in Tickets) /\ hits = {}
  <2>1. Own(v) = {} /\ \A i \in Keys : Under(i, named[i]) = {}
    BY <1>3, <1>6 DEF Own, Under
  <2>2. all = {}
    BY <2>1 DEF Gather
  <2>3. Look(v, inner) = NoTicket
    BY <1>6 DEF Look
  <2>. QED BY <2>2, <2>3 DEF Leads
<1>7. CASE ~(v.kind = "object" /\ v.ticket \in Tickets) /\ hits # {}
  <2> DEFINE i == Min(hits)
  <2>1. i \in hits /\ i \in Keys /\ \A j \in hits : i <= j
    BY <1>7, FirstKey
  <2>2. v.kind = "object"
    BY <1>3, <2>1
  <2>3. Look(v, inner) = inner[i] /\ Own(v) = {}
    BY <1>7, <2>2 DEF Look, Own
  <2>. HIDE DEF i, hits
  <2>4. PICK b \in named[i] : First(named[i], b) /\ b.ticket = inner[i]
    BY <1>3, <2>1 DEF Leads
  <2> DEFINE f == [place |-> <<i>> \o b.place, ticket |-> b.ticket]
  <2>5. f \in all
    <3>1. f \in Under(i, named[i])
      BY DEF Under
    <3>. QED BY <2>1, <3>1 DEF Gather
  <2>6. ASSUME NEW g \in all
        PROVE  Before(f.place, g.place)
    <3>1. PICK j \in Keys : g \in Under(j, named[j])
      BY <2>3 DEF Gather
    <3>2. PICK c \in named[j] : g = [place |-> <<j>> \o c.place, ticket |-> c.ticket]
      BY <3>1 DEF Under
    <3>3. b.place \in Places /\ c.place \in Places
      BY <1>1, <1>4, <2>1
    <3>4. i \in Nat /\ j \in Nat /\ i <= j
      BY <1>3, <2>1 DEF Keys, TicketKeys
    <3>5. i = j => Before(b.place, c.place)
      BY <2>4 DEF First
    <3>6. i < j \/ (i = j /\ Before(b.place, c.place))
      BY <3>4, <3>5
    <3>7. Before(<<i>> \o b.place, <<j>> \o c.place)
      BY <3>3, <3>4, <3>6, BeforeUnder
    <3>. QED BY <3>2, <3>7
  <2>7. First(all, f)
    BY <2>5, <2>6 DEF First
  <2>8. f.ticket = Look(v, inner)
    BY <2>3, <2>4
  <2>. HIDE DEF f, all
  <2>. QED BY <1>2, <2>5, <2>7, <2>8 DEF Leads, all
<1>. QED BY <1>5, <1>6, <1>7

LEMMA EmptyLeads == Leads({}, NoTicket)
BY DEF Leads

\* So does the call at each depth, and with them record as a whole.
LEMMA Record4Finds ==
  ASSUME NEW v
  PROVE  Leads(Named4(v), record4(v))
<1> DEFINE inner == [i \in Keys |-> NoTicket]
           named == [i \in Keys |-> {}]
<1>1. \A i \in Keys : Leads(named[i], inner[i])
  BY EmptyLeads
<1>2. Leads(Gather(v, named), Look(v, inner))
  BY <1>1, LookFinds
<1>3. Gather(v, named) = Named4(v)
  BY DEF Gather, Under, Named4
<1>. QED BY <1>2, <1>3 DEF record4

LEMMA Record3Finds ==
  ASSUME NEW v
  PROVE  Leads(Named3(v), record3(v))
<1> DEFINE inner == [i \in Keys |-> IF HasTicketKey(v, i) THEN record4(Member(v, i)) ELSE NoTicket]
           named == [i \in Keys |-> IF HasTicketKey(v, i) THEN Named4(Member(v, i)) ELSE {}]
<1>1. \A i \in Keys : Leads(named[i], inner[i])
  BY Record4Finds, EmptyLeads
<1>2. v.kind # "object" => \A i \in Keys : named[i] = {}
  BY DEF HasTicketKey, Has
<1>3. Leads(Gather(v, named), Look(v, inner))
  BY <1>1, <1>2, LookFinds
<1>. QED BY <1>3 DEF Named3, record3

LEMMA Record2Finds ==
  ASSUME NEW v
  PROVE  Leads(Named2(v), record2(v))
<1> DEFINE inner == [i \in Keys |-> IF HasTicketKey(v, i) THEN record3(Member(v, i)) ELSE NoTicket]
           named == [i \in Keys |-> IF HasTicketKey(v, i) THEN Named3(Member(v, i)) ELSE {}]
<1>1. \A i \in Keys : Leads(named[i], inner[i])
  BY Record3Finds, EmptyLeads
<1>2. v.kind # "object" => \A i \in Keys : named[i] = {}
  BY DEF HasTicketKey, Has
<1>3. Leads(Gather(v, named), Look(v, inner))
  BY <1>1, <1>2, LookFinds
<1>. QED BY <1>3 DEF Named2, record2

LEMMA Record1Finds ==
  ASSUME NEW v
  PROVE  Leads(Named1(v), record1(v))
<1> DEFINE inner == [i \in Keys |-> IF HasTicketKey(v, i) THEN record2(Member(v, i)) ELSE NoTicket]
           named == [i \in Keys |-> IF HasTicketKey(v, i) THEN Named2(Member(v, i)) ELSE {}]
<1>1. \A i \in Keys : Leads(named[i], inner[i])
  BY Record2Finds, EmptyLeads
<1>2. v.kind # "object" => \A i \in Keys : named[i] = {}
  BY DEF HasTicketKey, Has
<1>3. Leads(Gather(v, named), Look(v, inner))
  BY <1>1, <1>2, LookFinds
<1>. QED BY <1>3 DEF Named1, record1

LEMMA RecordFinds ==
  ASSUME NEW v
  PROVE  Leads(Named(v), record(v))
<1> DEFINE inner == [i \in Keys |-> IF HasTicketKey(v, i) THEN record1(Member(v, i)) ELSE NoTicket]
           named == [i \in Keys |-> IF HasTicketKey(v, i) THEN Named1(Member(v, i)) ELSE {}]
<1>1. \A i \in Keys : Leads(named[i], inner[i])
  BY Record1Finds, EmptyLeads
<1>2. v.kind # "object" => \A i \in Keys : named[i] = {}
  BY DEF HasTicketKey, Has
<1>3. Leads(Gather(v, named), Look(v, inner))
  BY <1>1, <1>2, LookFinds
<1>. QED BY <1>3 DEF Named, record

\* The search finds the first ticket in its order.
LEMMA RecordIsFirst ==
  ASSUME NEW v
  PROVE  record(v) = FirstTicket(v)
<1>1. Leads(Named(v), record(v))
  BY RecordFinds
<1>2. CASE Named(v) = {}
  BY <1>1, <1>2 DEF Leads, FirstTicket
<1>3. CASE Named(v) # {}
  <2>1. PICK f \in Named(v) : First(Named(v), f) /\ f.ticket = record(v)
    BY <1>1, <1>3 DEF Leads
  <2>2. ASSUME NEW g, First(Named(v), g)
        PROVE  g = f
    <3>1. g \in Named(v) /\ f.place \in Places /\ g.place \in Places
      BY <1>1, <2>1, <2>2 DEF First, Leads, Finds
    <3>2. Before(f.place, g.place) /\ Before(g.place, f.place)
      BY <2>1, <2>2, <3>1 DEF First
    <3>3. f.place = g.place
      BY <3>1, <3>2, BeforeAntisymmetric
    <3>. QED BY <1>1, <3>1, <3>3 DEF Leads
  <2> DEFINE g == CHOOSE h \in Named(v) : First(Named(v), h)
  <2>3. First(Named(v), g)
    BY <2>1
  <2>4. g = f
    BY <2>2, <2>3
  <2>. QED BY <1>3, <2>1, <2>4 DEF FirstTicket
<1>. QED BY <1>2, <1>3

\* The depth-limited search of the code finds a ticket wherever one is named
\* within its reach, and never one that an object around it overrides: what a
\* ticket holds is not mistaken for the ticket (client.go:228-250).
THEOREM RecordIsNotInner ==
  ASSUME NEW v
  PROVE  Verified(record(v), v)
<1>1. Leads(Named(v), record(v))
  BY RecordFinds
<1>2. CASE Named(v) = {}
  BY <1>1, <1>2 DEF Leads, Verified
<1>3. CASE Named(v) # {}
  <2>1. PICK f \in Named(v) : First(Named(v), f) /\ f.ticket = record(v)
    BY <1>1, <1>3 DEF Leads
  <2>2. ASSUME NEW g \in Named(v), Around(g.place, f.place)
        PROVE  FALSE
    <3>1. f.place \in Places /\ g.place \in Places
      BY <1>1 DEF Leads, Finds
    <3>2. Len(f.place) \in Nat /\ Len(g.place) \in Nat
      BY <3>1, LenProperties DEF Places
    <3>3. Before(g.place, f.place)
      BY <2>2, <3>2 DEF Around, Before
    <3>4. Before(f.place, g.place)
      BY <2>1 DEF First
    <3>5. f.place = g.place
      BY <3>1, <3>3, <3>4, BeforeAntisymmetric
    <3>. QED BY <2>2, <3>2, <3>5 DEF Around
  <2>. QED BY <1>3, <2>1, <2>2 DEF Verified
<1>. QED BY <1>2, <1>3

\* A ticket was found or is missing for good.
LEMMA RecordNames ==
  ASSUME NEW v
  PROVE  record(v) \in Tickets \cup {NoTicket}
<1>1. Leads(Named(v), record(v))
  BY RecordFinds
<1>. QED BY <1>1 DEF Leads, Finds

\* A plain entry of a list is its own first ticket.
LEMMA EntryIsFirst ==
  ASSUME NEW v, v.kind = "object", v.ticket \in Tickets
  PROVE  FirstTicket(v) = v.ticket
BY RecordIsFirst DEF record, Look

-----------------------------------------------------------------------------
(* The verdict on an answer. *)

LEMMA SaysSomething ==
  ASSUME NEW v
  PROVE  Says(v) \in R!BusinessCodes
BY DEF Says, R!BusinessCodes

LEMMA CodeOfBody ==
  ASSUME NEW v
  PROVE  /\ businessCode(v) \in R!BusinessCodes
         /\ v.kind # "object" => businessCode(v) = "neutral"
<1>1. businessCode(v) \in R!BusinessCodes
  BY SaysSomething DEF businessCode, R!BusinessCodes
<1>2. v.kind # "object" => businessCode(v) = "neutral"
  BY DEF businessCode, Has
<1>. QED BY <1>1, <1>2

\* The order of the tests in request is that of Response, case by case.
LEMMA Verdicts ==
  ASSUME NEW w \in BOOLEAN
  PROVE
    /\ body.kind = "cut" => R!request(Abstract, w) = R!Err("invalid_response", w)
    /\ body.kind # "cut" /\ businessCode(body) \in {"E044", "E052"} =>
         R!request(Abstract, w) = Business(businessCode(body))
    /\ body.kind # "cut" /\ businessCode(body) \notin {"E044", "E052"} /\ ~R!Success(status) =>
         R!request(Abstract, w) = R!HTTPError(status, w)
    /\ body.kind = "garbage" /\ R!Success(status) =>
         R!request(Abstract, w) = R!Err("invalid_response", w)
    /\ body.kind \notin {"cut", "garbage"} /\ businessCode(body) \notin {"E044", "E052"}
       /\ R!Success(status) => R!request(Abstract, w) = Business(businessCode(body))
<1>1. /\ Abstract.status = status
      /\ Abstract.form = IF body.kind \in {"cut", "empty", "garbage"} THEN body.kind ELSE "json"
      /\ Abstract.code = businessCode(body)
  BY DEF Abstract
<1>2. R!businessError(Abstract) = Business(businessCode(body))
  BY <1>1 DEF R!businessError, Business
<1>3. body.kind \in {"empty", "garbage"} => businessCode(body) = "neutral"
  BY CodeOfBody
<1>4. Business("neutral") = R!None
  BY DEF Business, R!businessError, R!None
<1>. HIDE DEF Abstract
<1>. QED BY <1>1, <1>2, <1>3, <1>4 DEF R!request

\* None of the refusals is the absence of an error.
LEMMA RefusalsAreErrors ==
  ASSUME NEW w \in BOOLEAN
  PROVE  /\ R!Err("invalid_response", w) # R!None
         /\ R!HTTPError(status, w) # R!None
         /\ \A c \in R!BusinessCodes : c # "neutral" <=> Business(c) # R!None
BY DEF R!Err, R!None, R!HTTPError, Business, R!businessError, R!BusinessCodes

-----------------------------------------------------------------------------
(* The inductive invariant: nothing is returned before the end, and only an *)
(* answer that was read, with a status and a code of success, is decoded.   *)

Unreturned == error = R!None /\ result = Nothing
Decodable ==
  /\ R!Success(status)
  /\ body.kind \notin {"cut", "garbage"}
  /\ businessCode(body) = "neutral"

IndInv ==
  /\ op \in {"reserve", "cancel", "list", "status"}
  /\ pc \in {"request", "decode", "done"}
  /\ pc # "done" => Unreturned
  /\ pc = "decode" => Decodable
  /\ TicketIsNotInner
  /\ NothingIsEmptyByMistake
  /\ AgreesWithResponse

\* What an operation may return: a result that names what the answer names,
\* with the error that Response assigns to the answer.
Faithful(e, r) ==
  /\ r.kind = "ticket" => r.ticket # NoTicket /\ Verified(r.ticket, body)
  /\ r.kind = "list" =>
       /\ Items(body).kind = "array"
       /\ Len(r.tickets) = Len(Items(body).items)
       /\ \A i \in DOMAIN r.tickets : r.tickets[i] = FirstTicket(Items(body).items[i])
  /\ r.kind = "status" =>
       \A key \in {"netTicket", "reservationTicket"} :
         /\ Verified(r[key], body.fields[key])
         /\ r[key] = NoTicket => body.fields[key] = Null
  /\ e = CASE op = "reserve" -> R!Reserve(Abstract)
           [] op = "cancel"  -> R!Cancel(Abstract)
           [] OTHER          -> R!Query(Abstract)
  /\ r = Nothing <=> e # R!None \/ op = "cancel"

\* Whoever returns something faithful keeps the invariant.
LEMMA ReturnKeeps ==
  ASSUME NEW e, NEW r, IndInv, Return(e, r), Faithful(e, r)
  PROVE  IndInv'
<1>1. pc' = "done" /\ error' = e /\ result' = r /\ op' = op /\ status' = status /\ body' = body
  BY DEF Return
<1>2. Abstract' = Abstract
  BY <1>1 DEF Abstract, Readable
<1>3. TicketIsNotInner'
  BY <1>1 DEF Faithful, TicketIsNotInner
<1>4. NothingIsEmptyByMistake'
  BY <1>1 DEF Faithful, NothingIsEmptyByMistake
<1>5. AgreesWithResponse'
  BY <1>1, <1>2 DEF Faithful, AgreesWithResponse
<1>. QED BY <1>1, <1>3, <1>4, <1>5 DEF IndInv

\* A refusal at the end of request is faithful: it is an error, and the one
\* that Response assigns to every operation.
LEMMA RefusalIsFaithful ==
  ASSUME NEW e, op \in {"reserve", "cancel", "list", "status"},
         e = R!request(Abstract, Write), e # R!None
  PROVE  Faithful(e, Nothing)
<1>1. Nothing.kind = "nothing"
  BY DEF Nothing
<1>2. CASE op = "reserve"
  <2>1. Write = TRUE
    BY <1>2 DEF Write
  <2>2. R!Reserve(Abstract) = e
    BY <2>1 DEF R!Reserve
  <2>. QED BY <1>1, <1>2, <2>2 DEF Faithful
<1>3. CASE op = "cancel"
  <2>1. Write = TRUE
    BY <1>3 DEF Write
  <2>2. R!Cancel(Abstract) = e
    BY <2>1 DEF R!Cancel
  <2>. QED BY <1>1, <1>3, <2>2 DEF Faithful
<1>4. CASE op \in {"list", "status"}
  <2>1. Write = FALSE
    BY <1>4 DEF Write
  <2>2. R!Query(Abstract) = e
    BY <2>1 DEF R!Query
  <2>. QED BY <1>1, <1>4, <2>2 DEF Faithful
<1>. QED BY <1>2, <1>3, <1>4

\* Of an answer that is decoded Response knows no error but the one that the
\* decoding finds.
LEMMA DecodableReading ==
  ASSUME Decodable
  PROVE  /\ R!Reserve(Abstract) =
              IF FirstTicket(body) = NoTicket THEN R!Err("invalid_response", TRUE) ELSE R!None
         /\ R!Cancel(Abstract) = R!None
         /\ R!Query(Abstract) = IF Readable THEN R!None ELSE R!Err("invalid_response", FALSE)
<1>1. Business("neutral") = R!None
  BY DEF Business, R!businessError, R!None
<1>2. \A w \in BOOLEAN : R!request(Abstract, w) = R!None
  BY <1>1, Verdicts DEF Decodable
<1>3. Abstract.ticket = FirstTicket(body)
  BY DEF Abstract
<1>4. Abstract.list = NoList <=> ~Readable
  BY NamesAssumption DEF Abstract
<1>. QED BY <1>2, <1>3, <1>4 DEF R!Reserve, R!Cancel, R!Query

LEMMA RequestKeeps ==
  ASSUME IndInv, Request
  PROVE  IndInv'
<1> DEFINE code == businessCode(body)
<1>1. Write \in BOOLEAN /\ op \in {"reserve", "cancel", "list", "status"}
  BY DEF Write, IndInv
<1>2. code \in R!BusinessCodes
  BY CodeOfBody
<1>3. ASSUME NEW e, Refuse(e), e = R!request(Abstract, Write), e # R!None
      PROVE  IndInv'
  BY <1>1, <1>3, RefusalIsFaithful, ReturnKeeps DEF Refuse
<1>4. CASE body.kind = "cut"
  <2>1. Refuse(R!Err("invalid_response", Write))
    BY <1>4 DEF Request
  <2>. QED BY <1>1, <1>3, <1>4, <2>1, Verdicts, RefusalsAreErrors
<1>5. CASE body.kind # "cut" /\ code \in {"E044", "E052"}
  <2>1. Refuse(Business(code))
    BY <1>5 DEF Request
  <2>. QED BY <1>1, <1>2, <1>3, <1>5, <2>1, Verdicts, RefusalsAreErrors
<1>6. CASE body.kind # "cut" /\ code \notin {"E044", "E052"} /\ ~R!Success(status)
  <2>1. Refuse(R!HTTPError(status, Write))
    BY <1>6 DEF Request
  <2>. QED BY <1>1, <1>3, <1>6, <2>1, Verdicts, RefusalsAreErrors
<1>7. CASE body.kind = "garbage" /\ R!Success(status)
  <2>1. code = "neutral"
    BY <1>7, CodeOfBody
  <2>2. Refuse(R!Err("invalid_response", Write))
    BY <1>7, <2>1 DEF Request
  <2>. QED BY <1>1, <1>3, <1>7, <2>2, Verdicts, RefusalsAreErrors
<1>8. CASE body.kind \notin {"cut", "garbage"} /\ code \notin {"E044", "E052", "neutral"} /\ R!Success(status)
  <2>1. Refuse(Business(code))
    BY <1>8 DEF Request
  <2>. QED BY <1>1, <1>2, <1>3, <1>8, <2>1, Verdicts, RefusalsAreErrors
<1>9. CASE body.kind \notin {"cut", "garbage"} /\ code = "neutral" /\ R!Success(status)
  <2>1. /\ pc = "request" /\ pc' = "decode"
        /\ op' = op /\ status' = status /\ body' = body /\ error' = error /\ result' = result
    BY <1>9 DEF Request
  <2>2. Unreturned /\ Unreturned'
    BY <2>1 DEF IndInv, Unreturned, Nothing
  <2>3. Decodable'
    BY <1>9, <2>1 DEF Decodable
  <2>4. TicketIsNotInner' /\ NothingIsEmptyByMistake' /\ AgreesWithResponse'
    BY <2>1, <2>2 DEF TicketIsNotInner, NothingIsEmptyByMistake, AgreesWithResponse,
                      Unreturned, Nothing
  <2>. QED BY <2>1, <2>2, <2>3, <2>4 DEF IndInv
<1>. QED BY <1>2, <1>4, <1>5, <1>6, <1>7, <1>8, <1>9 DEF R!BusinessCodes

LEMMA ReserveKeeps ==
  ASSUME IndInv, Reserve
  PROVE  IndInv'
<1>1. Decodable /\ op = "reserve"
  BY DEF IndInv, Reserve
<1>2. record(body) = FirstTicket(body)
  BY RecordIsFirst
<1>3. R!Reserve(Abstract) =
        IF record(body) = NoTicket THEN R!Err("invalid_response", TRUE) ELSE R!None
  BY <1>1, <1>2, DecodableReading
<1>4. CASE record(body) = NoTicket
  <2>1. Return(R!Err("invalid_response", TRUE), Nothing)
    BY <1>4 DEF Reserve, Refuse
  <2>2. Faithful(R!Err("invalid_response", TRUE), Nothing)
    BY <1>1, <1>3, <1>4, RefusalsAreErrors DEF Faithful, Nothing
  <2>. QED BY <2>1, <2>2, ReturnKeeps
<1>5. CASE record(body) # NoTicket
  <2>0. Verified(record(body), body)
    BY RecordIsNotInner
  <2>1. Return(R!None, TicketOf(record(body)))
    BY <1>5 DEF Reserve
  <2>2. TicketOf(record(body)).kind = "ticket" /\ TicketOf(record(body)).ticket = record(body)
    BY DEF TicketOf
  <2>3. Nothing.kind = "nothing"
    BY DEF Nothing
  <2>4. Faithful(R!None, TicketOf(record(body)))
    BY <1>1, <1>3, <1>5, <2>0, <2>2, <2>3 DEF Faithful
  <2>. QED BY <2>1, <2>4, ReturnKeeps
<1>. QED BY <1>4, <1>5

LEMMA CancelKeeps ==
  ASSUME IndInv, Cancel
  PROVE  IndInv'
<1>1. Decodable /\ op = "cancel" /\ Return(R!None, Nothing)
  BY DEF IndInv, Cancel
<1>2. R!Cancel(Abstract) = R!None
  BY <1>1, DecodableReading
<1>3. Faithful(R!None, Nothing)
  BY <1>1, <1>2 DEF Faithful, Nothing
<1>. QED BY <1>1, <1>3, ReturnKeeps

LEMMA ListKeeps ==
  ASSUME IndInv, List
  PROVE  IndInv'
<1> DEFINE v == Items(body)
           s == [i \in DOMAIN v.items |-> v.items[i].ticket]
<1>1. Decodable /\ op = "list"
  BY DEF IndInv, List
<1>2. R!Query(Abstract) = IF Readable THEN R!None ELSE R!Err("invalid_response", FALSE)
  BY <1>1, DecodableReading
<1>3. CASE Readable
  <2>1. /\ v.kind = "array"
        /\ \A i \in DOMAIN v.items : v.items[i].kind = "object" /\ v.items[i].ticket \in Tickets
    BY <1>1, <1>3 DEF Readable
  <2>2. Return(R!None, ListOf(s))
    BY <2>1 DEF List
  <2>3. ListOf(s).kind = "list" /\ ListOf(s).tickets = s /\ Nothing.kind = "nothing"
    BY DEF ListOf, Nothing
  <2>4. \A i \in DOMAIN s : s[i] = FirstTicket(v.items[i])
    BY <2>1, EntryIsFirst
  <2>5. Len(s) = Len(v.items)
    OBVIOUS
  <2>. HIDE DEF s
  <2>6. Faithful(R!None, ListOf(s))
    BY <1>1, <1>2, <1>3, <2>1, <2>3, <2>4, <2>5 DEF Faithful
  <2>. QED BY <2>2, <2>6, ReturnKeeps
<1>4. CASE ~Readable
  <2>1. Return(R!Err("invalid_response", FALSE), Nothing)
    BY <1>1, <1>4 DEF List, Refuse, Readable
  <2>2. Faithful(R!Err("invalid_response", FALSE), Nothing)
    BY <1>1, <1>2, <1>4, RefusalsAreErrors DEF Faithful, Nothing
  <2>. QED BY <2>1, <2>2, ReturnKeeps
<1>. QED BY <1>3, <1>4

LEMMA StatusKeeps ==
  ASSUME IndInv, Status
  PROVE  IndInv'
<1> DEFINE Ticket(key) == IF body.fields[key] = Null THEN NoTicket ELSE record(body.fields[key])
           Bad(key) == ~Has(body, key) \/ (body.fields[key] # Null /\ Ticket(key) = NoTicket)
           r == Both(Ticket("netTicket"), Ticket("reservationTicket"))
<1>1. Decodable /\ op = "status"
  BY DEF IndInv, Status
<1>2. R!Query(Abstract) = IF Readable THEN R!None ELSE R!Err("invalid_response", FALSE)
  BY <1>1, DecodableReading
<1>3. FirstTicket(Null) = NoTicket
  BY RecordIsFirst DEF record, Look, Null
<1>4. \A key : Ticket(key) = FirstTicket(body.fields[key])
  BY <1>3, RecordIsFirst
<1>8. \A key : Verified(Ticket(key), body.fields[key])
  <2>1. record(Null) = NoTicket
    BY <1>3, RecordIsFirst
  <2>2. \A key : Ticket(key) = record(body.fields[key])
    BY <2>1
  <2>. QED BY <2>2, RecordIsNotInner
<1>5. Readable <=> ~(Bad("netTicket") \/ Bad("reservationTicket"))
  BY <1>1, <1>4 DEF Readable
<1>6. CASE Readable
  <2>1. Return(R!None, r)
    BY <1>5, <1>6 DEF Status
  <2>2. /\ r.kind = "status" /\ Nothing.kind = "nothing"
        /\ r["netTicket"] = Ticket("netTicket")
        /\ r["reservationTicket"] = Ticket("reservationTicket")
    BY DEF Both, Nothing
  <2>3. \A key \in {"netTicket", "reservationTicket"} :
          Verified(r[key], body.fields[key]) /\ (r[key] = NoTicket => body.fields[key] = Null)
    BY <1>8, <1>5, <1>6, <2>2
  <2>. HIDE DEF r
  <2>4. Faithful(R!None, r)
    BY <1>1, <1>2, <1>6, <2>2, <2>3 DEF Faithful
  <2>. QED BY <2>1, <2>4, ReturnKeeps
<1>7. CASE ~Readable
  <2>1. Return(R!Err("invalid_response", FALSE), Nothing)
    BY <1>5, <1>7 DEF Status, Refuse
  <2>2. Faithful(R!Err("invalid_response", FALSE), Nothing)
    BY <1>1, <1>2, <1>7, RefusalsAreErrors DEF Faithful, Nothing
  <2>. QED BY <2>1, <2>2, ReturnKeeps
<1>. QED BY <1>6, <1>7

\* What an operation makes of an answer is right at every step, whatever the
\* body, the status and the operation (client.go:33-298).
THEOREM Invariant == Spec => []IndInv
<1>1. Init => IndInv
  BY DEF Init, IndInv, Unreturned, TicketIsNotInner, NothingIsEmptyByMistake,
         AgreesWithResponse, Nothing
<1>2. IndInv /\ UNCHANGED vars => IndInv'
  <2>1. SUFFICES ASSUME IndInv, UNCHANGED vars PROVE IndInv'
    OBVIOUS
  <2>2. /\ op' = op /\ status' = status /\ body' = body
        /\ pc' = pc /\ error' = error /\ result' = result
    BY <2>1 DEF vars
  <2>3. Abstract' = Abstract
    BY <2>2 DEF Abstract, Readable
  <2>. QED BY <2>1, <2>2, <2>3 DEF IndInv, Unreturned, Decodable, TicketIsNotInner,
                                   NothingIsEmptyByMistake, AgreesWithResponse
<1>3. IndInv /\ [Next]_vars => IndInv'
  BY <1>2, RequestKeeps, ReserveKeeps, CancelKeeps, ListKeeps, StatusKeeps DEF Next
<1>. QED BY <1>1, <1>3, PTL DEF Spec

\* A created or current ticket is one that the answer names and that no ticket
\* around it holds, whatever the answer and however it nests its objects.
THEOREM TicketNotInner == Spec => []TicketIsNotInner
BY Invariant, PTL DEF IndInv

\* No error and no odd shape of an answer reads as an empty list or as "no
\* ticket".
THEOREM NothingLost == Spec => []NothingIsEmptyByMistake
BY Invariant, PTL DEF IndInv

\* Every body is classified as the reply of Response that stands for it.
THEOREM Agreement == Spec => []AgreesWithResponse
BY Invariant, PTL DEF IndInv
=============================================================================
