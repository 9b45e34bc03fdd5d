---------------------------- MODULE DocumentsProofs ----------------------------
(***************************************************************************)
(* The safety properties of Documents, for documents of any length, any    *)
(* schemas, any limit and any way of writing values.                       *)
(***************************************************************************)
EXTENDS Documents, SequenceTheorems, TLAPS

\* The first n keys of the document are fields, each of them once, not null.
Scanned(n) ==
  /\ \A i \in 1..n : /\ doc.members[i].name \in Fields(kind)
                     /\ doc.members[i].value # Null
  /\ \A i, j \in 1..n : doc.members[i].name = doc.members[j].name => i = j

\* What the first reading has seen, and the second makes of it.
ScanInv ==
  /\ pc = "scan" => pos <= Len(doc.members) + 1 /\ Scanned(pos - 1)
  /\ pc = "decode" => Scanned(Len(doc.members))

\* Every member names a field exactly and is its value.
Exact(x) ==
  \A i \in DOMAIN doc.members :
    /\ doc.members[i].name \in Fields(kind)
    /\ doc.members[i].value = x[doc.members[i].name]
ExactInv == pc \in {"validate", "save", "imported", "loaded"} => Exact(c)

\* What Save wrote passed Validate, is what a load reads, and not too large.
Storable(x) == Valid(x) /\ x["profile"] = profile
StoredInv ==
  /\ pc = "save" => Storable(c) /\ stored = <<>>
  /\ pc \in {"imported", "loaded"} => stored # <<>>
  /\ stored # <<>> =>
       /\ Storable(stored[1]) /\ Size[kind][stored[1]] <= MaxImportBytes
       /\ pc \in {"open", "scan", "decode"} => doc = Marshal(stored[1])
       /\ pc \in {"validate", "imported", "loaded"} => c = stored[1]
       /\ pc # "refused"

IInv == ScanInv /\ ExactInv /\ StoredInv

-----------------------------------------------------------------------------
(* Documents. *)

LEMMA MembersTyped ==
  ASSUME TypeOK
  PROVE  /\ doc.members \in Seq(Member) /\ Len(doc.members) \in Nat
         /\ DOMAIN doc.members = 1..Len(doc.members)
         /\ \A i \in 1..Len(doc.members) :
              /\ doc.members[i].name \in Names
              /\ doc.members[i].value \in Texts \cup {Null, Foreign}
<1>1. doc.members \in Seq(Member)
  BY DEF TypeOK, Document
<1>2. Len(doc.members) \in Nat /\ DOMAIN doc.members = 1..Len(doc.members)
  BY <1>1, LenProperties
<1>3. \A i \in 1..Len(doc.members) : doc.members[i] \in Member
  BY <1>1, ElementOfSeq
<1>. QED BY <1>1, <1>2, <1>3 DEF Member

\* A field that a member names exactly, alone, has its value.
LEMMA DecodedIsExact ==
  ASSUME TypeOK, Scanned(Len(doc.members))
  PROVE  Exact(Decoded)
<1> SUFFICES ASSUME NEW i \in DOMAIN doc.members
             PROVE  /\ doc.members[i].name \in Fields(kind)
                    /\ doc.members[i].value = Decoded[doc.members[i].name]
  BY DEF Exact
<1> DEFINE f == doc.members[i].name
<1>1. DOMAIN doc.members = 1..Len(doc.members)
  BY MembersTyped
<1>2. f \in Fields(kind) /\ doc.members[i].value # Null
  BY <1>1 DEF Scanned
<1>3. \A j \in DOMAIN doc.members : Lower[doc.members[j].name] = doc.members[j].name
  BY <1>1, LowerAssumption DEF Scanned, TypeOK
<1>4. Hits(f) = {i}
  BY <1>1, <1>2, <1>3 DEF Scanned, Hits
<1>5. (CHOOSE k \in Hits(f) : \A j \in Hits(f) : j <= k) = i
  BY <1>1, <1>4
<1>. QED BY <1>2, <1>4, <1>5 DEF Decoded

LEMMA DecodedTyped ==
  ASSUME TypeOK, Scanned(Len(doc.members)),
         \A i \in DOMAIN doc.members : doc.members[i].value # Foreign
  PROVE  Decoded \in Contents(kind)
<1> SUFFICES ASSUME NEW f \in Fields(kind) PROVE Decoded[f] \in Texts
  BY DEF Decoded, Contents
<1>1. CASE Hits(f) = {}
  BY <1>1, TextsAssumption DEF Decoded
<1>2. CASE Hits(f) # {}
  <2>1. PICK i \in DOMAIN doc.members : Lower[doc.members[i].name] = f
    BY <1>2 DEF Hits
  <2>2. DOMAIN doc.members = 1..Len(doc.members)
    BY MembersTyped
  <2>3. doc.members[i].name \in Fields(kind) /\ doc.members[i].value # Null
    BY <2>2 DEF Scanned
  <2>4. doc.members[i].name = f
    BY <2>1, <2>3, LowerAssumption DEF TypeOK
  <2>5. doc.members[i].value = Decoded[f]
    BY <2>4, DecodedIsExact DEF Exact
  <2>. QED BY <2>2, <2>3, <2>5, MembersTyped
<1>. QED BY <1>1, <1>2

\* What Marshal writes is a document with every field once.
LEMMA MarshalTyped ==
  ASSUME TypeOK, NEW x \in Contents(kind)
  PROVE  /\ Marshal(x) \in Document
         /\ Marshal(x).rest = "end" /\ Marshal(x).size = Size[kind][x]
         /\ DOMAIN Marshal(x).members = DOMAIN Order[kind]
         /\ Len(Marshal(x).members) = Len(Order[kind])
         /\ \A i \in DOMAIN Order[kind] :
              /\ Marshal(x).members[i].name = Order[kind][i]
              /\ Marshal(x).members[i].value = x[Order[kind][i]]
<1> DEFINE m == [i \in DOMAIN Order[kind] |->
                   [name |-> Order[kind][i], value |-> x[Order[kind][i]]]]
<1>1. Order[kind] \in Seq(Names)
  BY OrderAssumption DEF TypeOK
<1>2. Len(Order[kind]) \in Nat /\ DOMAIN Order[kind] = 1..Len(Order[kind])
  BY <1>1, LenProperties
<1>3. \A i \in DOMAIN Order[kind] : Order[kind][i] \in Names /\ Order[kind][i] \in Fields(kind)
  BY <1>1, <1>2, ElementOfSeq DEF Fields
<1>4. \A i \in DOMAIN Order[kind] : m[i] \in Member
  BY <1>3 DEF Member, Contents
<1>5. m \in Seq(Member) /\ Len(m) = Len(Order[kind])
  <2>1. m \in [1..Len(Order[kind]) -> Member]
    BY <1>2, <1>4
  <2>2. m \in Seq(Member)
    BY <1>2, <2>1, SeqDef
  <2>3. Len(m) \in Nat /\ DOMAIN m = 1..Len(m)
    BY <2>2, LenProperties
  <2>4. 1..Len(m) = 1..Len(Order[kind])
    BY <2>1, <2>3
  <2>. QED BY <1>2, <2>2, <2>3, <2>4
<1>6. Size[kind][x] \in Nat
  BY SizeAssumption DEF TypeOK
<1>7. Marshal(x) = [members |-> m, rest |-> "end", size |-> Size[kind][x]]
  BY DEF Marshal
<1>. HIDE DEF m
<1>8. Marshal(x) \in Document /\ Marshal(x).members = m /\ Marshal(x).rest = "end"
      /\ Marshal(x).size = Size[kind][x]
  BY <1>5, <1>6, <1>7 DEF Document
<1>. QED BY <1>2, <1>5, <1>8 DEF m

LEMMA MarshalScanned ==
  ASSUME TypeOK, NEW x \in Contents(kind), doc = Marshal(x)
  PROVE  /\ Scanned(Len(doc.members)) /\ doc.rest = "end" /\ doc.size = Size[kind][x]
         /\ \A i \in 1..Len(doc.members) :
              /\ doc.members[i].name \in Fields(kind)
              /\ doc.members[i].value = x[doc.members[i].name]
              /\ doc.members[i].value \in Texts
         /\ \A f \in Fields(kind) : \E i \in 1..Len(doc.members) : doc.members[i].name = f
<1>1. DOMAIN doc.members = 1..Len(doc.members) /\ DOMAIN doc.members = DOMAIN Order[kind]
  BY MembersTyped, MarshalTyped
<1>2. \A i \in DOMAIN doc.members : /\ doc.members[i].name = Order[kind][i]
                                    /\ doc.members[i].value = x[Order[kind][i]]
  BY <1>1, MarshalTyped
<1>3. \A i \in DOMAIN Order[kind] : Order[kind][i] \in Fields(kind)
  BY DEF Fields
<1>4. \A f \in Fields(kind) : x[f] \in Texts
  BY DEF Contents
<1>5. \A i, j \in DOMAIN Order[kind] : Order[kind][i] = Order[kind][j] => i = j
  BY OrderAssumption DEF TypeOK
<1>6. \A f \in Fields(kind) : \E i \in DOMAIN Order[kind] : Order[kind][i] = f
  BY DEF Fields
<1>7. Scanned(Len(doc.members))
  BY <1>1, <1>2, <1>3, <1>4, <1>5, TextsAssumption DEF Scanned
<1>. QED BY <1>1, <1>2, <1>3, <1>4, <1>6, <1>7, MarshalTyped

\* The second reading of what was marshalled gives it back.
LEMMA RoundTrip ==
  ASSUME TypeOK, NEW x \in Contents(kind), doc = Marshal(x)
  PROVE  Decoded = x
<1>1. DOMAIN doc.members = 1..Len(doc.members)
  BY MembersTyped
<1>2. \A f \in Fields(kind) : Decoded[f] = x[f]
  BY <1>1, MarshalScanned, DecodedIsExact DEF Exact
<1>3. DOMAIN x = Fields(kind)
  BY DEF Contents
<1>4. Decoded = [f \in Fields(kind) |-> Decoded[f]]
  BY DEF Decoded
<1>. QED BY <1>2, <1>3, <1>4 DEF Contents

-----------------------------------------------------------------------------
(* The invariant. *)

LEMMA TypeInit == Init => TypeOK
<1> SUFFICES ASSUME Init PROVE TypeOK
  OBVIOUS
<1>1. c \in Contents(kind)
  BY TextsAssumption DEF Init, Contents
<1>. QED BY <1>1, DocumentsAssumption DEF Init, TypeOK, Steps

LEMMA TypeNext == TypeOK /\ ScanInv /\ StoredInv /\ [Next]_vars => TypeOK'
<1> SUFFICES ASSUME TypeOK, ScanInv, StoredInv, [Next]_vars PROVE TypeOK'
  OBVIOUS
<1>1. CASE Refuse
  BY <1>1 DEF Refuse, TypeOK, Steps
<1>2. CASE Open /\ ~Refuse
  <2>1. /\ pc' = "scan" /\ pos' = 1 /\ allowed' = Fields(kind)
        /\ UNCHANGED <<kind, profile, doc, c, stored>>
    BY <1>2 DEF Open
  <2>2. {doc.members[i].name : i \in 1..(pos' - 1)} = {}
    BY <2>1
  <2>. QED BY <2>1, <2>2 DEF TypeOK, Steps
<1>3. CASE ScanKey /\ ~Refuse
  <2>1. /\ pc = "scan" /\ pos' = pos + 1 /\ allowed' = allowed \ {doc.members[pos].name}
        /\ UNCHANGED <<kind, profile, doc, pc, c, stored>>
    BY <1>3 DEF ScanKey
  <2>2. 1..(pos' - 1) = 1..(pos - 1) \cup {pos}
    BY <2>1 DEF TypeOK
  <2>3. allowed' = Fields(kind) \ {doc.members[i].name : i \in 1..(pos' - 1)}
    BY <2>1, <2>2 DEF TypeOK
  <2>4. pos' \in Nat \ {0}
    BY <2>1 DEF TypeOK
  <2>5. allowed' \subseteq Fields(kind)
    BY <2>1 DEF TypeOK
  <2>. QED BY <2>1, <2>3, <2>4, <2>5 DEF TypeOK
<1>4. CASE ScanEnd
  BY <1>4 DEF ScanEnd, TypeOK, Steps
<1>5. CASE Decode /\ ~Refuse
  <2>1. /\ pc = "decode" /\ pc' = "validate" /\ c' = Decoded
        /\ \A i \in DOMAIN doc.members : doc.members[i].value # Foreign
        /\ UNCHANGED <<kind, profile, doc, pos, allowed, stored>>
    BY <1>5 DEF Decode
  <2>2. Decoded \in Contents(kind)
    BY <2>1, DecodedTyped DEF ScanInv
  <2>. QED BY <2>1, <2>2 DEF TypeOK, Steps
<1>6. CASE Validate /\ ~Refuse
  BY <1>6 DEF Validate, TypeOK, Steps
<1>7. CASE Save /\ ~Refuse
  BY <1>7 DEF Save, TypeOK, Steps
<1>8. CASE Load
  <2>1. stored # <<>>
    BY <1>8 DEF Load, StoredInv
  <2>2. stored[1] \in Contents(kind)
    BY <2>1 DEF TypeOK
  <2>3. Marshal(stored[1]) \in Document
    BY <2>2, MarshalTyped
  <2>4. [f \in Fields(kind) |-> Empty] \in Contents(kind)
    BY TextsAssumption DEF Contents
  <2>5. pc' = "open" /\ doc' = Marshal(stored[1]) /\ c' = [f \in Fields(kind) |-> Empty]
        /\ UNCHANGED <<kind, profile, pos, allowed, stored>>
    BY <1>8 DEF Load
  <2>. QED BY <2>3, <2>4, <2>5 DEF TypeOK, Steps
<1>9. CASE UNCHANGED vars
  BY <1>9 DEF vars, TypeOK
<1>. QED BY <1>1, <1>2, <1>3, <1>4, <1>5, <1>6, <1>7, <1>8, <1>9
         DEF Next, Open, ScanKey, Decode, Validate, Save

LEMMA ScanNext == TypeOK /\ ScanInv /\ [Next]_vars => ScanInv'
<1> SUFFICES ASSUME TypeOK, ScanInv, [Next]_vars PROVE ScanInv'
  OBVIOUS
<1>1. CASE Open /\ ~Refuse
  <2>1. pc' = "scan" /\ pos' = 1 /\ UNCHANGED <<doc, kind>>
    BY <1>1 DEF Open
  <2>2. Len(doc.members) \in Nat
    BY MembersTyped
  <2>. QED BY <2>1, <2>2 DEF ScanInv, Scanned
<1>2. CASE ScanKey /\ ~Refuse
  <2>1. /\ pc = "scan" /\ pos <= Len(doc.members) /\ pos' = pos + 1
        /\ doc.members[pos].name \in allowed /\ doc.members[pos].value # Null
        /\ UNCHANGED <<kind, doc, pc>>
    BY <1>2 DEF ScanKey
  <2>2. /\ doc.members[pos].name \in Fields(kind)
        /\ \A i \in 1..(pos - 1) : doc.members[i].name # doc.members[pos].name
    BY <2>1 DEF TypeOK
  <2>3. pos \in Nat \ {0} /\ Len(doc.members) \in Nat
    BY MembersTyped DEF TypeOK
  <2>4. \A i \in 1..pos : i \in 1..(pos - 1) \/ i = pos
    BY <2>3
  <2>5. pos' - 1 = pos /\ pos' <= Len(doc.members) + 1
    BY <2>1, <2>3
  <2>6. Scanned(pos - 1)
    BY <2>1 DEF ScanInv
  <2>7. Scanned(pos)
    BY <2>1, <2>2, <2>4, <2>6 DEF Scanned
  <2>. QED BY <2>1, <2>5, <2>7 DEF ScanInv, Scanned
<1>3. CASE ScanEnd
  <2>1. /\ pc = "scan" /\ pos > Len(doc.members) /\ pc' = "decode" /\ UNCHANGED <<kind, doc>>
    BY <1>3 DEF ScanEnd
  <2>2. pos - 1 = Len(doc.members)
    BY <2>1, MembersTyped DEF ScanInv, TypeOK
  <2>. QED BY <2>1, <2>2 DEF ScanInv, Scanned
<1>4. CASE Refuse \/ (Decode /\ ~Refuse) \/ (Validate /\ ~Refuse) \/ (Save /\ ~Refuse) \/ Load
  <2>1. pc' \notin {"scan", "decode"}
    BY <1>4 DEF Refuse, Decode, Validate, Save, Load
  <2>. QED BY <2>1 DEF ScanInv
<1>5. CASE UNCHANGED vars
  BY <1>5 DEF vars, ScanInv, Scanned
<1>. QED BY <1>1, <1>2, <1>3, <1>4, <1>5 DEF Next, Open, ScanKey

LEMMA ExactNext == TypeOK /\ ScanInv /\ ExactInv /\ [Next]_vars => ExactInv'
<1> SUFFICES ASSUME TypeOK, ScanInv, ExactInv, [Next]_vars PROVE ExactInv'
  OBVIOUS
<1>1. CASE Decode /\ ~Refuse
  <2>1. pc = "decode" /\ c' = Decoded /\ UNCHANGED <<kind, doc>>
    BY <1>1 DEF Decode
  <2>2. Exact(Decoded)
    BY <2>1, DecodedIsExact DEF ScanInv
  <2>. QED BY <2>1, <2>2 DEF ExactInv, Exact
<1>2. CASE (Validate /\ ~Refuse) \/ (Save /\ ~Refuse)
  <2>1. pc \in {"validate", "save"} /\ UNCHANGED <<kind, doc, c>>
    BY <1>2 DEF Validate, Save
  <2>. QED BY <2>1 DEF ExactInv, Exact
<1>3. CASE Refuse \/ (Open /\ ~Refuse) \/ (ScanKey /\ ~Refuse) \/ ScanEnd \/ Load
  <2>1. pc' \notin {"validate", "save", "imported", "loaded"}
    BY <1>3 DEF Refuse, Open, ScanKey, ScanEnd, Load
  <2>. QED BY <2>1 DEF ExactInv
<1>4. CASE UNCHANGED vars
  BY <1>4 DEF vars, ExactInv, Exact
<1>. QED BY <1>1, <1>2, <1>3, <1>4 DEF Next, Decode, Validate, Save

\* A load of what was stored meets no reason to refuse it.
LEMMA NotRefused ==
  ASSUME TypeOK, ScanInv, StoredInv, Next, stored # <<>>
  PROVE  ~Refuse
<1> DEFINE x == stored[1]
<1>1. x \in Contents(kind)
  BY DEF TypeOK
<1>2. /\ Storable(x) /\ Size[kind][x] <= MaxImportBytes /\ pc # "save"
      /\ pc \in {"open", "scan", "decode"} => doc = Marshal(x)
      /\ pc \in {"validate", "imported", "loaded"} => c = x
  BY DEF StoredInv
<1>. HIDE DEF x
<1>3. CASE Open
  <2>1. doc.size = Size[kind][x]
    BY <1>1, <1>2, <1>3, MarshalScanned DEF Open
  <2>2. Size[kind][x] \in Nat /\ MaxImportBytes \in Nat
    BY <1>1, SizeAssumption DEF TypeOK
  <2>. QED BY <1>2, <1>3, <2>1, <2>2 DEF Open, Refuse
<1>4. CASE ScanKey
  <2>1. pos \in 1..Len(doc.members) /\ pc = "scan" /\ pos \in Nat
    BY <1>4, MembersTyped DEF ScanKey, TypeOK
  <2>2. doc.members[pos].name \in Fields(kind) /\ doc.members[pos].value # Null
    BY <1>1, <1>2, <2>1, MarshalScanned, TextsAssumption
  <2>3. \A i \in 1..(pos - 1) : doc.members[i].name # doc.members[pos].name
    <3>1. \A i \in 1..(pos - 1) : i \in 1..Len(doc.members) /\ i # pos
      BY <2>1, MembersTyped
    <3>2. Scanned(Len(doc.members))
      BY <1>1, <1>2, <2>1, MarshalScanned
    <3>. QED BY <2>1, <3>1, <3>2 DEF Scanned
  <2>4. doc.members[pos].name \in allowed
    BY <2>1, <2>2, <2>3 DEF TypeOK
  <2>. QED BY <1>4, <2>1, <2>2, <2>4 DEF ScanKey, Refuse
<1>5. CASE Decode
  <2>1. /\ doc.rest = "end"
        /\ \A i \in DOMAIN doc.members : /\ Lower[doc.members[i].name] \in Fields(kind)
                                         /\ doc.members[i].value # Foreign
    BY <1>1, <1>2, <1>5, MarshalScanned, MembersTyped, LowerAssumption, TextsAssumption
       DEF Decode, TypeOK
  <2>. QED BY <1>5, <2>1 DEF Decode, Refuse
<1>6. CASE Validate
  BY <1>2, <1>6 DEF Validate, Storable, Refuse
<1>7. CASE ScanEnd \/ Save \/ Load
  BY <1>2, <1>7 DEF ScanEnd, Save, Load, Refuse
<1>. QED BY <1>3, <1>4, <1>5, <1>6, <1>7 DEF Next

LEMMA StoredNext == TypeOK /\ ScanInv /\ StoredInv /\ [Next]_vars => StoredInv'
<1> SUFFICES ASSUME TypeOK, ScanInv, StoredInv, [Next]_vars PROVE StoredInv'
  OBVIOUS
<1> DEFINE x == stored[1]
<1>0. UNCHANGED <<kind, profile>>
  BY DEF Next, vars, Open, ScanKey, ScanEnd, Decode, Validate, Save, Load, Refuse
<1>1. CASE Refuse /\ Next
  <2>1. stored = <<>> /\ stored' = stored /\ pc' = "refused"
    BY <1>1, NotRefused DEF Refuse
  <2>. QED BY <2>1 DEF StoredInv
<1>2. CASE (Open /\ ~Refuse) \/ (ScanKey /\ ~Refuse) \/ ScanEnd
  <2>1. /\ pc \in {"open", "scan"} /\ pc' \in {"scan", "decode"}
        /\ UNCHANGED <<doc, c, stored>>
    BY <1>2 DEF Open, ScanKey, ScanEnd
  <2>. QED BY <1>0, <2>1 DEF StoredInv, Storable, Valid, Marshal, Fields
<1>3. CASE Decode /\ ~Refuse
  <2>1. pc = "decode" /\ pc' = "validate" /\ c' = Decoded /\ UNCHANGED <<doc, stored>>
    BY <1>3 DEF Decode
  <2>2. stored # <<>> => Decoded = stored[1]
    BY <2>1, RoundTrip DEF StoredInv, TypeOK
  <2>. QED BY <1>0, <2>1, <2>2 DEF StoredInv, Storable, Valid, Fields
<1>4. CASE Validate /\ ~Refuse
  <2>1. /\ pc = "validate" /\ UNCHANGED <<c, stored>> /\ Storable(c)
        /\ pc' = IF stored = <<>> THEN "save" ELSE "loaded"
    BY <1>4 DEF Validate, Storable
  <2>. QED BY <1>0, <2>1 DEF StoredInv, Storable, Valid, Fields
<1>5. CASE Save /\ ~Refuse
  <2>1. pc = "save" /\ pc' = "imported" /\ stored' = <<c>> /\ c' = c
        /\ ~(Size[kind][c] > MaxImportBytes)
    BY <1>5 DEF Save
  <2>2. Size[kind][c] <= MaxImportBytes
    BY <2>1, SizeAssumption DEF TypeOK
  <2>3. Storable(c) /\ stored'[1] = c /\ stored' # <<>>
    BY <2>1 DEF StoredInv
  <2>. QED BY <1>0, <2>1, <2>2, <2>3 DEF StoredInv, Storable, Valid, Fields
<1>6. CASE Load
  <2>1. pc = "imported" /\ pc' = "open" /\ doc' = Marshal(stored[1]) /\ stored' = stored
    BY <1>6 DEF Load
  <2>. QED BY <1>0, <2>1 DEF StoredInv, Storable, Valid, Marshal, Fields
<1>7. CASE UNCHANGED vars
  BY <1>7 DEF vars, StoredInv, Storable, Valid, Marshal, Fields
<1>. QED BY <1>1, <1>2, <1>3, <1>4, <1>5, <1>6, <1>7 DEF Next

LEMMA Invariant == Spec => [](TypeOK /\ IInv)
<1>1. Init => IInv
  BY DEF Init, IInv, ScanInv, ExactInv, StoredInv
<1>2. TypeOK /\ IInv /\ [Next]_vars => TypeOK' /\ IInv'
  BY TypeNext, ScanNext, ExactNext, StoredNext DEF IInv
<1>. QED BY <1>1, <1>2, TypeInit, PTL DEF Spec

-----------------------------------------------------------------------------
(* The properties. *)

\* Every variable keeps its type, and a key is allowed until it was seen.
THEOREM TypeCorrect == Spec => []TypeOK
<1>. QED BY Invariant, PTL

\* An accepted document has one reading.
THEOREM OneReading == Spec => []Unambiguous
<1>1. IInv => Unambiguous
  BY DEF IInv, ExactInv, Exact, Unambiguous
<1>. QED BY <1>1, Invariant, PTL

\* What an import stored, a load accepts and gives back.
THEOREM StoredIsLoaded == Spec => []StoredIsReadable
<1>1. TypeOK /\ IInv => StoredIsReadable
  BY DEF IInv, StoredInv, StoredIsReadable, TypeOK
<1>. QED BY <1>1, Invariant, PTL
=============================================================================
