------------------------------ MODULE Documents ------------------------------
(***************************************************************************)
(* What is in a configuration file: how ImportJSON and ImportPublicJSON    *)
(* (internal/auth/import.go, public_import.go) read a document, and how    *)
(* Save writes it and Load reads it again (store.go, public_store.go).     *)
(* A document is read twice: first key by key, to refuse what the second   *)
(* reading, encoding/json into a struct, would take silently: a repeated   *)
(* key, of which it takes the last, a key in another case, and null.       *)
(*                                                                         *)
(* One behaviour is one import of any document, followed, when it is       *)
(* accepted, by a load of what it stored.  How the file system treats the  *)
(* file is the module ConfigStore.                                         *)
(***************************************************************************)
EXTENDS Naturals, Sequences

CONSTANTS
  Documents,      \* the documents that may be imported
  Profiles,       \* the profiles that may be asked for
  Order,          \* Order[k]: the fields of a schema, as they are written
  Names,          \* the keys a document may have
  Lower,          \* Lower[n]: the key n in lower case
  Texts,          \* the values a field may take
  Right,          \* Right[f]: the values of field f that Validate accepts
  Size,           \* Size[k][c]: the bytes of c in JSON
  MaxImportBytes, \* the limit of both readings
  Empty,          \* the value of a field that is not set
  Null,           \* the JSON value null
  Foreign         \* a JSON value of another type than the field

Kinds     == {"personal", "public"}
Fields(k) == {Order[k][i] : i \in DOMAIN Order[k]}
Contents(k) == [Fields(k) -> Texts]
Member    == [name : Names, value : Texts \cup {Null, Foreign}]
\* rest: what follows the object: nothing, or more.
Document  == [members : Seq(Member), rest : {"end", "more"}, size : Nat]

ASSUME DocumentsAssumption == Documents \subseteq Document
ASSUME OrderAssumption ==
  /\ Order \in [Kinds -> Seq(Names)]
  /\ \A k \in Kinds : "profile" \in Fields(k)
  /\ \A k \in Kinds : \A i, j \in DOMAIN Order[k] : Order[k][i] = Order[k][j] => i = j
ASSUME LowerAssumption ==
  Lower \in [Names -> Names] /\ \A k \in Kinds : \A f \in Fields(k) : Lower[f] = f
ASSUME TextsAssumption ==
  /\ Empty \in Texts /\ Null \notin Texts /\ Foreign \notin Texts
  /\ \A k \in Kinds : \A f \in Fields(k) : Right[f] \subseteq Texts
ASSUME SizeAssumption ==
  MaxImportBytes \in Nat /\ \A k \in Kinds : Size[k] \in [Contents(k) -> Nat]

VARIABLES
  kind,    \* the schema: of the personal or the public store
  profile, \* the profile asked for
  doc,     \* the document being read
  pc,      \* the next step
  pos,     \* the key to look at
  allowed, \* the fields not seen yet
  c,       \* the decoded document
  stored   \* what Save wrote, <<>> before

vars == <<kind, profile, doc, pc, pos, allowed, c, stored>>

Steps == {"open", "scan", "decode", "validate", "save", "imported", "loaded", "refused"}

-----------------------------------------------------------------------------
Refuse == pc' = "refused" /\ UNCHANGED <<kind, profile, doc, pos, allowed, c, stored>>

\* The size, with LimitReader's one byte more; the first key.
Open ==
  /\ pc = "open"
  /\ IF doc.size > MaxImportBytes THEN Refuse
     ELSE /\ pc' = "scan"
          /\ pos' = 1
          /\ allowed' = Fields(kind)
          /\ UNCHANGED <<kind, profile, doc, c, stored>>

\* Slips of ScanKey: a key may come again; null is let through.
ScanKeyRepeated ==
  /\ pc = "scan" /\ pos <= Len(doc.members)
  /\ IF doc.members[pos].name \notin allowed \/ doc.members[pos].value = Null
     THEN Refuse
     ELSE /\ pos' = pos + 1
          /\ UNCHANGED <<kind, profile, doc, pc, allowed, c, stored>>
ScanKeyNull ==
  /\ pc = "scan" /\ pos <= Len(doc.members)
  /\ IF doc.members[pos].name \notin allowed THEN Refuse
     ELSE /\ pos' = pos + 1
          /\ allowed' = allowed \ {doc.members[pos].name}
          /\ UNCHANGED <<kind, profile, doc, pc, c, stored>>

\* keys.Token and keys.Decode: one key, exact, once, and not null.
ScanKey ==
  /\ pc = "scan" /\ pos <= Len(doc.members)
  /\ IF doc.members[pos].name \notin allowed \/ doc.members[pos].value = Null
     THEN Refuse
     ELSE /\ pos' = pos + 1
          /\ allowed' = allowed \ {doc.members[pos].name}
          /\ UNCHANGED <<kind, profile, doc, pc, c, stored>>

ScanEnd ==
  /\ pc = "scan" /\ pos > Len(doc.members)
  /\ pc' = "decode"
  /\ UNCHANGED <<kind, profile, doc, pos, allowed, c, stored>>

\* What encoding/json puts into field f: the last value whose key is f in any
\* case; null sets nothing.
Hits(f) ==
  {i \in DOMAIN doc.members : Lower[doc.members[i].name] = f /\ doc.members[i].value # Null}
Decoded ==
  [f \in Fields(kind) |->
     IF Hits(f) = {} THEN Empty
     ELSE doc.members[CHOOSE i \in Hits(f) : \A j \in Hits(f) : j <= i].value]

\* Decode into the struct, with DisallowUnknownFields, to the end of input.
Decode ==
  /\ pc = "decode"
  /\ IF \/ doc.rest = "more"
        \/ \E i \in DOMAIN doc.members :
             \/ Lower[doc.members[i].name] \notin Fields(kind)
             \/ doc.members[i].value = Foreign
     THEN Refuse
     ELSE /\ c' = Decoded
          /\ pc' = "validate"
          /\ UNCHANGED <<kind, profile, doc, pos, allowed, stored>>

Valid(x) == \A f \in Fields(kind) : x[f] \in Right[f]

\* Validate, and the caller's comparison of the profile.
Validate ==
  /\ pc = "validate"
  /\ IF Valid(c) /\ c["profile"] = profile
     THEN /\ pc' = IF stored = <<>> THEN "save" ELSE "loaded"
          /\ UNCHANGED <<kind, profile, doc, pos, allowed, c, stored>>
     ELSE Refuse

\* json.Marshal: every field, in the order of the struct.
Marshal(x) ==
  [members |-> [i \in DOMAIN Order[kind] |->
                  [name |-> Order[kind][i], value |-> x[Order[kind][i]]]],
   rest |-> "end", size |-> Size[kind][x]]

\* A slip of Save: it writes what Load would find too large.
SaveAnySize ==
  /\ pc = "save"
  /\ stored' = <<c>>
  /\ pc' = "imported"
  /\ UNCHANGED <<kind, profile, doc, pos, allowed, c>>

\* Save writes nothing that is larger than what Load reads: JSON may escape
\* a character in six bytes.
Save ==
  /\ pc = "save"
  /\ IF Size[kind][c] > MaxImportBytes THEN Refuse
     ELSE /\ stored' = <<c>>
          /\ pc' = "imported"
          /\ UNCHANGED <<kind, profile, doc, pos, allowed, c>>

\* A later process loads the profile.
Load ==
  /\ pc = "imported"
  /\ doc' = Marshal(stored[1])
  /\ pc' = "open"
  /\ c' = [f \in Fields(kind) |-> Empty]
  /\ UNCHANGED <<kind, profile, pos, allowed, stored>>

-----------------------------------------------------------------------------
Init ==
  /\ kind \in Kinds
  /\ profile \in Profiles
  /\ doc \in Documents
  /\ pc = "open"
  /\ pos = 1
  /\ allowed = {}
  /\ c = [f \in Fields(kind) |-> Empty]
  /\ stored = <<>>

Next == Open \/ ScanKey \/ ScanEnd \/ Decode \/ Validate \/ Save \/ Load

Spec == Init /\ [][Next]_vars

-----------------------------------------------------------------------------
(***************************************************************************)
(* Properties.                                                             *)
(***************************************************************************)

\* The type invariant; a key is allowed until it was seen.
TypeOK ==
  /\ kind \in Kinds
  /\ profile \in Profiles
  /\ doc \in Document
  /\ pc \in Steps
  /\ pos \in Nat \ {0}
  /\ allowed \subseteq Fields(kind)
  /\ pc = "scan" => allowed = Fields(kind) \ {doc.members[i].name : i \in 1..(pos - 1)}
  /\ c \in Contents(kind)
  /\ stored = <<>> \/ \E x \in Contents(kind) : stored = <<x>>

\* Whoever reads an accepted document, taking the first or the last of a
\* repeated key, with or without regard to case, reads the same: every member
\* names a field exactly and is its value.
Unambiguous ==
  pc \in {"save", "imported", "loaded"} =>
    \A i \in DOMAIN doc.members :
      /\ doc.members[i].name \in Fields(kind)
      /\ doc.members[i].value = c[doc.members[i].name]

\* What an import stored, a load accepts and returns unchanged: the two
\* readings, Validate and the limits agree with what Marshal writes.
StoredIsReadable ==
  /\ stored # <<>> => pc # "refused"
  /\ pc = "loaded" => stored = <<c>>
=============================================================================
