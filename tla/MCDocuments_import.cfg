\* Every document of at most three members, imported into either store.
SPECIFICATION Spec
CONSTANTS
  Documents <- SomeDocuments
  Profiles = {"p", "q"}
  Order <- Schemas
  Names <- SomeNames
  Lower <- InLowerCase
  Texts <- SomeTexts
  Right <- Accepted
  Size <- Bytes
  MaxImportBytes = 9
  Empty = ""
  Null = "null"
  Foreign = "foreign"
INVARIANTS
  TypeOK
  Unambiguous
  StoredIsReadable
CHECK_DEADLOCK FALSE
