----------------------------- MODULE MCCommands -----------------------------
(* Instances of Commands for TLC. *)
EXTENDS Commands

MostTokens == 4 \* a bound on the length of a line

SomeTokens == {"--json", "--profile", "--profile=b", "--confirm", "--confirm=false", "--store",
               "--store=1", "reserve", "stores", "auth", "status", "interactive",
               "mcp", "version", "help", "b", "1"}
AllLines   == UNION {[1..n -> SomeTokens] : n \in 0..MostTokens}
Words      == {t \in SomeTokens : t \notin {"--json", "--profile", "--profile=b", "--confirm",
                 "--confirm=false", "--store", "--store=1"}} \cup {"default"}
InlineB    == [t \in {"--profile=b"} |-> "b"]
StoreOne   == [t \in {"--store=1"} |-> "1"]
=============================================================================
