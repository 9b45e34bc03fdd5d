---------------------------- MODULE ConfigStore ----------------------------
(***************************************************************************)
(* One profile's configuration file: FileStore and PublicFileStore         *)
(* (internal/auth/store.go, public_store.go) behind the adapters of        *)
(* cmd/sushiro-cli (main.go, public.go).  The same directory is used by    *)
(* several processes at once: a long-lived MCP server that loads it for    *)
(* every tool call, and command lines that load or import.                 *)
(*                                                                         *)
(* Calls of one process share a mutex and the memoised result of opening   *)
(* the store; calls of different processes share only the file system.     *)
(* Each system call that touches the directory is a step of its own, so    *)
(* that other processes, a signal, a crash or a power loss can come in     *)
(* between.  The file that an import writes is named after the import.     *)
(***************************************************************************)
EXTENDS FiniteSets

CONSTANTS
  Calls,     \* the loads, imports and deletions
  Procs,     \* the processes
  ProcOf,    \* ProcOf[c]: the process that makes call c
  Interrupts, \* the calls whose context may be cancelled (a bound)
  IsPublic,  \* the public store, whose adapter looks before it opens
  Original,  \* the file that was there before
  NoFile,    \* the path names no file
  NoCall     \* the mutex is free

ASSUME ProcsAssumption == ProcOf \in [Calls -> Procs]
ASSUME InterruptsAssumption == Interrupts \subseteq Calls
ASSUME PublicAssumption == IsPublic \in BOOLEAN
ASSUME NamesAssumption ==
  /\ Original \notin Calls /\ NoFile \notin Calls \cup {Original} /\ NoCall \notin Calls
  /\ (Calls \cup {Original, NoFile}) \cap {"absent", "private", "open"} = {}

Files == Calls \cup {Original}
Paths == Files \cup {NoFile}

VARIABLES
  pc,        \* pc[c]: the next step of c
  op,        \* op[c]: "load", "import" or "delete"
  ctx,       \* ctx[c]: "live" or "cancelled"
  outcome,   \* outcome[c]: what c returns
  got,       \* got[c]: the file a load looked at, and then read
  lock,      \* lock[p]: the call that holds the store's mutex
  opened,    \* opened[p]: the memoised result of opening the store
  path,      \* the file that <profile>.json names
  dir,       \* the directory: "absent", "private", or "open" to others
  disk,      \* disk[f]: what is in file f
  temps,     \* the temporary files in the directory
  durable,   \* the directory's metadata as it was last written back
  during,    \* during[c]: what directory and path were while load c ran (history)
  published  \* the imports whose file path has named (history)

mine   == <<op, ctx>>
files  == <<path, disk, temps, durable, published>>
proc   == <<lock, opened>>
vars   == <<pc, op, ctx, outcome, got, lock, opened, path, dir, disk, temps,
            durable, during, published>>

PCs == {"idle", "source", "findDir", "findFile", "open", "lock", "stat",
        "openFile", "read", "inspect", "create", "write", "sync", "commit",
        "rename", "cleanup", "remove", "done", "dead"}
\* "missing" is fs.ErrNotExist, "rejected" ErrInvalid or ErrProfile for what
\* the file holds, "moved" the ErrUnsafe of a file that is not the one that
\* was looked at, "failed" any other error.
Outcomes == {"none", "loaded", "missing", "rejected", "moved", "failed",
             "saved", "removed"}
\* "bad" is a document that is torn, invalid or of another profile;
\* "exposed" a file that is not regular, not private or too large.
Contents == {"none", "empty", "written", "good", "bad", "exposed"}

\* What a load may see: a state of the directory, or what the path names.
Directories == {"absent", "private", "open"}
Sights      == Directories \cup Paths

Running(c) == pc[c] \notin {"idle", "done", "dead"}
Loading(c) == Running(c) /\ op[c] = "load"

\* The directory as it is now, all of which can be lost until it is written back
\* (Flush).
WrittenBack == [made : BOOLEAN, path : Paths, temps : SUBSET Calls]
Entries == [made |-> dir # "absent", path |-> path, temps |-> temps]

\* Every load in progress witnesses the directory and the path at this moment.
Witness(d, f) ==
  during' = [c \in Calls |->
               IF Loading(c) THEN during[c] \cup {d, f}
               ELSE during[c]]

-----------------------------------------------------------------------------
\* A slip of Finish: the mutex stays held.
FinishWithoutUnlock(c, o) ==
  /\ pc' = [pc EXCEPT ![c] = "done"]
  /\ outcome' = [outcome EXCEPT ![c] = o]
  /\ UNCHANGED lock

\* Return, and run the deferred Unlock.
Finish(c, o) ==
  /\ pc' = [pc EXCEPT ![c] = "done"]
  /\ outcome' = [outcome EXCEPT ![c] = o]
  /\ lock' = [p \in Procs |-> IF lock[p] = c THEN NoCall ELSE lock[p]]

Goto(c, step) ==
  /\ pc' = [pc EXCEPT ![c] = step]
  /\ UNCHANGED <<outcome, lock>>

FirstStep(o) ==
  IF o = "import" THEN "source"
  ELSE IF o = "load" /\ IsPublic THEN "findDir" ELSE "open"

Begin(c, o) ==
  /\ pc[c] = "idle"
  /\ op' = [op EXCEPT ![c] = o]
  /\ during' = [during EXCEPT ![c] = IF o = "load" THEN {dir, path} ELSE {}]
  /\ pc' = [pc EXCEPT ![c] = FirstStep(o)]
  /\ UNCHANGED <<ctx, outcome, got, proc, dir, files>>

\* ReadPrivateFile of the document to import, and its profile: it is good, or
\* the import ends (Fail).
ReadSource(c) ==
  /\ pc[c] = "source"
  /\ IF ctx[c] = "cancelled" THEN Finish(c, "failed") ELSE Goto(c, "open")
  /\ UNCHANGED <<mine, got, opened, dir, files, during>>

\* publicAdapter.LoadPublic looks at the directory and the file first: only
\* what is missing selects the built-in default.
FindDir(c) ==
  /\ pc[c] = "findDir"
  /\ IF ctx[c] = "cancelled" \/ dir = "open" THEN Finish(c, "failed")
     ELSE IF dir = "absent" THEN Finish(c, "missing")
     ELSE Goto(c, "findFile")
  /\ UNCHANGED <<mine, got, opened, dir, files, during>>

FindFile(c) ==
  /\ pc[c] = "findFile"
  /\ IF path = NoFile THEN Finish(c, "missing") ELSE Goto(c, "open")
  /\ UNCHANGED <<mine, got, opened, dir, files, during>>

\* open and NewFileStore, once per process: make the directory if need be,
\* never repair it, and remember the result for good.
OpenStore(c) ==
  LET p == ProcOf[c] IN
  /\ pc[c] = "open"
  /\ IF opened[p] # "not yet"
     THEN UNCHANGED <<opened, dir, during>>
     ELSE /\ dir' = IF dir = "absent" THEN "private" ELSE dir
          /\ opened' = [opened EXCEPT ![p] = IF dir' = "private" THEN "usable" ELSE "unusable"]
          /\ Witness(dir', path)
  /\ IF opened'[p] = "usable" THEN Goto(c, "lock") ELSE Finish(c, "failed")
  /\ UNCHANGED <<mine, got, files>>

\* A slip of Acquire: loads do not take the mutex.
AcquireOnlyToWrite(c) ==
  LET p == ProcOf[c] IN
  /\ pc[c] = "lock"
  /\ IF op[c] = "load"
     THEN Goto(c, "stat")
     ELSE /\ lock[p] = NoCall
          /\ lock' = [lock EXCEPT ![p] = c]
          /\ pc' = [pc EXCEPT ![c] = IF op[c] = "import" THEN "inspect" ELSE "remove"]
          /\ UNCHANGED outcome
  /\ UNCHANGED <<mine, got, opened, dir, files, during>>

\* Lock, the context's check and checkDir.
Acquire(c) ==
  LET p == ProcOf[c] IN
  /\ pc[c] = "lock"
  /\ lock[p] = NoCall
  /\ IF ctx[c] = "cancelled" \/ dir # "private"
     THEN Finish(c, "failed")
     ELSE /\ lock' = [lock EXCEPT ![p] = c]
          /\ pc' = [pc EXCEPT ![c] =
                      IF op[c] = "load" THEN "stat"
                      ELSE IF op[c] = "import" THEN "inspect" ELSE "remove"]
          /\ UNCHANGED outcome
  /\ UNCHANGED <<mine, got, opened, dir, files, during>>

-----------------------------------------------------------------------------
(* Load: ReadPrivateFile of the stored file. *)

\* A slip of Stat: an unsafe file taken for a missing one.
StatLenient(c) ==
  /\ pc[c] = "stat"
  /\ IF path = NoFile \/ disk[path] = "exposed"
     THEN Finish(c, "missing") /\ UNCHANGED got
     ELSE got' = [got EXCEPT ![c] = path] /\ Goto(c, "openFile")
  /\ UNCHANGED <<mine, opened, dir, files, during>>

\* Lstat.
Stat(c) ==
  /\ pc[c] = "stat"
  /\ IF path = NoFile THEN Finish(c, "missing") /\ UNCHANGED got
     ELSE IF disk[path] = "exposed" THEN Finish(c, "failed") /\ UNCHANGED got
     ELSE got' = [got EXCEPT ![c] = path] /\ Goto(c, "openFile")
  /\ UNCHANGED <<mine, opened, dir, files, during>>

\* Open, and Stat of the open file: it must be the one that was looked at.
OpenFile(c) ==
  /\ pc[c] = "openFile"
  /\ IF path = NoFile THEN Finish(c, "failed")
     ELSE IF path # got[c] THEN Finish(c, "moved")
     ELSE Goto(c, "read")
  /\ UNCHANGED <<mine, got, opened, dir, files, during>>

\* ImportJSON of the open file, the last look at the context, the profile.
Read(c) ==
  /\ pc[c] = "read"
  /\ IF disk[got[c]] # "good" THEN Finish(c, "rejected")
     ELSE IF ctx[c] = "cancelled" THEN Finish(c, "failed")
     ELSE Finish(c, "loaded")
  /\ UNCHANGED <<mine, got, opened, dir, files, during>>

-----------------------------------------------------------------------------
(* Save: write a temporary file and rename it over the profile's path. *)

Inspect(c) ==
  /\ pc[c] = "inspect"
  /\ IF path # NoFile /\ disk[path] = "exposed"
     THEN Finish(c, "failed") ELSE Goto(c, "create")
  /\ UNCHANGED <<mine, got, opened, dir, files, during>>

\* A slip of CreateTemp: the file is written in place.
CreateInPlace(c) ==
  /\ pc[c] = "create"
  /\ disk' = [disk EXCEPT ![c] = "empty"]
  /\ path' = c
  /\ Witness(dir, path')
  /\ Goto(c, "write")
  /\ UNCHANGED <<mine, got, opened, dir, temps, durable, published>>

CreateTemp(c) ==
  /\ pc[c] = "create"
  /\ disk' = [disk EXCEPT ![c] = "empty"]
  /\ temps' = temps \cup {c}
  /\ Goto(c, "write")
  /\ UNCHANGED <<mine, got, opened, path, dir, durable, during, published>>

Write(c) ==
  /\ pc[c] = "write"
  /\ disk' = [disk EXCEPT ![c] = "written"]
  /\ Goto(c, "sync")
  /\ UNCHANGED <<mine, got, opened, path, dir, temps, durable, during, published>>

\* A slip of Sync: the data is left to the operating system.
SyncSkipped(c) ==
  /\ pc[c] = "sync"
  /\ Goto(c, "commit")
  /\ UNCHANGED <<mine, got, opened, dir, files, during>>

\* Sync and Close.
Sync(c) ==
  /\ pc[c] = "sync"
  /\ disk' = [disk EXCEPT ![c] = "good"]
  /\ Goto(c, "commit")
  /\ UNCHANGED <<mine, got, opened, path, dir, temps, durable, during, published>>

\* The error is set, and the deferred Remove still to run.
Abandon(c) ==
  /\ pc' = [pc EXCEPT ![c] = "cleanup"]
  /\ outcome' = [outcome EXCEPT ![c] = "failed"]
  /\ UNCHANGED lock

\* The last look at the context.
Commit(c) ==
  /\ pc[c] = "commit"
  /\ IF ctx[c] = "cancelled" THEN Abandon(c) ELSE Goto(c, "rename")
  /\ UNCHANGED <<mine, got, opened, dir, files, during>>

Publish(c) ==
  /\ path' = c
  /\ temps' = temps \ {c}
  /\ published' = published \cup {c}
  /\ Witness(dir, path')

\* A slip of Rename: the context is looked at once more, too late.
RenameThenCheck(c) ==
  /\ pc[c] = "rename"
  /\ Publish(c)
  /\ pc' = [pc EXCEPT ![c] = "cleanup"]
  /\ outcome' = [outcome EXCEPT ![c] = IF ctx[c] = "cancelled" THEN "failed" ELSE "saved"]
  /\ UNCHANGED <<mine, got, proc, dir, disk, durable>>

Rename(c) ==
  /\ pc[c] = "rename"
  /\ Publish(c)
  /\ pc' = [pc EXCEPT ![c] = "cleanup"]
  /\ outcome' = [outcome EXCEPT ![c] = "saved"]
  /\ UNCHANGED <<mine, got, proc, dir, disk, durable>>

\* A slip of Cleanup: the temporary file is left behind.
CleanupForgotten(c) ==
  /\ pc[c] = "cleanup"
  /\ Finish(c, outcome[c])
  /\ UNCHANGED <<mine, got, opened, dir, files, during>>

\* The deferred Remove of the temporary name (nothing, after the rename).
Cleanup(c) ==
  /\ pc[c] = "cleanup"
  /\ temps' = temps \ {c}
  /\ Finish(c, outcome[c])
  /\ UNCHANGED <<mine, got, opened, path, dir, disk, durable, during, published>>

\* FileStore.Delete.
Remove(c) ==
  /\ pc[c] = "remove"
  /\ path' = NoFile
  /\ Witness(dir, path')
  /\ Finish(c, "removed")
  /\ UNCHANGED <<mine, got, opened, dir, disk, temps, durable, published>>

\* A system call fails, or the document to import is refused.
Fail(c) ==
  \/ /\ pc[c] \in {"source", "findDir", "findFile", "stat", "openFile", "read",
                   "inspect", "create", "remove"}
     /\ Finish(c, "failed")
     /\ UNCHANGED <<mine, got, opened, dir, files, during>>
  \/ /\ pc[c] = "open" /\ opened[ProcOf[c]] = "not yet"
     /\ opened' = [opened EXCEPT ![ProcOf[c]] = "unusable"]
     /\ Finish(c, "failed")
     /\ UNCHANGED <<mine, got, dir, files, during>>
  \/ /\ pc[c] \in {"write", "sync", "rename"}
     /\ Abandon(c)
     /\ UNCHANGED <<mine, got, opened, dir, files, during>>

-----------------------------------------------------------------------------
(* The world around: signals, crashes, power, and the user's chmod. *)

CancelContext(c) ==
  /\ c \in Interrupts
  /\ Running(c)
  /\ ctx' = [ctx EXCEPT ![c] = "cancelled"]
  /\ UNCHANGED <<pc, op, outcome, got, proc, dir, files, during>>

\* What the calls of the processes ps know dies with them.
Stop(ps) ==
  /\ pc' = [c \in Calls |-> IF ProcOf[c] \in ps /\ Running(c) THEN "dead" ELSE pc[c]]
  /\ got' = [c \in Calls |-> IF pc'[c] = "dead" THEN NoFile ELSE got[c]]
  /\ during' = [c \in Calls |-> IF pc'[c] = "dead" THEN {} ELSE during[c]]
  /\ lock' = [p \in Procs |-> IF p \in ps THEN NoCall ELSE lock[p]]
  /\ opened' = [p \in Procs |-> IF p \in ps THEN "not yet" ELSE opened[p]]
  /\ UNCHANGED <<op, ctx, outcome, durable, published>>

\* A process is killed; its later calls are those of its successor.
Kill(p) ==
  /\ \E c \in Calls : ProcOf[c] = p /\ Running(c)
  /\ Stop({p})
  /\ UNCHANGED <<dir, path, disk, temps>>

\* The file system writes its metadata back, whenever it likes: nothing in the
\* program makes it, for Save syncs the file and not the directory.
Flush ==
  /\ durable # Entries
  /\ durable' = Entries
  /\ UNCHANGED <<pc, mine, outcome, got, proc, path, dir, disk, temps, during, published>>

\* Only data that was synced is sure to be there, and the metadata is again
\* what was last written back: making the directory, creating or removing a
\* temporary file, the rename and the deletion may all be undone.  (A mode
\* that is undone is one more ChmodDir.)
PowerLoss ==
  /\ Stop(Procs)
  /\ dir' = IF durable.made THEN dir ELSE "absent"
  /\ path' = durable.path
  /\ temps' = durable.temps
  /\ disk' = [f \in Files |-> IF disk[f] \in {"empty", "written"} THEN "bad" ELSE disk[f]]

\* The user changes the mode of the directory.
ChmodDir ==
  /\ dir # "absent"
  /\ dir' = IF dir = "open" THEN "private" ELSE "open"
  /\ Witness(dir', path)
  /\ UNCHANGED <<pc, mine, outcome, got, proc, files>>

-----------------------------------------------------------------------------
Init ==
  /\ pc = [c \in Calls |-> "idle"]
  /\ op = [c \in Calls |-> "load"]
  /\ ctx = [c \in Calls |-> "live"]
  /\ outcome = [c \in Calls |-> "none"]
  /\ got = [c \in Calls |-> NoFile]
  /\ lock = [p \in Procs |-> NoCall]
  /\ opened = [p \in Procs |-> "not yet"]
  /\ \E original \in {"none", "good", "bad", "exposed"} :
       /\ disk = [f \in Files |-> IF f = Original THEN original ELSE "none"]
       /\ path = IF original = "none" THEN NoFile ELSE Original
       /\ dir \in IF original = "none" THEN {"absent", "private", "open"}
                  ELSE {"private", "open"}
  /\ temps = {}
  /\ durable = Entries
  /\ during = [c \in Calls |-> {}]
  /\ published = {}

Step(c) ==
  \/ ReadSource(c) \/ FindDir(c) \/ FindFile(c) \/ OpenStore(c) \/ Acquire(c)
  \/ Stat(c) \/ OpenFile(c) \/ Read(c)
  \/ Inspect(c) \/ CreateTemp(c) \/ Write(c) \/ Sync(c) \/ Commit(c)
  \/ Rename(c) \/ Cleanup(c) \/ Remove(c)
  \/ Fail(c)

Next ==
  \/ \E c \in Calls :
       \/ \E o \in {"load", "import", "delete"} : Begin(c, o)
       \/ Step(c)
       \/ CancelContext(c)
  \/ \E p \in Procs : Kill(p)
  \/ Flush
  \/ PowerLoss
  \/ ChmodDir

Spec == Init /\ [][Next]_vars

\* A process that is not killed goes on with each of its calls; system calls
\* return.  Go's mutex goes to a waiting call once it is free.
FairSpec == Spec /\ \A c \in Calls : WF_vars(Step(c))

-----------------------------------------------------------------------------
(***************************************************************************)
(* Properties.                                                             *)
(***************************************************************************)

\* A mutex is held by a call of its process that is under way.
HeldByRunning ==
  \A p \in Procs : lock[p] # NoCall => Running(lock[p]) /\ ProcOf[lock[p]] = p

\* The type invariant: calls, processes and the file system; a mutex is held
\* only by a call of its process that is under way.
TypeOK ==
  /\ pc \in [Calls -> PCs]
  /\ op \in [Calls -> {"load", "import", "delete"}]
  /\ ctx \in [Calls -> {"live", "cancelled"}]
  /\ outcome \in [Calls -> Outcomes]
  /\ got \in [Calls -> Paths]
  /\ lock \in [Procs -> Calls \cup {NoCall}]
  /\ HeldByRunning
  /\ opened \in [Procs -> {"not yet", "usable", "unusable"}]
  /\ path \in Paths
  /\ dir \in Directories
  /\ disk \in [Files -> Contents]
  /\ temps \subseteq Calls
  /\ durable \in WrittenBack
  /\ during \in [Calls -> SUBSET Sights]
  /\ published \subseteq Calls

Ended(c, o) == pc[c] = "done" /\ outcome[c] = o
SeenBy(c) == during[c] \cap Paths
Closed(c) == "absent" \in during[c] \/ "private" \in during[c]

\* What an import put in place is never found torn, not even by the first
\* process after a power loss: Save syncs the data before it renames.
ImportsAreWhole ==
  \A f \in {path, durable.path} \cap Calls : disk[f] \notin {"none", "empty", "bad"}

\* A load calls the file's content invalid only when it was so from the
\* start: no interleaving with imports, crashes and restarts shows a reader
\* a document that is half written.
NoTornRead ==
  \A c \in Calls : Ended(c, "rejected") => Original \in SeenBy(c) /\ disk[Original] = "bad"

\* A load returns a file that the path named at some moment of that load:
\* what an earlier import replaced, or a deletion removed, is not used again.
LoadedWasStored == \A c \in Calls : Ended(c, "loaded") => got[c] \in SeenBy(c)

\* "Missing", which selects the built-in public configuration, is said only
\* when the file was missing at some moment of the load and the directory
\* was not open to others throughout: never to skirt an unsafe or invalid
\* configuration.
DefaultOnlyIfMissing ==
  \A c \in Calls : Ended(c, "missing") =>
    /\ NoFile \in SeenBy(c)
    /\ Closed(c)

\* An import that reports success was in place, and one that reports any
\* failure, cancellation included, never was and never will be.
ImportReportIsTrue ==
  \A c \in Calls : pc[c] = "done" /\ op[c] = "import" =>
    (outcome[c] = "saved" <=> c \in published)

\* An import that returned an error leaves no copy of the document behind, as
\* far as the program goes: a copy comes to lie there only when power is lost
\* before its removal was written back.  The deferred Remove (store.go:154),
\* whose error the code drops, is taken to succeed.
LeftBehind(c) == Ended(c, "failed") /\ c \in temps
NoTempLeft == [][\A c \in Calls : LeftBehind(c)' /\ ~LeftBehind(c) => PowerLoss]_vars

\* Within one process the mutex shields a load from imports: a load can be
\* refused because the file moved only when another process moved it.
LockShieldsReaders ==
  \A c \in Calls : Ended(c, "moved") =>
    \E d \in SeenBy(c) \cap Calls : ProcOf[d] # ProcOf[c]

\* Writes are atomic for readers: a load during which only good files were
\* in place returns one of them, unless it is cancelled or a system call
\* fails.  The code does not keep this between processes: see the README.
ReadersSeeOldOrNew ==
  \A c \in Calls : Ended(c, "moved") =>
    \E f \in SeenBy(c) : f = NoFile \/ disk[f] # "good"

\* Every call returns, or dies with its process: no error path keeps the
\* mutex that the process's other calls wait for.
EveryCallEnds == \A c \in Calls : Running(c) ~> ~Running(c)
=============================================================================
