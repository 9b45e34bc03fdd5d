--------------------------- MODULE ConfigStoreProofs ---------------------------
(***************************************************************************)
(* The safety properties of ConfigStore, for any number of processes and   *)
(* calls, both stores, and whatever was on the disk before.                *)
(*                                                                         *)
(* They follow from one inductive invariant, proved part by part: each     *)
(* part needs those before it.                                             *)
(***************************************************************************)
EXTENDS ConfigRefinement, TLAPS

\* The steps that run under the mutex, and those of a load.
Locked  == {"stat", "openFile", "read", "inspect", "create", "write", "sync",
            "commit", "rename", "cleanup", "remove"}
Reading == {"findDir", "findFile", "stat", "openFile", "read"}

\* Those of an import once its temporary file is made, and after it has ended.
Later == {"write", "sync", "commit", "rename", "cleanup", "done", "dead"}

\* A call that works on the files holds its process's mutex.
MutexInv == \A c \in Calls : pc[c] \in Locked => lock[ProcOf[c]] = c

\* Only loads take the steps of a load.
KindInv == \A c \in Calls : pc[c] \in Reading => op[c] = "load"

\* There is no file without a directory, and no call past "open" either.
DirInv ==
  /\ dir = "absent" \/ ~durable.made => durable.path = NoFile
  /\ dir = "absent" => path = NoFile
  /\ \A p \in Procs : opened[p] = "usable" => dir # "absent"
  /\ \A c \in Calls : pc[c] \in Locked \cup {"lock"} => dir # "absent"

\* What the path names, or may name again, was published, and what was
\* published is on the disk; nothing is published before the rename, and the
\* outcome tells it afterwards.
PublishInv ==
  /\ path \in Calls => path \in published
  /\ durable.path \in Calls => durable.path \in published
  /\ \A c \in published : disk[c] = "good"
  /\ \A c \in Calls : pc[c] \in {"commit", "rename"} => disk[c] = "good"
  /\ \A c \in Calls : pc[c] \notin {"cleanup", "done", "dead"} => c \notin published
  /\ \A c \in Calls : pc[c] \in {"cleanup", "done"} =>
       (outcome[c] = "saved" <=> c \in published)

\* A temporary file that is there, or may be there again, was made by an import
\* that has gone past that step.
TempInv == \A c \in temps \cup durable.temps : pc[c] \in Later

\* The original file is never written.
OriginalInv ==
  /\ disk[Original] \in {"none", "good", "bad", "exposed"}
  /\ disk[Original] = "none" => path # Original /\ durable.path # Original

\* A load witnesses what is there now, saw a directory that was not open to
\* others, and reads a file that it saw; while it opens it, only another
\* process can have put a different one in its place.
SeenInv ==
  /\ \A c \in Calls : Loading(c) => {dir, path} \subseteq during[c]
  /\ \A c \in Calls : pc[c] \in {"findFile", "stat", "openFile", "read"} =>
       Closed(c)
  /\ \A c \in Calls : pc[c] \in {"openFile", "read"} =>
       /\ got[c] \in SeenBy(c) /\ got[c] # NoFile
       /\ got[c] \in Calls => got[c] \in published
       /\ got[c] = Original => disk[Original] \in {"good", "bad"}
  /\ \A c \in Calls : pc[c] = "openFile" =>
       path \in {got[c], NoFile} \/ (path \in Calls /\ ProcOf[path] # ProcOf[c])

\* What a load that ends with outcome o tells of what it saw.
Told(c, o) ==
  /\ o = "rejected" => Original \in SeenBy(c) /\ disk[Original] = "bad"
  /\ o = "loaded" => got[c] \in SeenBy(c)
  /\ o = "missing" => /\ NoFile \in SeenBy(c)
                      /\ Closed(c)
  /\ o = "moved" => \E d \in SeenBy(c) \cap Calls : ProcOf[d] # ProcOf[c]

\* What calls have reported is so.
LoadInv ==
  /\ \A c \in Calls : pc[c] = "done" => Told(c, outcome[c])
  /\ \A c \in Calls : pc[c] = "cleanup" => outcome[c] \in {"failed", "saved"}

IInv == /\ MutexInv /\ KindInv /\ DirInv /\ PublishInv /\ TempInv
        /\ OriginalInv /\ SeenInv /\ LoadInv

-----------------------------------------------------------------------------
(* Type correctness. *)

Busy == PCs \ {"idle", "done", "dead"}

Resting == {"idle", "done", "dead"}

\* A step that takes no mutex, and ends no call that keeps one.
LEMMA StayHeld ==
  ASSUME TypeOK,
         \A p \in Procs : lock'[p] # NoCall =>
           lock'[p] = lock[p] /\ pc'[lock[p]] \notin Resting
  PROVE  HeldByRunning'
BY DEF TypeOK, HeldByRunning, Running, Resting

\* How a call ends or goes on, and what that does to the mutexes.
LEMMA FinishType ==
  ASSUME TypeOK, NEW c \in Calls, NEW o \in Outcomes, Finish(c, o)
  PROVE  /\ pc' \in [Calls -> PCs] /\ outcome' \in [Calls -> Outcomes]
         /\ lock' \in [Procs -> Calls \cup {NoCall}] /\ HeldByRunning'
<1>1. pc' \in [Calls -> PCs] /\ outcome' \in [Calls -> Outcomes]
  BY DEF TypeOK, Finish, PCs
<1>2. lock' \in [Procs -> Calls \cup {NoCall}]
  BY DEF TypeOK, Finish
<1>3. HeldByRunning'
  <2> SUFFICES ASSUME NEW p \in Procs, lock'[p] # NoCall
               PROVE  lock'[p] = lock[p] /\ pc'[lock[p]] \notin Resting
    BY StayHeld
  <2>1. lock'[p] = lock[p] /\ lock[p] # c
    BY DEF TypeOK, Finish
  <2>2. pc[lock[p]] \notin Resting
    BY <2>1 DEF TypeOK, HeldByRunning, Running, Resting
  <2>3. pc'[lock[p]] = pc[lock[p]]
    BY <2>1 DEF TypeOK, Finish
  <2>. QED BY <2>1, <2>2, <2>3
<1>. QED BY <1>1, <1>2, <1>3

LEMMA GotoType ==
  ASSUME TypeOK, NEW c \in Calls, NEW step \in Busy, Goto(c, step)
  PROVE  /\ pc' \in [Calls -> PCs] /\ outcome' \in [Calls -> Outcomes]
         /\ lock' \in [Procs -> Calls \cup {NoCall}] /\ HeldByRunning'
BY NamesAssumption DEF TypeOK, Goto, Busy, HeldByRunning, Running

LEMMA AbandonType ==
  ASSUME TypeOK, NEW c \in Calls, Abandon(c)
  PROVE  /\ pc' \in [Calls -> PCs] /\ outcome' \in [Calls -> Outcomes]
         /\ lock' \in [Procs -> Calls \cup {NoCall}] /\ HeldByRunning'
<1>1. pc' \in [Calls -> PCs] /\ outcome' \in [Calls -> Outcomes]
  BY DEF TypeOK, Abandon, PCs, Outcomes
<1>2. HeldByRunning'
  BY DEF TypeOK, Abandon, HeldByRunning, Running
<1>. QED BY <1>1, <1>2 DEF TypeOK, Abandon

\* The mutexes of a process that dies are free, and the others' calls go on.
LEMMA StopHeld ==
  ASSUME TypeOK, NEW ps \in SUBSET Procs, Stop(ps)
  PROVE  HeldByRunning'
<1> SUFFICES ASSUME NEW p \in Procs, lock'[p] # NoCall
             PROVE  lock'[p] = lock[p] /\ pc'[lock[p]] \notin Resting
  BY StayHeld
<1>1. lock'[p] = lock[p] /\ p \notin ps
  BY DEF TypeOK, Stop
<1>2. pc[lock[p]] \notin Resting /\ ProcOf[lock[p]] = p
  BY <1>1 DEF TypeOK, HeldByRunning, Running, Resting
<1>3. lock[p] \in Calls
  BY <1>1 DEF TypeOK
<1>4. pc'[lock[p]] = pc[lock[p]]
  BY <1>1, <1>2, <1>3 DEF Stop
<1>. QED BY <1>1, <1>2, <1>4

\* What the path names is a file or nothing, and a load may witness it.
LEMMA WitnessType ==
  ASSUME TypeOK, NEW d \in Directories, NEW f \in Paths, Witness(d, f)
  PROVE  during' \in [Calls -> SUBSET Sights]
<1>1. d \in Sights /\ f \in Sights
  BY DEF Sights
<1>2. during' = [c \in Calls |-> IF Loading(c) THEN during[c] \cup {d, f} ELSE during[c]]
  BY DEF Witness
<1>. QED BY <1>1, <1>2 DEF TypeOK

LEMMA TypeInit == Init => TypeOK
<1> SUFFICES ASSUME Init PROVE TypeOK
  OBVIOUS
<1>1. /\ pc \in [Calls -> PCs] /\ outcome \in [Calls -> Outcomes]
      /\ got \in [Calls -> Paths] /\ path \in Paths /\ durable \in WrittenBack
  BY DEF Init, PCs, Outcomes, Paths, Files, Entries, WrittenBack
<1>2. disk \in [Files -> Contents] /\ dir \in Directories
  BY DEF Init, Contents, Directories
<1>3. lock \in [Procs -> Calls \cup {NoCall}] /\ HeldByRunning
  BY DEF Init, HeldByRunning
<1>. QED BY <1>1, <1>2, <1>3 DEF Init, TypeOK

\* A step keeps the types.
LEMMA TypeNext == TypeOK /\ [Next]_vars => TypeOK'
<1> SUFFICES ASSUME TypeOK, [Next]_vars PROVE TypeOK'
  OBVIOUS
<1> USE ProcsAssumption, NamesAssumption DEF TypeOK, mine, files, proc
<1>1. ASSUME NEW c \in Calls, NEW o \in {"load", "import", "delete"}, Begin(c, o)
      PROVE  TypeOK'
  <2>1. pc' \in [Calls -> PCs]
    BY <1>1 DEF Begin, FirstStep, PCs
  <2>3. HeldByRunning'
    <3> SUFFICES ASSUME NEW p \in Procs, lock'[p] # NoCall
                 PROVE  lock'[p] = lock[p] /\ pc'[lock[p]] \notin Resting
      BY StayHeld
    <3>1. lock' = lock /\ pc[c] = "idle" /\ pc' = [pc EXCEPT ![c] = FirstStep(o)]
      BY <1>1 DEF Begin
    <3>2. pc[lock[p]] \notin Resting
      BY <3>1 DEF TypeOK, HeldByRunning, Running, Resting
    <3>. QED BY <3>1, <3>2 DEF Resting, TypeOK
  <2>2. during' \in [Calls -> SUBSET Sights]
    <3>1. dir \in Sights /\ path \in Sights
      BY DEF Sights
    <3>. QED BY <3>1, <1>1 DEF Begin
  <2>. QED BY <2>1, <2>2, <2>3, <1>1 DEF Begin
<1>2. ASSUME NEW c \in Calls, ReadSource(c) PROVE  TypeOK'
  BY <1>2, FinishType, GotoType DEF ReadSource, Busy, PCs, Outcomes
<1>3. ASSUME NEW c \in Calls, FindDir(c) PROVE  TypeOK'
  BY <1>3, FinishType, GotoType DEF FindDir, Busy, PCs, Outcomes
<1>4. ASSUME NEW c \in Calls, FindFile(c) PROVE  TypeOK'
  BY <1>4, FinishType, GotoType DEF FindFile, Busy, PCs, Outcomes
<1>5. ASSUME NEW c \in Calls, OpenStore(c) PROVE  TypeOK'
  <2>1. dir' \in Directories /\ opened' \in [Procs -> {"not yet", "usable", "unusable"}]
    BY <1>5 DEF OpenStore, Directories
  <2>2. during' \in [Calls -> SUBSET Sights]
    BY <2>1, <1>5, WitnessType DEF OpenStore
  <2>3. /\ pc' \in [Calls -> PCs] /\ outcome' \in [Calls -> Outcomes]
        /\ lock' \in [Procs -> Calls \cup {NoCall}] /\ HeldByRunning'
    <3>1. "lock" \in Busy /\ "failed" \in Outcomes
      BY DEF Busy, PCs, Outcomes
    <3>. QED BY <3>1, <1>5, FinishType, GotoType DEF OpenStore
  <2>. QED BY <2>1, <2>2, <2>3, <1>5 DEF OpenStore
<1>6. ASSUME NEW c \in Calls, Acquire(c) PROVE  TypeOK'
  <2>1. CASE ctx[c] = "cancelled" \/ dir # "private"
    BY <2>1, <1>6, FinishType DEF Acquire, Outcomes
  <2>2. CASE ~(ctx[c] = "cancelled" \/ dir # "private")
    <3>1. pc' \in [Calls -> PCs] /\ outcome' = outcome
      BY <2>2, <1>6 DEF Acquire, PCs
    <3>2. lock' = [lock EXCEPT ![ProcOf[c]] = c]
      BY <2>2, <1>6 DEF Acquire
    <3>3. pc[c] \notin {"idle", "done", "dead"} /\ pc'[c] \notin {"idle", "done", "dead"}
      BY <2>2, <1>6 DEF Acquire
    <3>4. \A d \in Calls : d # c => pc'[d] = pc[d]
      BY <2>2, <1>6 DEF Acquire
    <3>5. ASSUME NEW p \in Procs, lock'[p] # NoCall
          PROVE  pc'[lock'[p]] \notin {"idle", "done", "dead"} /\ ProcOf[lock'[p]] = p
      <4>1. CASE p = ProcOf[c]
        BY <3>2, <3>3, <4>1
      <4>2. CASE p # ProcOf[c]
        <5>1. lock'[p] = lock[p] /\ lock[p] \in Calls
          BY <3>2, <3>5, <4>2
        <5>. QED BY <3>3, <3>4, <3>5, <5>1 DEF HeldByRunning, Running
      <4>. QED BY <4>1, <4>2
    <3>6. lock' \in [Procs -> Calls \cup {NoCall}] /\ HeldByRunning'
      BY <3>2, <3>5 DEF HeldByRunning, Running
    <3>. QED BY <3>1, <3>6, <1>6 DEF Acquire
  <2>. QED BY <2>1, <2>2
<1>7. ASSUME NEW c \in Calls, Stat(c) PROVE  TypeOK'
  BY <1>7, FinishType, GotoType DEF Stat, Busy, PCs, Outcomes
<1>8. ASSUME NEW c \in Calls, OpenFile(c) PROVE  TypeOK'
  BY <1>8, FinishType, GotoType DEF OpenFile, Busy, PCs, Outcomes
<1>9. ASSUME NEW c \in Calls, Read(c) PROVE  TypeOK'
  BY <1>9, FinishType, GotoType DEF Read, Busy, PCs, Outcomes
<1>10. ASSUME NEW c \in Calls, Inspect(c) PROVE  TypeOK'
  BY <1>10, FinishType, GotoType DEF Inspect, Busy, PCs, Outcomes
<1>11. ASSUME NEW c \in Calls, CreateTemp(c) PROVE  TypeOK'
  <2>1. disk' \in [Files -> Contents]
    BY <1>11 DEF CreateTemp, Contents, Files
  <2>. QED BY <2>1, <1>11, GotoType DEF CreateTemp, Busy, PCs
<1>12. ASSUME NEW c \in Calls, Write(c) PROVE  TypeOK'
  <2>1. disk' \in [Files -> Contents]
    BY <1>12 DEF Write, Contents, Files
  <2>. QED BY <2>1, <1>12, GotoType DEF Write, Busy, PCs
<1>13. ASSUME NEW c \in Calls, Sync(c) PROVE  TypeOK'
  <2>1. disk' \in [Files -> Contents]
    BY <1>13 DEF Sync, Contents, Files
  <2>. QED BY <2>1, <1>13, GotoType DEF Sync, Busy, PCs
<1>14. ASSUME NEW c \in Calls, Commit(c) PROVE  TypeOK'
  BY <1>14, AbandonType, GotoType DEF Commit, Busy, PCs
<1>15. ASSUME NEW c \in Calls, Rename(c) PROVE  TypeOK'
  <2>1. path' \in Paths
    BY <1>15 DEF Rename, Publish, Paths, Files
  <2>2. during' \in [Calls -> SUBSET Sights]
    BY <2>1, <1>15, WitnessType DEF Rename, Publish
  <2>3. /\ pc' \in [Calls -> PCs] /\ outcome' \in [Calls -> Outcomes]
    BY <1>15 DEF Rename, PCs, Outcomes
  <2>4. HeldByRunning'
    <3>1. pc' = [pc EXCEPT ![c] = "cleanup"] /\ lock' = lock
      BY <1>15 DEF Rename, mine, proc
    <3> SUFFICES ASSUME NEW p \in Procs, lock'[p] # NoCall
                 PROVE  pc'[lock[p]] \notin Resting
      BY <3>1, StayHeld
    <3>2. pc[lock[p]] \notin Resting
      BY <3>1 DEF TypeOK, HeldByRunning, Running, Resting
    <3>3. pc'[lock[p]] \in {"cleanup", pc[lock[p]]}
      BY <3>1 DEF TypeOK
    <3>. QED BY <3>2, <3>3 DEF Resting
  <2>. QED BY <2>1, <2>2, <2>3, <2>4, <1>15 DEF Rename, Publish
<1>16. ASSUME NEW c \in Calls, Cleanup(c) PROVE  TypeOK'
  BY <1>16, FinishType, GotoType DEF Cleanup, Busy, PCs, Outcomes
<1>17. ASSUME NEW c \in Calls, Remove(c) PROVE  TypeOK'
  <2>1. path' \in Paths
    BY <1>17 DEF Remove, Paths
  <2>2. during' \in [Calls -> SUBSET Sights]
    BY <2>1, <1>17, WitnessType DEF Remove
  <2>. QED BY <2>1, <2>2, <1>17, FinishType DEF Remove, Outcomes
<1>18. ASSUME NEW c \in Calls, Fail(c) PROVE  TypeOK'
  <2>1. "failed" \in Outcomes
    BY DEF Outcomes
  <2>2. CASE Finish(c, "failed") /\ UNCHANGED <<mine, got, opened, dir, files, during>>
    BY <2>1, <2>2, FinishType
  <2>3. CASE /\ opened' = [opened EXCEPT ![ProcOf[c]] = "unusable"]
             /\ Finish(c, "failed") /\ UNCHANGED <<mine, got, dir, files, during>>
    BY <2>1, <2>3, FinishType
  <2>4. CASE Abandon(c) /\ UNCHANGED <<mine, got, opened, dir, files, during>>
    BY <2>4, AbandonType
  <2>. QED BY <2>2, <2>3, <2>4, <1>18 DEF Fail
<1>19. ASSUME NEW c \in Calls, CancelContext(c) PROVE  TypeOK'
  BY <1>19 DEF CancelContext, HeldByRunning, Running
<1>20. ASSUME NEW p \in Procs, Kill(p) PROVE  TypeOK'
  <2>1. pc' \in [Calls -> PCs] /\ lock' \in [Procs -> Calls \cup {NoCall}]
    BY <1>20 DEF Kill, Stop, PCs
  <2>2. HeldByRunning'
    BY <1>20, StopHeld DEF Kill
  <2>3. got' \in [Calls -> Paths] /\ during' \in [Calls -> SUBSET Sights]
    BY <1>20 DEF Kill, Stop, Paths
  <2>. QED BY <2>1, <2>2, <2>3, <1>20 DEF Kill, Stop
<1>21. ASSUME Flush PROVE  TypeOK'
  <2>1. durable' \in WrittenBack
    BY <1>21 DEF Flush, Entries, WrittenBack
  <2>. QED BY <2>1, <1>21 DEF Flush, HeldByRunning, Running
<1>22. ASSUME PowerLoss PROVE  TypeOK'
  <2>1. pc' \in [Calls -> PCs] /\ HeldByRunning'
    BY <1>22 DEF PowerLoss, Stop, PCs, HeldByRunning
  <2>2. disk' \in [Files -> Contents]
    BY <1>22 DEF PowerLoss, Contents
  <2>3. temps' \subseteq Calls /\ path' \in Paths /\ dir' \in Directories
    BY <1>22 DEF PowerLoss, WrittenBack, Directories
  <2>4. got' \in [Calls -> Paths] /\ during' \in [Calls -> SUBSET Sights]
    BY <1>22 DEF PowerLoss, Stop, Paths
  <2>. QED BY <2>1, <2>2, <2>3, <2>4, <1>22 DEF PowerLoss, Stop
<1>23. ASSUME ChmodDir PROVE  TypeOK'
  <2>1. dir' \in Directories
    BY <1>23 DEF ChmodDir, Directories
  <2>. QED BY <2>1, <1>23, WitnessType DEF ChmodDir, HeldByRunning, Running
<1>24. CASE UNCHANGED vars
  BY <1>24 DEF vars, HeldByRunning, Running
<1>. HIDE DEF TypeOK
<1>. QED
  BY <1>1, <1>2, <1>3, <1>4, <1>5, <1>6, <1>7, <1>8, <1>9, <1>10, <1>11,
     <1>12, <1>13, <1>14, <1>15, <1>16, <1>17, <1>18, <1>19, <1>20, <1>21,
     <1>22, <1>23, <1>24
     DEF Next, Step

\* Every variable keeps its type, and a mutex is held only by a call under way.
THEOREM TypeCorrect == Spec => []TypeOK
<1>1. Init => TypeOK
  BY TypeInit
<1>2. TypeOK /\ [Next]_vars => TypeOK'
  BY TypeNext
<1>. QED BY <1>1, <1>2, PTL DEF Spec

-----------------------------------------------------------------------------
(* The mutex and the kinds of call. *)

LEMMA MutexFinish ==
  ASSUME TypeOK, MutexInv, NEW c \in Calls, NEW o, Finish(c, o)
  PROVE  MutexInv'
BY ProcsAssumption, NamesAssumption DEF TypeOK, Finish, MutexInv, Locked

LEMMA MutexGoto ==
  ASSUME TypeOK, MutexInv, NEW c \in Calls, NEW step, Goto(c, step),
         step \in Locked => pc[c] \in Locked
  PROVE  MutexInv'
BY DEF TypeOK, Goto, MutexInv

LEMMA MutexAbandon ==
  ASSUME TypeOK, MutexInv, NEW c \in Calls, Abandon(c), pc[c] \in Locked
  PROVE  MutexInv'
BY DEF TypeOK, Abandon, MutexInv

\* The mutex is held from the check of the directory to the return.
LEMMA MutexNext == TypeOK /\ MutexInv /\ [Next]_vars => MutexInv'
<1> SUFFICES ASSUME TypeOK, MutexInv, [Next]_vars PROVE MutexInv'
  OBVIOUS
<1>1. ASSUME NEW c \in Calls, NEW o \in {"load", "import", "delete"}, Begin(c, o) PROVE MutexInv'
  BY <1>1 DEF Begin, FirstStep, MutexInv, Locked, TypeOK, proc
<1>2. ASSUME NEW c \in Calls, ReadSource(c) PROVE MutexInv'
  BY <1>2, MutexFinish, MutexGoto, MutexAbandon DEF ReadSource, Locked
<1>3. ASSUME NEW c \in Calls, FindDir(c) PROVE MutexInv'
  BY <1>3, MutexFinish, MutexGoto, MutexAbandon DEF FindDir, Locked
<1>4. ASSUME NEW c \in Calls, FindFile(c) PROVE MutexInv'
  BY <1>4, MutexFinish, MutexGoto, MutexAbandon DEF FindFile, Locked
<1>5. ASSUME NEW c \in Calls, OpenStore(c) PROVE MutexInv'
  BY <1>5, MutexFinish, MutexGoto, MutexAbandon DEF OpenStore, Locked
<1>6. ASSUME NEW c \in Calls, Acquire(c) PROVE MutexInv'
  <2>1. CASE Finish(c, "failed")
    BY <2>1, MutexFinish
  <2>2. CASE ~Finish(c, "failed")
    <3>1. /\ lock[ProcOf[c]] = NoCall /\ lock' = [lock EXCEPT ![ProcOf[c]] = c]
          /\ \A x \in Calls : x # c => pc'[x] = pc[x]
      BY <2>2, <1>6 DEF Acquire, TypeOK
    <3>. QED BY <3>1, ProcsAssumption, NamesAssumption DEF MutexInv, TypeOK
  <2>. QED BY <2>1, <2>2
<1>7. ASSUME NEW c \in Calls, Stat(c) PROVE MutexInv'
  BY <1>7, MutexFinish, MutexGoto, MutexAbandon DEF Stat, Locked
<1>8. ASSUME NEW c \in Calls, OpenFile(c) PROVE MutexInv'
  BY <1>8, MutexFinish, MutexGoto, MutexAbandon DEF OpenFile, Locked
<1>9. ASSUME NEW c \in Calls, Read(c) PROVE MutexInv'
  BY <1>9, MutexFinish, MutexGoto, MutexAbandon DEF Read, Locked
<1>10. ASSUME NEW c \in Calls, Inspect(c) PROVE MutexInv'
  BY <1>10, MutexFinish, MutexGoto, MutexAbandon DEF Inspect, Locked
<1>11. ASSUME NEW c \in Calls, CreateTemp(c) PROVE MutexInv'
  BY <1>11, MutexFinish, MutexGoto, MutexAbandon DEF CreateTemp, Locked
<1>12. ASSUME NEW c \in Calls, Write(c) PROVE MutexInv'
  BY <1>12, MutexFinish, MutexGoto, MutexAbandon DEF Write, Locked
<1>13. ASSUME NEW c \in Calls, Sync(c) PROVE MutexInv'
  BY <1>13, MutexFinish, MutexGoto, MutexAbandon DEF Sync, Locked
<1>14. ASSUME NEW c \in Calls, Commit(c) PROVE MutexInv'
  BY <1>14, MutexFinish, MutexGoto, MutexAbandon DEF Commit, Locked
<1>15. ASSUME NEW c \in Calls, Rename(c) PROVE MutexInv'
  BY <1>15 DEF Rename, MutexInv, Locked, TypeOK, proc
<1>16. ASSUME NEW c \in Calls, Cleanup(c) PROVE MutexInv'
  BY <1>16, MutexFinish, MutexGoto, MutexAbandon DEF Cleanup, Locked
<1>17. ASSUME NEW c \in Calls, Remove(c) PROVE MutexInv'
  BY <1>17, MutexFinish, MutexGoto, MutexAbandon DEF Remove, Locked
<1>18. ASSUME NEW c \in Calls, Fail(c) PROVE MutexInv'
  BY <1>18, MutexFinish, MutexGoto, MutexAbandon DEF Fail, Locked
<1>19. ASSUME NEW c \in Calls, CancelContext(c) PROVE MutexInv'
  BY <1>19 DEF CancelContext, MutexInv, proc
<1>20. ASSUME NEW p \in Procs, Kill(p) PROVE MutexInv'
  BY <1>20, ProcsAssumption DEF Kill, Stop, MutexInv, Locked, TypeOK, Running
<1>21. ASSUME Flush PROVE MutexInv'
  BY <1>21 DEF Flush, MutexInv, proc
<1>22. ASSUME PowerLoss PROVE MutexInv'
  BY <1>22, ProcsAssumption DEF PowerLoss, Stop, MutexInv, Locked, TypeOK, Running
<1>23. ASSUME ChmodDir PROVE MutexInv'
  BY <1>23 DEF ChmodDir, MutexInv, proc
<1>24. CASE UNCHANGED vars
  BY <1>24 DEF vars, MutexInv, proc
<1>. QED BY <1>1, <1>2, <1>3, <1>4, <1>5, <1>6, <1>7, <1>8, <1>9, <1>10,
              <1>11, <1>12, <1>13, <1>14, <1>15, <1>16, <1>17, <1>18, <1>19,
              <1>20, <1>21, <1>22, <1>23, <1>24 DEF Next, Step

LEMMA KindFinish ==
  ASSUME TypeOK, KindInv, NEW c \in Calls, NEW o, Finish(c, o), UNCHANGED op
  PROVE  KindInv'
BY DEF TypeOK, Finish, KindInv, Reading

LEMMA KindGoto ==
  ASSUME TypeOK, KindInv, NEW c \in Calls, NEW step, Goto(c, step), UNCHANGED op,
         step \in Reading => op[c] = "load"
  PROVE  KindInv'
BY DEF TypeOK, Goto, KindInv

LEMMA KindAbandon ==
  ASSUME TypeOK, KindInv, NEW c \in Calls, Abandon(c), UNCHANGED op
  PROVE  KindInv'
BY DEF TypeOK, Abandon, KindInv, Reading

\* Only a load goes on as a load.
LEMMA KindNext == TypeOK /\ KindInv /\ [Next]_vars => KindInv'
<1> SUFFICES ASSUME TypeOK, KindInv, [Next]_vars PROVE KindInv'
  OBVIOUS
<1>1. ASSUME NEW c \in Calls, NEW o \in {"load", "import", "delete"}, Begin(c, o) PROVE KindInv'
  BY <1>1 DEF Begin, FirstStep, KindInv, Reading, TypeOK
<1>2. ASSUME NEW c \in Calls, ReadSource(c) PROVE KindInv'
  BY <1>2, KindFinish, KindGoto, KindAbandon DEF ReadSource, Reading, mine
<1>3. ASSUME NEW c \in Calls, FindDir(c) PROVE KindInv'
  <2>1. op[c] = "load"
    BY <1>3 DEF FindDir, KindInv, Reading
  <2>. QED BY <2>1, <1>3, KindFinish, KindGoto DEF FindDir, mine
<1>4. ASSUME NEW c \in Calls, FindFile(c) PROVE KindInv'
  BY <1>4, KindFinish, KindGoto, KindAbandon DEF FindFile, Reading, mine
<1>5. ASSUME NEW c \in Calls, OpenStore(c) PROVE KindInv'
  BY <1>5, KindFinish, KindGoto, KindAbandon DEF OpenStore, Reading, mine
<1>6. ASSUME NEW c \in Calls, Acquire(c) PROVE KindInv'
  <2>1. CASE Finish(c, "failed")
    BY <2>1, <1>6, KindFinish DEF Acquire, mine
  <2>2. CASE ~Finish(c, "failed")
    BY <2>2, <1>6 DEF Acquire, KindInv, Reading, TypeOK, mine
  <2>. QED BY <2>1, <2>2
<1>7. ASSUME NEW c \in Calls, Stat(c) PROVE KindInv'
  <2>1. op[c] = "load"
    BY <1>7 DEF Stat, KindInv, Reading
  <2>. QED BY <2>1, <1>7, KindFinish, KindGoto DEF Stat, mine
<1>8. ASSUME NEW c \in Calls, OpenFile(c) PROVE KindInv'
  <2>1. op[c] = "load"
    BY <1>8 DEF OpenFile, KindInv, Reading
  <2>. QED BY <2>1, <1>8, KindFinish, KindGoto DEF OpenFile, mine
<1>9. ASSUME NEW c \in Calls, Read(c) PROVE KindInv'
  BY <1>9, KindFinish, KindGoto, KindAbandon DEF Read, Reading, mine
<1>10. ASSUME NEW c \in Calls, Inspect(c) PROVE KindInv'
  BY <1>10, KindFinish, KindGoto, KindAbandon DEF Inspect, Reading, mine
<1>11. ASSUME NEW c \in Calls, CreateTemp(c) PROVE KindInv'
  BY <1>11, KindFinish, KindGoto, KindAbandon DEF CreateTemp, Reading, mine
<1>12. ASSUME NEW c \in Calls, Write(c) PROVE KindInv'
  BY <1>12, KindFinish, KindGoto, KindAbandon DEF Write, Reading, mine
<1>13. ASSUME NEW c \in Calls, Sync(c) PROVE KindInv'
  BY <1>13, KindFinish, KindGoto, KindAbandon DEF Sync, Reading, mine
<1>14. ASSUME NEW c \in Calls, Commit(c) PROVE KindInv'
  BY <1>14, KindFinish, KindGoto, KindAbandon DEF Commit, Reading, mine
<1>15. ASSUME NEW c \in Calls, Rename(c) PROVE KindInv'
  BY <1>15 DEF Rename, KindInv, Reading, TypeOK, mine
<1>16. ASSUME NEW c \in Calls, Cleanup(c) PROVE KindInv'
  BY <1>16, KindFinish, KindGoto, KindAbandon DEF Cleanup, Reading, mine
<1>17. ASSUME NEW c \in Calls, Remove(c) PROVE KindInv'
  BY <1>17, KindFinish, KindGoto, KindAbandon DEF Remove, Reading, mine
<1>18. ASSUME NEW c \in Calls, Fail(c) PROVE KindInv'
  BY <1>18, KindFinish, KindGoto, KindAbandon DEF Fail, Reading, mine
<1>19. ASSUME NEW c \in Calls, CancelContext(c) PROVE KindInv'
  BY <1>19 DEF CancelContext, KindInv, mine
<1>20. ASSUME NEW p \in Procs, Kill(p) PROVE KindInv'
  BY <1>20 DEF Kill, Stop, KindInv, Reading, TypeOK, Running
<1>21. ASSUME Flush PROVE KindInv'
  BY <1>21 DEF Flush, KindInv, mine
<1>22. ASSUME PowerLoss PROVE KindInv'
  BY <1>22 DEF PowerLoss, Stop, KindInv, Reading, TypeOK, Running
<1>23. ASSUME ChmodDir PROVE KindInv'
  BY <1>23 DEF ChmodDir, KindInv, mine
<1>24. CASE UNCHANGED vars
  BY <1>24 DEF vars, KindInv, mine
<1>. QED BY <1>1, <1>2, <1>3, <1>4, <1>5, <1>6, <1>7, <1>8, <1>9, <1>10,
              <1>11, <1>12, <1>13, <1>14, <1>15, <1>16, <1>17, <1>18, <1>19,
              <1>20, <1>21, <1>22, <1>23, <1>24 DEF Next, Step

-----------------------------------------------------------------------------
(* The directory, and what imports publish. *)

LEMMA FinishMoves ==
  ASSUME TypeOK, NEW c \in Calls, NEW o, Finish(c, o)
  PROVE  /\ pc'[c] = "done" /\ outcome'[c] = o
         /\ \A d \in Calls : d # c => pc'[d] = pc[d] /\ outcome'[d] = outcome[d]
BY DEF TypeOK, Finish

LEMMA GotoMoves ==
  ASSUME TypeOK, NEW c \in Calls, NEW step, Goto(c, step)
  PROVE  pc'[c] = step /\ outcome' = outcome /\ \A d \in Calls : d # c => pc'[d] = pc[d]
BY DEF TypeOK, Goto

LEMMA DirFinish ==
  ASSUME TypeOK, DirInv, NEW c \in Calls, NEW o, Finish(c, o),
         UNCHANGED <<dir, opened, path, durable>>
  PROVE  DirInv'
BY DEF TypeOK, Finish, DirInv, Locked

LEMMA DirGoto ==
  ASSUME TypeOK, DirInv, NEW c \in Calls, NEW step, Goto(c, step),
         UNCHANGED <<dir, opened, path, durable>>,
         step \in Locked \cup {"lock"} => dir # "absent"
  PROVE  DirInv'
BY DEF TypeOK, Goto, DirInv

LEMMA DirAbandon ==
  ASSUME TypeOK, DirInv, NEW c \in Calls, Abandon(c), dir # "absent",
         UNCHANGED <<dir, opened, path, durable>>
  PROVE  DirInv'
BY DEF TypeOK, Abandon, DirInv

\* A directory that was made or found stays, and no call works without one.
LEMMA DirNext == TypeOK /\ DirInv /\ [Next]_vars => DirInv'
<1> SUFFICES ASSUME TypeOK, DirInv, [Next]_vars PROVE DirInv'
  OBVIOUS
<1>1. ASSUME NEW c \in Calls, NEW o \in {"load", "import", "delete"}, Begin(c, o) PROVE DirInv'
  BY <1>1 DEF Begin, FirstStep, DirInv, Locked, TypeOK, proc, files
<1>2. ASSUME NEW c \in Calls, ReadSource(c) PROVE DirInv'
  BY <1>2, DirFinish, DirGoto, DirAbandon DEF ReadSource, Locked, files, mine
<1>3. ASSUME NEW c \in Calls, FindDir(c) PROVE DirInv'
  BY <1>3, DirFinish, DirGoto, DirAbandon DEF FindDir, Locked, files, mine
<1>4. ASSUME NEW c \in Calls, FindFile(c) PROVE DirInv'
  BY <1>4, DirFinish, DirGoto, DirAbandon DEF FindFile, Locked, files, mine
<1>5. ASSUME NEW c \in Calls, OpenStore(c) PROVE DirInv'
  <2>1. dir' # "absent" \/ (dir' = dir /\ opened' = opened)
    BY <1>5 DEF OpenStore
  <2>2. path' = path /\ durable' = durable
    BY <1>5 DEF OpenStore, files
  <2>3. \A p \in Procs : opened'[p] = "usable" => dir' # "absent"
    BY <1>5, ProcsAssumption DEF OpenStore, DirInv, TypeOK
  <2>4. dir' = "absent" => pc'[c] = "done"
    BY <1>5, <2>3, ProcsAssumption, FinishMoves DEF OpenStore, DirInv, TypeOK
  <2>5. \A x \in Calls : x # c => pc'[x] = pc[x]
    BY <1>5, FinishMoves, GotoMoves DEF OpenStore
  <2>6. dir' = "absent" => dir = "absent"
    BY <2>1
  <2>. QED BY <2>2, <2>3, <2>4, <2>5, <2>6 DEF DirInv, Locked
<1>6. ASSUME NEW c \in Calls, Acquire(c) PROVE DirInv'
  <2>1. CASE Finish(c, "failed")
    BY <2>1, <1>6, DirFinish DEF Acquire, files
  <2>2. CASE ~Finish(c, "failed")
    BY <2>2, <1>6 DEF Acquire, DirInv, Locked, TypeOK, files
  <2>. QED BY <2>1, <2>2
<1>7. ASSUME NEW c \in Calls, Stat(c) PROVE DirInv'
  <2>1. dir # "absent"
    BY <1>7 DEF Stat, DirInv, Locked
  <2>. QED BY <2>1, <1>7, DirFinish, DirGoto, DirAbandon DEF Stat, files, mine
<1>8. ASSUME NEW c \in Calls, OpenFile(c) PROVE DirInv'
  <2>1. dir # "absent"
    BY <1>8 DEF OpenFile, DirInv, Locked
  <2>. QED BY <2>1, <1>8, DirFinish, DirGoto, DirAbandon DEF OpenFile, files, mine
<1>9. ASSUME NEW c \in Calls, Read(c) PROVE DirInv'
  BY <1>9, DirFinish, DirGoto, DirAbandon DEF Read, Locked, files, mine
<1>10. ASSUME NEW c \in Calls, Inspect(c) PROVE DirInv'
  <2>1. dir # "absent"
    BY <1>10 DEF Inspect, DirInv, Locked
  <2>. QED BY <2>1, <1>10, DirFinish, DirGoto, DirAbandon DEF Inspect, files, mine
<1>11. ASSUME NEW c \in Calls, CreateTemp(c) PROVE DirInv'
  <2>1. dir # "absent"
    BY <1>11 DEF CreateTemp, DirInv, Locked
  <2>. QED BY <2>1, <1>11, DirFinish, DirGoto, DirAbandon DEF CreateTemp, files, mine
<1>12. ASSUME NEW c \in Calls, Write(c) PROVE DirInv'
  <2>1. dir # "absent"
    BY <1>12 DEF Write, DirInv, Locked
  <2>. QED BY <2>1, <1>12, DirFinish, DirGoto, DirAbandon DEF Write, files, mine
<1>13. ASSUME NEW c \in Calls, Sync(c) PROVE DirInv'
  <2>1. dir # "absent"
    BY <1>13 DEF Sync, DirInv, Locked
  <2>. QED BY <2>1, <1>13, DirFinish, DirGoto, DirAbandon DEF Sync, files, mine
<1>14. ASSUME NEW c \in Calls, Commit(c) PROVE DirInv'
  <2>1. dir # "absent"
    BY <1>14 DEF Commit, DirInv, Locked
  <2>. QED BY <2>1, <1>14, DirFinish, DirGoto, DirAbandon DEF Commit, files, mine
<1>15. ASSUME NEW c \in Calls, Rename(c) PROVE DirInv'
  BY <1>15 DEF Rename, Publish, DirInv, Locked, TypeOK, proc
<1>16. ASSUME NEW c \in Calls, Cleanup(c) PROVE DirInv'
  BY <1>16, DirFinish, DirGoto, DirAbandon DEF Cleanup, Locked, files, mine
<1>17. ASSUME NEW c \in Calls, Remove(c) PROVE DirInv'
  <2>1. dir # "absent"
    BY <1>17 DEF Remove, DirInv, Locked
  <2>2. pc'[c] = "done" /\ \A x \in Calls : x # c => pc'[x] = pc[x]
    BY <1>17, FinishMoves DEF Remove
  <2>. QED BY <2>1, <2>2, <1>17 DEF Remove, DirInv, Locked
<1>18. ASSUME NEW c \in Calls, Fail(c) PROVE DirInv'
  <2>1. CASE Finish(c, "failed") /\ UNCHANGED <<dir, opened, path, durable>>
    BY <2>1, DirFinish
  <2>2. CASE opened' = [opened EXCEPT ![ProcOf[c]] = "unusable"] /\ Finish(c, "failed") /\ UNCHANGED <<dir, files>>
    <3>1. pc'[c] = "done" /\ \A x \in Calls : x # c => pc'[x] = pc[x]
      BY <2>2, FinishMoves
    <3>2. \A p \in Procs : opened'[p] = "usable" => opened[p] = "usable"
      BY <2>2 DEF TypeOK
    <3>. QED BY <2>2, <3>1, <3>2 DEF DirInv, Locked, files
  <2>3. CASE pc[c] \in {"write", "sync", "rename"} /\ Abandon(c) /\ UNCHANGED <<dir, opened, path, durable>>
    BY <2>3, DirAbandon DEF DirInv, Locked
  <2>. QED BY <2>1, <2>2, <2>3, <1>18 DEF Fail, files
<1>19. ASSUME NEW c \in Calls, CancelContext(c) PROVE DirInv'
  BY <1>19 DEF CancelContext, DirInv, files, proc
<1>20. ASSUME NEW p \in Procs, Kill(p) PROVE DirInv'
  <2>1. \A x \in Calls : pc'[x] \in {pc[x], "dead"}
    BY <1>20 DEF Kill, Stop
  <2>2. \A q \in Procs : opened'[q] = "usable" => opened[q] = "usable"
    BY <1>20 DEF Kill, Stop
  <2>3. UNCHANGED <<dir, path, durable>>
    BY <1>20 DEF Kill, Stop
  <2>. QED BY <2>1, <2>2, <2>3 DEF DirInv, Locked
<1>21. ASSUME Flush PROVE DirInv'
  BY <1>21 DEF Flush, Entries, DirInv, files, proc
<1>22. ASSUME PowerLoss PROVE DirInv'
  <2>1. \A x \in Calls : pc'[x] \in {"idle", "done", "dead"}
    BY <1>22, ProcsAssumption DEF PowerLoss, Stop, Running
  <2>2. \A p \in Procs : opened'[p] = "not yet"
    BY <1>22 DEF PowerLoss, Stop
  <2>3. /\ dir' = (IF durable.made THEN dir ELSE "absent")
        /\ path' = durable.path /\ durable' = durable
    BY <1>22 DEF PowerLoss, Stop
  <2>. QED BY <2>1, <2>2, <2>3 DEF DirInv, Locked
<1>23. ASSUME ChmodDir PROVE DirInv'
  BY <1>23 DEF ChmodDir, DirInv, proc, files
<1>24. CASE UNCHANGED vars
  BY <1>24 DEF vars, DirInv, files, proc
<1>. QED BY <1>1, <1>2, <1>3, <1>4, <1>5, <1>6, <1>7, <1>8, <1>9, <1>10,
              <1>11, <1>12, <1>13, <1>14, <1>15, <1>16, <1>17, <1>18, <1>19,
              <1>20, <1>21, <1>22, <1>23, <1>24 DEF Next, Step

LEMMA PublishFinish ==
  ASSUME TypeOK, PublishInv, NEW c \in Calls, NEW o, Finish(c, o), o # "saved",
         pc[c] \notin {"cleanup", "done", "dead"}, UNCHANGED <<path, durable, disk, published>>
  PROVE  PublishInv'
BY FinishMoves DEF PublishInv

LEMMA PublishGoto ==
  ASSUME TypeOK, PublishInv, NEW c \in Calls, NEW step, Goto(c, step),
         pc[c] \notin {"cleanup", "done", "dead"}, step \notin {"cleanup", "done", "dead"},
         step \in {"commit", "rename"} => disk[c] = "good",
         UNCHANGED <<path, durable, disk, published>>
  PROVE  PublishInv'
BY GotoMoves DEF PublishInv

LEMMA PublishAbandon ==
  ASSUME TypeOK, PublishInv, NEW c \in Calls, Abandon(c),
         pc[c] \notin {"cleanup", "done", "dead"}, UNCHANGED <<path, durable, disk, published>>
  PROVE  PublishInv'
BY DEF PublishInv, Abandon, TypeOK

\* An import changes its own file only, and only before the rename.
LEMMA PublishWrite ==
  ASSUME TypeOK, PublishInv, NEW c \in Calls, NEW step, NEW content, Goto(c, step),
         pc[c] \in {"create", "write", "sync"}, step \in {"write", "sync", "commit"},
         step = "commit" => content = "good",
         disk' = [disk EXCEPT ![c] = content], UNCHANGED <<path, durable, published>>
  PROVE  PublishInv'
<1>1. c \notin published
  BY DEF PublishInv
<1>2. disk'[c] = content /\ \A d \in Calls : d # c => disk'[d] = disk[d]
  BY DEF TypeOK, Files
<1>3. \A d \in published : d \in Calls /\ disk'[d] = "good"
  BY <1>1, <1>2 DEF PublishInv, TypeOK
<1>4. \A d \in Calls : pc'[d] \in {"commit", "rename"} => disk'[d] = "good"
  BY <1>2, GotoMoves DEF PublishInv
<1>. QED BY <1>1, <1>3, <1>4, GotoMoves DEF PublishInv

\* What an import puts in place is on the disk, and its outcome says so.
LEMMA PublishNext == TypeOK /\ PublishInv /\ [Next]_vars => PublishInv'
<1> SUFFICES ASSUME TypeOK, PublishInv, [Next]_vars PROVE PublishInv'
  OBVIOUS
<1>1. ASSUME NEW c \in Calls, NEW o \in {"load", "import", "delete"}, Begin(c, o) PROVE PublishInv'
  BY <1>1 DEF Begin, FirstStep, PublishInv, TypeOK, files
<1>2. ASSUME NEW c \in Calls, ReadSource(c) PROVE PublishInv'
  BY <1>2, PublishFinish, PublishGoto, PublishAbandon DEF ReadSource, files
<1>3. ASSUME NEW c \in Calls, FindDir(c) PROVE PublishInv'
  BY <1>3, PublishFinish, PublishGoto, PublishAbandon DEF FindDir, files
<1>4. ASSUME NEW c \in Calls, FindFile(c) PROVE PublishInv'
  BY <1>4, PublishFinish, PublishGoto, PublishAbandon DEF FindFile, files
<1>5. ASSUME NEW c \in Calls, OpenStore(c) PROVE PublishInv'
  BY <1>5, PublishFinish, PublishGoto, PublishAbandon DEF OpenStore, files
<1>6. ASSUME NEW c \in Calls, Acquire(c) PROVE PublishInv'
  <2>1. CASE Finish(c, "failed")
    BY <2>1, <1>6, PublishFinish DEF Acquire, files
  <2>2. CASE ~Finish(c, "failed")
    <3>1. /\ pc[c] = "lock" /\ pc'[c] \in {"stat", "inspect", "remove"}
          /\ \A x \in Calls : x # c => pc'[x] = pc[x]
      BY <2>2, <1>6 DEF Acquire, TypeOK
    <3>2. UNCHANGED <<outcome, path, durable, disk, published>>
      BY <2>2, <1>6 DEF Acquire, files
    <3>. QED BY <3>1, <3>2 DEF PublishInv
  <2>. QED BY <2>1, <2>2
<1>7. ASSUME NEW c \in Calls, Stat(c) PROVE PublishInv'
  BY <1>7, PublishFinish, PublishGoto, PublishAbandon DEF Stat, files
<1>8. ASSUME NEW c \in Calls, OpenFile(c) PROVE PublishInv'
  BY <1>8, PublishFinish, PublishGoto, PublishAbandon DEF OpenFile, files
<1>9. ASSUME NEW c \in Calls, Read(c) PROVE PublishInv'
  BY <1>9, PublishFinish, PublishGoto, PublishAbandon DEF Read, files
<1>10. ASSUME NEW c \in Calls, Inspect(c) PROVE PublishInv'
  BY <1>10, PublishFinish, PublishGoto, PublishAbandon DEF Inspect, files
<1>11. ASSUME NEW c \in Calls, CreateTemp(c) PROVE PublishInv'
  BY <1>11, PublishWrite DEF CreateTemp, files
<1>12. ASSUME NEW c \in Calls, Write(c) PROVE PublishInv'
  BY <1>12, PublishWrite DEF Write, files
<1>13. ASSUME NEW c \in Calls, Sync(c) PROVE PublishInv'
  BY <1>13, PublishWrite DEF Sync, files
<1>14. ASSUME NEW c \in Calls, Commit(c) PROVE PublishInv'
  <2>1. disk[c] = "good"
    BY <1>14 DEF Commit, PublishInv
  <2>. QED BY <2>1, <1>14, PublishGoto, PublishAbandon DEF Commit, files
<1>15. ASSUME NEW c \in Calls, Rename(c) PROVE PublishInv'
  <2>1. /\ pc'[c] = "cleanup" /\ outcome'[c] = "saved"
        /\ \A x \in Calls : x # c => pc'[x] = pc[x] /\ outcome'[x] = outcome[x]
    BY <1>15 DEF Rename, TypeOK
  <2>2. disk[c] = "good" /\ path' = c /\ durable' = durable
        /\ published' = published \cup {c} /\ disk' = disk
    BY <1>15 DEF Rename, Publish, PublishInv
  <2>. QED BY <2>1, <2>2 DEF PublishInv
<1>16. ASSUME NEW c \in Calls, Cleanup(c) PROVE PublishInv'
  <2>1. UNCHANGED <<path, disk, durable, published>>
    BY <1>16 DEF Cleanup
  <2>. QED BY <2>1, <1>16, FinishMoves DEF Cleanup, PublishInv
<1>17. ASSUME NEW c \in Calls, Remove(c) PROVE PublishInv'
  <2>1. /\ path' = NoFile /\ durable' = durable
        /\ pc[c] = "remove" /\ UNCHANGED <<disk, published>>
    BY <1>17 DEF Remove
  <2>. QED BY <2>1, <1>17, FinishMoves, NamesAssumption DEF Remove, PublishInv
<1>18. ASSUME NEW c \in Calls, Fail(c) PROVE PublishInv'
  BY <1>18, PublishFinish, PublishGoto, PublishAbandon DEF Fail, files
<1>19. ASSUME NEW c \in Calls, CancelContext(c) PROVE PublishInv'
  BY <1>19 DEF CancelContext, PublishInv, files
<1>20. ASSUME NEW p \in Procs, Kill(p) PROVE PublishInv'
  <2>1. \A x \in Calls : pc'[x] # "dead" => pc'[x] = pc[x]
    BY <1>20 DEF Kill, Stop
  <2>. QED BY <2>1, <1>20 DEF Kill, Stop, PublishInv
<1>21. ASSUME Flush PROVE PublishInv'
  BY <1>21 DEF Flush, Entries, PublishInv
<1>22. ASSUME PowerLoss PROVE PublishInv'
  <2>1. \A x \in Calls : pc'[x] # "dead" => pc'[x] = pc[x]
    BY <1>22 DEF PowerLoss, Stop
  <2>2. \A x \in Calls : disk[x] = "good" => disk'[x] = "good"
    BY <1>22 DEF PowerLoss, Files
  <2>3. path' = durable.path /\ UNCHANGED <<durable, outcome, published>>
    BY <1>22 DEF PowerLoss, Stop
  <2>4. published \subseteq Calls
    BY DEF TypeOK
  <2>. QED BY <2>1, <2>2, <2>3, <2>4 DEF PublishInv
<1>23. ASSUME ChmodDir PROVE PublishInv'
  BY <1>23 DEF ChmodDir, PublishInv, files
<1>24. CASE UNCHANGED vars
  BY <1>24 DEF vars, PublishInv, files
<1>. QED BY <1>1, <1>2, <1>3, <1>4, <1>5, <1>6, <1>7, <1>8, <1>9, <1>10,
              <1>11, <1>12, <1>13, <1>14, <1>15, <1>16, <1>17, <1>18, <1>19,
              <1>20, <1>21, <1>22, <1>23, <1>24 DEF Next, Step

-----------------------------------------------------------------------------
(* Temporary files, and the file that was there before. *)

\* No temporary file is new, and a call that has made one goes on.
LEMMA TempKeep ==
  ASSUME TypeOK, TempInv,
         temps' \cup durable'.temps \subseteq temps \cup durable.temps,
         \A x \in Calls : pc[x] \in Later => pc'[x] \in Later
  PROVE  TempInv'
<1>1. temps \cup durable.temps \subseteq Calls
  BY DEF TypeOK, WrittenBack
<1>. QED BY <1>1 DEF TempInv

LEMMA TempFinish ==
  ASSUME TypeOK, TempInv, NEW c \in Calls, NEW o, Finish(c, o),
         UNCHANGED <<temps, durable>>
  PROVE  TempInv'
<1>1. \A x \in Calls : pc'[x] \in {pc[x], "done"}
  BY FinishMoves
<1>. QED BY <1>1, TempKeep DEF Later

LEMMA TempGoto ==
  ASSUME TypeOK, TempInv, NEW c \in Calls, NEW step, Goto(c, step),
         UNCHANGED <<temps, durable>>, pc[c] \in Later => step \in Later
  PROVE  TempInv'
BY GotoMoves, TempKeep

LEMMA TempAbandon ==
  ASSUME TypeOK, TempInv, NEW c \in Calls, Abandon(c), UNCHANGED <<temps, durable>>
  PROVE  TempInv'
<1>1. \A x \in Calls : pc'[x] \in {pc[x], "cleanup"}
  BY DEF Abandon, TypeOK
<1>. QED BY <1>1, TempKeep DEF Later

\* Temporary files are those of imports that have made one.
LEMMA TempNext == TypeOK /\ TempInv /\ [Next]_vars => TempInv'
<1> SUFFICES ASSUME TypeOK, TempInv, [Next]_vars PROVE TempInv'
  OBVIOUS
<1>1. ASSUME NEW c \in Calls, NEW o \in {"load", "import", "delete"}, Begin(c, o) PROVE TempInv'
  BY <1>1, TempKeep DEF Begin, Later, TypeOK, files
<1>2. ASSUME NEW c \in Calls, ReadSource(c) PROVE TempInv'
  BY <1>2, TempFinish, TempGoto, TempAbandon DEF Later, ReadSource, files
<1>3. ASSUME NEW c \in Calls, FindDir(c) PROVE TempInv'
  BY <1>3, TempFinish, TempGoto, TempAbandon DEF Later, FindDir, files
<1>4. ASSUME NEW c \in Calls, FindFile(c) PROVE TempInv'
  BY <1>4, TempFinish, TempGoto, TempAbandon DEF Later, FindFile, files
<1>5. ASSUME NEW c \in Calls, OpenStore(c) PROVE TempInv'
  BY <1>5, TempFinish, TempGoto, TempAbandon DEF Later, OpenStore, files
<1>6. ASSUME NEW c \in Calls, Acquire(c) PROVE TempInv'
  <2>1. CASE Finish(c, "failed")
    BY <2>1, <1>6, TempFinish DEF Acquire, files
  <2>2. CASE ~Finish(c, "failed")
    BY <2>2, <1>6, TempKeep DEF Acquire, Later, TypeOK, files
  <2>. QED BY <2>1, <2>2
<1>7. ASSUME NEW c \in Calls, Stat(c) PROVE TempInv'
  BY <1>7, TempFinish, TempGoto, TempAbandon DEF Later, Stat, files
<1>8. ASSUME NEW c \in Calls, OpenFile(c) PROVE TempInv'
  BY <1>8, TempFinish, TempGoto, TempAbandon DEF Later, OpenFile, files
<1>9. ASSUME NEW c \in Calls, Read(c) PROVE TempInv'
  BY <1>9, TempFinish, TempGoto, TempAbandon DEF Later, Read, files
<1>10. ASSUME NEW c \in Calls, Inspect(c) PROVE TempInv'
  BY <1>10, TempFinish, TempGoto, TempAbandon DEF Later, Inspect, files
<1>11. ASSUME NEW c \in Calls, CreateTemp(c) PROVE TempInv'
  <2>1. temps' = temps \cup {c} /\ durable' = durable /\ Goto(c, "write")
    BY <1>11 DEF CreateTemp
  <2>2. temps \cup durable.temps \subseteq Calls
    BY DEF TypeOK, WrittenBack
  <2>. QED BY <2>1, <2>2, GotoMoves DEF TempInv, Later
<1>12. ASSUME NEW c \in Calls, Write(c) PROVE TempInv'
  BY <1>12, TempFinish, TempGoto, TempAbandon DEF Later, Write, files
<1>13. ASSUME NEW c \in Calls, Sync(c) PROVE TempInv'
  BY <1>13, TempFinish, TempGoto, TempAbandon DEF Later, Sync, files
<1>14. ASSUME NEW c \in Calls, Commit(c) PROVE TempInv'
  BY <1>14, TempFinish, TempGoto, TempAbandon DEF Later, Commit, files
<1>15. ASSUME NEW c \in Calls, Rename(c) PROVE TempInv'
  <2>1. \A x \in Calls : pc'[x] \in {pc[x], "cleanup"}
    BY <1>15 DEF Rename, TypeOK
  <2>. QED BY <2>1, <1>15, TempKeep DEF Rename, Publish, Later
<1>16. ASSUME NEW c \in Calls, Cleanup(c) PROVE TempInv'
  <2>1. \A x \in Calls : pc'[x] \in {pc[x], "done"}
    BY <1>16, FinishMoves DEF Cleanup
  <2>. QED BY <2>1, <1>16, TempKeep DEF Cleanup, Later
<1>17. ASSUME NEW c \in Calls, Remove(c) PROVE TempInv'
  BY <1>17, TempFinish, TempGoto, TempAbandon DEF Later, Remove, files
<1>18. ASSUME NEW c \in Calls, Fail(c) PROVE TempInv'
  BY <1>18, TempFinish, TempGoto, TempAbandon DEF Later, Fail, files
<1>19. ASSUME NEW c \in Calls, CancelContext(c) PROVE TempInv'
  BY <1>19, TempKeep DEF CancelContext, files
<1>20. ASSUME NEW p \in Procs, Kill(p) PROVE TempInv'
  <2>1. \A x \in Calls : pc'[x] \in {pc[x], "dead"}
    BY <1>20 DEF Kill, Stop
  <2>. QED BY <2>1, <1>20, TempKeep DEF Kill, Stop, Later
<1>21. ASSUME Flush PROVE TempInv'
  BY <1>21, TempKeep DEF Flush, Entries
<1>22. ASSUME PowerLoss PROVE TempInv'
  <2>1. \A x \in Calls : pc'[x] \in {pc[x], "dead"}
    BY <1>22 DEF PowerLoss, Stop
  <2>. QED BY <2>1, <1>22, TempKeep DEF PowerLoss, Stop, Later
<1>23. ASSUME ChmodDir PROVE TempInv'
  BY <1>23, TempKeep DEF ChmodDir, files
<1>24. CASE UNCHANGED vars
  BY <1>24, TempKeep DEF vars, files
<1>. QED BY <1>1, <1>2, <1>3, <1>4, <1>5, <1>6, <1>7, <1>8, <1>9, <1>10,
              <1>11, <1>12, <1>13, <1>14, <1>15, <1>16, <1>17, <1>18, <1>19,
              <1>20, <1>21, <1>22, <1>23, <1>24 DEF Next, Step

\* Nothing writes the original file.
LEMMA OriginalNext == TypeOK /\ OriginalInv /\ [Next]_vars => OriginalInv'
<1> SUFFICES ASSUME TypeOK, OriginalInv, [Next]_vars PROVE OriginalInv'
  OBVIOUS
<1>1. ASSUME NEW c \in Calls, NEW o \in {"load", "import", "delete"}, Begin(c, o) PROVE OriginalInv'
  BY <1>1 DEF Begin, OriginalInv, files
<1>2. ASSUME NEW c \in Calls, ReadSource(c) PROVE OriginalInv'
  BY <1>2 DEF ReadSource, OriginalInv, files
<1>3. ASSUME NEW c \in Calls, FindDir(c) PROVE OriginalInv'
  BY <1>3 DEF FindDir, OriginalInv, files
<1>4. ASSUME NEW c \in Calls, FindFile(c) PROVE OriginalInv'
  BY <1>4 DEF FindFile, OriginalInv, files
<1>5. ASSUME NEW c \in Calls, OpenStore(c) PROVE OriginalInv'
  BY <1>5 DEF OpenStore, OriginalInv, files
<1>6. ASSUME NEW c \in Calls, Acquire(c) PROVE OriginalInv'
  BY <1>6 DEF Acquire, OriginalInv, files
<1>7. ASSUME NEW c \in Calls, Stat(c) PROVE OriginalInv'
  BY <1>7 DEF Stat, OriginalInv, files
<1>8. ASSUME NEW c \in Calls, OpenFile(c) PROVE OriginalInv'
  BY <1>8 DEF OpenFile, OriginalInv, files
<1>9. ASSUME NEW c \in Calls, Read(c) PROVE OriginalInv'
  BY <1>9 DEF Read, OriginalInv, files
<1>10. ASSUME NEW c \in Calls, Inspect(c) PROVE OriginalInv'
  BY <1>10 DEF Inspect, OriginalInv, files
<1>11. ASSUME NEW c \in Calls, CreateTemp(c) PROVE OriginalInv'
  <2>1. disk'[Original] = disk[Original] /\ UNCHANGED <<path, durable>>
    BY <1>11, NamesAssumption DEF CreateTemp, TypeOK, Files
  <2>. QED BY <2>1 DEF OriginalInv
<1>12. ASSUME NEW c \in Calls, Write(c) PROVE OriginalInv'
  <2>1. disk'[Original] = disk[Original] /\ UNCHANGED <<path, durable>>
    BY <1>12, NamesAssumption DEF Write, TypeOK, Files
  <2>. QED BY <2>1 DEF OriginalInv
<1>13. ASSUME NEW c \in Calls, Sync(c) PROVE OriginalInv'
  <2>1. disk'[Original] = disk[Original] /\ UNCHANGED <<path, durable>>
    BY <1>13, NamesAssumption DEF Sync, TypeOK, Files
  <2>. QED BY <2>1 DEF OriginalInv
<1>14. ASSUME NEW c \in Calls, Commit(c) PROVE OriginalInv'
  BY <1>14 DEF Commit, OriginalInv, files
<1>15. ASSUME NEW c \in Calls, Rename(c) PROVE OriginalInv'
  BY <1>15, NamesAssumption DEF Rename, Publish, OriginalInv
<1>16. ASSUME NEW c \in Calls, Cleanup(c) PROVE OriginalInv'
  BY <1>16 DEF Cleanup, OriginalInv, files
<1>17. ASSUME NEW c \in Calls, Remove(c) PROVE OriginalInv'
  BY <1>17, NamesAssumption DEF Remove, OriginalInv
<1>18. ASSUME NEW c \in Calls, Fail(c) PROVE OriginalInv'
  BY <1>18 DEF Fail, OriginalInv, files
<1>19. ASSUME NEW c \in Calls, CancelContext(c) PROVE OriginalInv'
  BY <1>19 DEF CancelContext, OriginalInv, files
<1>20. ASSUME NEW p \in Procs, Kill(p) PROVE OriginalInv'
  BY <1>20 DEF Kill, Stop, OriginalInv, files
<1>21. ASSUME Flush PROVE OriginalInv'
  BY <1>21 DEF Flush, Entries, OriginalInv, files
<1>22. ASSUME PowerLoss PROVE OriginalInv'
  <2>1. disk'[Original] = disk[Original]
    BY <1>22 DEF PowerLoss, OriginalInv, Files
  <2>. QED BY <2>1, <1>22 DEF PowerLoss, Stop, OriginalInv
<1>23. ASSUME ChmodDir PROVE OriginalInv'
  BY <1>23 DEF ChmodDir, OriginalInv, files
<1>24. CASE UNCHANGED vars
  BY <1>24 DEF vars, OriginalInv, files
<1>. QED BY <1>1, <1>2, <1>3, <1>4, <1>5, <1>6, <1>7, <1>8, <1>9, <1>10,
              <1>11, <1>12, <1>13, <1>14, <1>15, <1>16, <1>17, <1>18, <1>19,
              <1>20, <1>21, <1>22, <1>23, <1>24 DEF Next, Step

-----------------------------------------------------------------------------
(* What a load has seen. *)

\* A step that leaves the path and the directory alone, and takes no load on
\* to a step that needs to have seen something.
LEMMA SeenKeep ==
  ASSUME SeenInv, UNCHANGED <<dir, path, during, got>>, disk'[Original] = disk[Original],
         published \subseteq published',
         \A x \in Calls : pc'[x] \in {"findFile", "stat", "openFile", "read"} => pc'[x] = pc[x],
         \A x \in Calls : Loading(x)' => Loading(x)
  PROVE  SeenInv'
BY DEF SeenInv, SeenBy, Closed

\* A step of the same kind that every load in progress witnesses.
LEMMA SeenWitness ==
  ASSUME TypeOK, SeenInv, Witness(dir', path'), got' = got, disk'[Original] = disk[Original],
         published \subseteq published',
         \A x \in Calls : pc'[x] \in {"findFile", "stat", "openFile", "read"} => pc'[x] = pc[x],
         \A x \in Calls : Loading(x)' => Loading(x),
         \A x \in Calls : pc[x] = "openFile" =>
           path' \in {path, NoFile} \/ (path' \in Calls /\ ProcOf[path'] # ProcOf[x])
  PROVE  SeenInv'
<1>1. \A x \in Calls : during[x] \subseteq during'[x]
  BY DEF Witness
<1>2. \A x \in Calls : Loading(x)' => {dir', path'} \subseteq during'[x]
  BY DEF Witness
<1>3. \A x \in Calls : pc'[x] \in {"findFile", "stat", "openFile", "read"} =>
        Closed(x)'
  BY <1>1 DEF SeenInv, Closed
<1>4. \A x \in Calls : pc'[x] \in {"openFile", "read"} =>
        /\ got'[x] \in SeenBy(x)' /\ got'[x] # NoFile
        /\ got'[x] \in Calls => got'[x] \in published'
        /\ got'[x] = Original => disk'[Original] \in {"good", "bad"}
  BY <1>1 DEF SeenInv, SeenBy
<1>5. \A x \in Calls : pc'[x] = "openFile" =>
        path' \in {got'[x], NoFile} \/ (path' \in Calls /\ ProcOf[path'] # ProcOf[x])
  BY DEF SeenInv
<1>. QED BY <1>2, <1>3, <1>4, <1>5 DEF SeenInv

LEMMA SeenFinish ==
  ASSUME TypeOK, SeenInv, NEW c \in Calls, NEW o, Finish(c, o), op' = op,
         UNCHANGED <<dir, path, during, got, disk, published>>
  PROVE  SeenInv'
<1>1. \A x \in Calls : pc'[x] = "done" \/ pc'[x] = pc[x]
  BY FinishMoves
<1>. QED BY <1>1, SeenKeep DEF Loading, Running

LEMMA SeenGoto ==
  ASSUME TypeOK, SeenInv, NEW c \in Calls, NEW step, Goto(c, step), op' = op,
         step \notin {"findFile", "stat", "openFile", "read"}, Running(c),
         UNCHANGED <<dir, path, during, got, published>>, disk'[Original] = disk[Original]
  PROVE  SeenInv'
<1>1. \A x \in Calls : (pc'[x] = step /\ Running(x)) \/ pc'[x] = pc[x]
  BY GotoMoves
<1>. QED BY <1>1, SeenKeep DEF Loading, Running

LEMMA SeenAbandon ==
  ASSUME TypeOK, SeenInv, NEW c \in Calls, Abandon(c), op' = op, Running(c),
         UNCHANGED <<dir, path, during, got, disk, published>>
  PROVE  SeenInv'
<1>1. \A x \in Calls : (pc'[x] = "cleanup" /\ Running(x)) \/ pc'[x] = pc[x]
  BY DEF Abandon, TypeOK
<1>. QED BY <1>1, SeenKeep DEF Loading, Running

\* A load that goes on has seen what is there now.
LEMMA SeenStep ==
  ASSUME TypeOK, SeenInv, NEW c \in Calls, Loading(c), op' = op,
         pc'[c] \notin {"idle", "done", "dead"},
         \A x \in Calls : x # c => pc'[x] = pc[x],
         UNCHANGED <<dir, path, during, disk, published>>,
         \A x \in Calls : x # c => got'[x] = got[x],
         pc'[c] \in {"findFile", "stat", "openFile", "read"} =>
           dir # "open" \/ pc[c] \in {"findFile", "stat", "openFile", "read"},
         pc'[c] \in {"openFile", "read"} =>
           \/ got'[c] = path /\ path # NoFile
              /\ (path \in Calls => path \in published)
              /\ (path = Original => disk[Original] \in {"good", "bad"})
           \/ got'[c] = got[c] /\ pc[c] = "openFile" /\ pc'[c] = "read"
  PROVE  SeenInv'
<1>1. {dir, path} \subseteq during[c]
  BY DEF SeenInv
<1>2. \A x \in Calls : Loading(x)' => Loading(x)
  BY DEF Loading, Running
<1>3. path \in SeenBy(c)
  BY <1>1 DEF SeenBy, TypeOK
<1>4. \A x \in Calls : Loading(x)' => {dir', path'} \subseteq during'[x]
  BY <1>2 DEF SeenInv
<1>5. \A x \in Calls : pc'[x] \in {"findFile", "stat", "openFile", "read"} =>
        Closed(x)'
  <2>1. dir # "open" => Closed(c)
    BY <1>1 DEF TypeOK, Directories, Closed
  <2>. QED BY <2>1 DEF SeenInv, Closed
<1>6. \A x \in Calls : pc'[x] \in {"openFile", "read"} =>
        /\ got'[x] \in SeenBy(x)' /\ got'[x] # NoFile
        /\ got'[x] \in Calls => got'[x] \in published'
        /\ got'[x] = Original => disk'[Original] \in {"good", "bad"}
  BY <1>3 DEF SeenInv, SeenBy
<1>7. \A x \in Calls : pc'[x] = "openFile" =>
        path' \in {got'[x], NoFile} \/ (path' \in Calls /\ ProcOf[path'] # ProcOf[x])
  BY DEF SeenInv
<1>. QED BY <1>4, <1>5, <1>6, <1>7 DEF SeenInv

\* A load knows what was there while it ran.
LEMMA SeenNext == TypeOK /\ MutexInv /\ KindInv /\ PublishInv /\ OriginalInv
        /\ SeenInv /\ [Next]_vars => SeenInv'
<1> SUFFICES ASSUME TypeOK, MutexInv, KindInv, PublishInv, OriginalInv, SeenInv,
             [Next]_vars PROVE SeenInv'
  OBVIOUS
<1>1. ASSUME NEW c \in Calls, NEW o \in {"load", "import", "delete"}, Begin(c, o) PROVE SeenInv'
  <2>1. /\ pc[c] = "idle" /\ pc'[c] \in {"source", "findDir", "open"}
        /\ op'[c] = o /\ (o = "load" => during'[c] = {dir, path})
        /\ \A x \in Calls : x # c => pc'[x] = pc[x] /\ op'[x] = op[x] /\ during'[x] = during[x]
    BY <1>1 DEF Begin, FirstStep, TypeOK
  <2>2. UNCHANGED <<dir, path, got, disk, published>>
    BY <1>1 DEF Begin, files
  <2>. QED BY <2>1, <2>2 DEF SeenInv, SeenBy, Closed, Loading, Running
<1>2. ASSUME NEW c \in Calls, ReadSource(c) PROVE SeenInv'
  BY <1>2, SeenFinish, SeenGoto DEF ReadSource, files, mine, Running
<1>3. ASSUME NEW c \in Calls, FindDir(c) PROVE SeenInv'
  <2>1. CASE Goto(c, "findFile")
    <3>1. dir # "open" /\ pc[c] = "findDir"
      BY <2>1, <1>3 DEF FindDir, Goto, Finish, TypeOK
    <3>2. Loading(c)
      BY <3>1 DEF KindInv, Reading, Loading, Running
    <3>. QED BY <2>1, <3>1, <3>2, <1>3, GotoMoves, SeenStep DEF FindDir, files, mine
  <2>2. CASE \E o : o # "saved" /\ Finish(c, o)
    BY <2>2, <1>3, SeenFinish DEF FindDir, files, mine
  <2>. QED BY <2>1, <2>2, <1>3 DEF FindDir
<1>4. ASSUME NEW c \in Calls, FindFile(c) PROVE SeenInv'
  BY <1>4, SeenFinish, SeenGoto DEF FindFile, files, mine, Running
<1>5. ASSUME NEW c \in Calls, OpenStore(c) PROVE SeenInv'
  <2>1. pc[c] = "open" /\ (Goto(c, "lock") \/ Finish(c, "failed"))
    BY <1>5 DEF OpenStore
  <2>2. CASE opened[ProcOf[c]] # "not yet"
    BY <2>1, <2>2, <1>5, SeenFinish, SeenGoto DEF OpenStore, files, mine, Running
  <2>3. CASE opened[ProcOf[c]] = "not yet"
    <3>1. \A x \in Calls : (pc'[x] \in {"lock", "done"} /\ x = c) \/ pc'[x] = pc[x]
      BY <2>1, FinishMoves, GotoMoves
    <3>2. op' = op /\ Witness(dir', path') /\ UNCHANGED <<got, path, disk, published>>
      BY <2>3, <1>5 DEF OpenStore, files, mine
    <3>. QED BY <2>1, <3>1, <3>2, SeenWitness DEF Loading, Running
  <2>. QED BY <2>2, <2>3
<1>6. ASSUME NEW c \in Calls, Acquire(c) PROVE SeenInv'
  <2>1. CASE Finish(c, "failed")
    BY <2>1, <1>6, SeenFinish DEF Acquire, files, mine
  <2>2. CASE ~Finish(c, "failed")
    <3>1. /\ pc[c] = "lock" /\ dir = "private"
          /\ pc'[c] = IF op[c] = "load" THEN "stat"
                       ELSE IF op[c] = "import" THEN "inspect" ELSE "remove"
          /\ \A x \in Calls : x # c => pc'[x] = pc[x]
          /\ op' = op /\ UNCHANGED <<dir, path, during, got, disk, published>>
      BY <2>2, <1>6 DEF Acquire, TypeOK, files, mine
    <3>2. CASE op[c] = "load"
      <4>1. Loading(c) /\ pc'[c] = "stat" /\ dir # "open"
        BY <3>1, <3>2 DEF Loading, Running
      <4>. QED BY <3>1, <4>1, SeenStep
    <3>3. CASE op[c] # "load"
      BY <3>1, <3>3, SeenKeep DEF Loading, Running
    <3>. QED BY <3>2, <3>3
  <2>. QED BY <2>1, <2>2
<1>7. ASSUME NEW c \in Calls, Stat(c) PROVE SeenInv'
  <2>1. CASE path = NoFile \/ disk[path] = "exposed"
    BY <2>1, <1>7, SeenFinish DEF Stat, files, mine
  <2>2. CASE ~(path = NoFile \/ disk[path] = "exposed")
    <3>1. pc[c] = "stat" /\ Goto(c, "openFile") /\ got' = [got EXCEPT ![c] = path]
          /\ op' = op /\ UNCHANGED <<dir, path, during, disk, published>>
      BY <2>2, <1>7 DEF Stat, files, mine
    <3>2. Loading(c)
      BY <3>1 DEF KindInv, Reading, Loading, Running
    <3>3. /\ path \in Calls => path \in published
          /\ path = Original => disk[Original] \in {"good", "bad"}
      BY <2>2 DEF PublishInv, OriginalInv
    <3>4. got'[c] = path /\ \A x \in Calls : x # c => got'[x] = got[x]
      BY <3>1 DEF TypeOK
    <3>5. pc'[c] = "openFile" /\ \A x \in Calls : x # c => pc'[x] = pc[x]
      BY <3>1, GotoMoves
    <3>. QED BY <2>2, <3>1, <3>2, <3>3, <3>4, <3>5, SeenStep
  <2>. QED BY <2>1, <2>2
<1>8. ASSUME NEW c \in Calls, OpenFile(c) PROVE SeenInv'
  <2>1. CASE path = NoFile \/ path # got[c]
    BY <2>1, <1>8, SeenFinish DEF OpenFile, files, mine
  <2>2. CASE ~(path = NoFile \/ path # got[c])
    <3>1. pc[c] = "openFile" /\ Goto(c, "read") /\ got' = got
          /\ op' = op /\ UNCHANGED <<dir, path, during, disk, published>>
      BY <2>2, <1>8 DEF OpenFile, files, mine
    <3>2. Loading(c)
      BY <3>1 DEF KindInv, Reading, Loading, Running
    <3>3. pc'[c] = "read" /\ \A x \in Calls : x # c => pc'[x] = pc[x]
      BY <3>1, GotoMoves
    <3>. QED BY <3>1, <3>2, <3>3, SeenStep
  <2>. QED BY <2>1, <2>2
<1>9. ASSUME NEW c \in Calls, Read(c) PROVE SeenInv'
  BY <1>9, SeenFinish, SeenGoto DEF Read, files, mine, Running
<1>10. ASSUME NEW c \in Calls, Inspect(c) PROVE SeenInv'
  BY <1>10, SeenFinish, SeenGoto DEF Inspect, files, mine, Running
<1>11. ASSUME NEW c \in Calls, CreateTemp(c) PROVE SeenInv'
  <2>1. disk'[Original] = disk[Original]
    BY <1>11, NamesAssumption DEF CreateTemp, TypeOK, Files
  <2>. QED BY <2>1, <1>11, SeenGoto DEF CreateTemp, mine, Running
<1>12. ASSUME NEW c \in Calls, Write(c) PROVE SeenInv'
  <2>1. disk'[Original] = disk[Original]
    BY <1>12, NamesAssumption DEF Write, TypeOK, Files
  <2>. QED BY <2>1, <1>12, SeenGoto DEF Write, mine, Running
<1>13. ASSUME NEW c \in Calls, Sync(c) PROVE SeenInv'
  <2>1. disk'[Original] = disk[Original]
    BY <1>13, NamesAssumption DEF Sync, TypeOK, Files
  <2>. QED BY <2>1, <1>13, SeenGoto DEF Sync, mine, Running
<1>14. ASSUME NEW c \in Calls, Commit(c) PROVE SeenInv'
  BY <1>14, SeenGoto, SeenAbandon DEF Commit, files, mine, Running
<1>15. ASSUME NEW c \in Calls, Rename(c) PROVE SeenInv'
  <2>1. /\ pc[c] = "rename" /\ Witness(dir', path') /\ path' = c
        /\ op' = op /\ UNCHANGED <<got, disk>> /\ published \subseteq published'
    BY <1>15 DEF Rename, Publish, mine
  <2>2. \A x \in Calls : (pc'[x] = "cleanup" /\ x = c) \/ pc'[x] = pc[x]
    BY <1>15 DEF Rename, TypeOK
  <2>3. \A x \in Calls : pc[x] = "openFile" => ProcOf[x] # ProcOf[c]
    BY <2>1 DEF MutexInv, Locked
  <2>. QED BY <2>1, <2>2, <2>3, SeenWitness DEF Loading, Running
<1>16. ASSUME NEW c \in Calls, Cleanup(c) PROVE SeenInv'
  <2>1. Finish(c, outcome[c]) /\ op' = op
        /\ UNCHANGED <<dir, path, during, got, disk, published>>
    BY <1>16 DEF Cleanup, mine
  <2>. QED BY <2>1, SeenFinish
<1>17. ASSUME NEW c \in Calls, Remove(c) PROVE SeenInv'
  <2>1. /\ Finish(c, "removed") /\ Witness(dir', path') /\ path' = NoFile
        /\ op' = op /\ UNCHANGED <<got, disk, published>>
    BY <1>17 DEF Remove, mine
  <2>2. \A x \in Calls : (pc'[x] = "done" /\ x = c) \/ pc'[x] = pc[x]
    BY <2>1, FinishMoves
  <2>. QED BY <2>1, <2>2, SeenWitness DEF Loading, Running
<1>18. ASSUME NEW c \in Calls, Fail(c) PROVE SeenInv'
  BY <1>18, SeenFinish, SeenAbandon DEF Fail, files, mine, Running
<1>19. ASSUME NEW c \in Calls, CancelContext(c) PROVE SeenInv'
  BY <1>19, SeenKeep DEF CancelContext, files, Loading, Running
<1>20. ASSUME NEW p \in Procs, Kill(p) PROVE SeenInv'
  <2>1. \A x \in Calls : pc'[x] = "dead" \/ pc'[x] = pc[x]
    BY <1>20 DEF Kill, Stop
  <2>2. \A x \in Calls : pc'[x] # "dead" => got'[x] = got[x] /\ during'[x] = during[x]
    BY <1>20 DEF Kill, Stop
  <2>3. UNCHANGED <<op, dir, path, disk, published>>
    BY <1>20 DEF Kill, Stop
  <2>. QED BY <2>1, <2>2, <2>3 DEF SeenInv, SeenBy, Closed, Loading, Running
<1>21. ASSUME Flush PROVE SeenInv'
  BY <1>21, SeenKeep DEF Flush, mine, Loading, Running
<1>22. ASSUME PowerLoss PROVE SeenInv'
  <2>1. \A x \in Calls : pc'[x] \in {"idle", "done", "dead"}
    BY <1>22, ProcsAssumption DEF PowerLoss, Stop, Running
  <2>. QED BY <2>1 DEF SeenInv, Loading, Running
<1>23. ASSUME ChmodDir PROVE SeenInv'
  <2>1. UNCHANGED <<pc, op, got, path, disk, published>> /\ Witness(dir', path')
    BY <1>23 DEF ChmodDir, files, mine
  <2>. QED BY <2>1, SeenWitness DEF Loading, Running
<1>24. CASE UNCHANGED vars
  BY <1>24, SeenKeep DEF vars, files, mine, Loading, Running
<1>. QED BY <1>1, <1>2, <1>3, <1>4, <1>5, <1>6, <1>7, <1>8, <1>9, <1>10,
              <1>11, <1>12, <1>13, <1>14, <1>15, <1>16, <1>17, <1>18, <1>19,
              <1>20, <1>21, <1>22, <1>23, <1>24 DEF Next, Step

-----------------------------------------------------------------------------
(* What a call reports. *)

\* What was told stays so; the step itself tells what is so.
LEMMA LoadKeep ==
  ASSUME LoadInv, disk'[Original] = disk[Original],
         \A x \in Calls : pc[x] = "done" => during'[x] = during[x] /\ got'[x] = got[x],
         \A x \in Calls : pc'[x] \in {"done", "cleanup"} =>
           pc'[x] = pc[x] /\ outcome'[x] = outcome[x]
  PROVE  LoadInv'
BY DEF LoadInv, Told, SeenBy, Closed

LEMMA LoadFinish ==
  ASSUME TypeOK, LoadInv, NEW c \in Calls, NEW o, Finish(c, o), Told(c, o),
         UNCHANGED <<during, got>>, disk'[Original] = disk[Original]
  PROVE  LoadInv'
<1>1. \A x \in Calls : pc'[x] = "done" => Told(x, outcome'[x])
  BY FinishMoves DEF LoadInv
<1>2. \A x \in Calls : pc'[x] = "cleanup" => outcome'[x] \in {"failed", "saved"}
  BY FinishMoves DEF LoadInv
<1>. QED BY <1>1, <1>2 DEF LoadInv, Told, SeenBy, Closed

LEMMA LoadGoto ==
  ASSUME TypeOK, LoadInv, NEW c \in Calls, NEW step, Goto(c, step), Running(c),
         step \notin {"done", "cleanup"}, disk'[Original] = disk[Original],
         \A x \in Calls : pc[x] = "done" => during'[x] = during[x] /\ got'[x] = got[x]
  PROVE  LoadInv'
BY GotoMoves, LoadKeep

LEMMA LoadAbandon ==
  ASSUME TypeOK, LoadInv, NEW c \in Calls, Abandon(c), UNCHANGED <<during, got, disk>>
  PROVE  LoadInv'
<1>1. /\ pc'[c] = "cleanup" /\ outcome'[c] = "failed"
      /\ \A x \in Calls : x # c => pc'[x] = pc[x] /\ outcome'[x] = outcome[x]
  BY DEF Abandon, TypeOK
<1>. QED BY <1>1 DEF LoadInv, Told, SeenBy, Closed

\* A call reports what was so.
LEMMA LoadNext == TypeOK /\ KindInv /\ DirInv /\ PublishInv /\ OriginalInv
        /\ SeenInv /\ LoadInv /\ [Next]_vars => LoadInv'
<1> SUFFICES ASSUME TypeOK, KindInv, DirInv, PublishInv, OriginalInv, SeenInv, LoadInv,
             [Next]_vars PROVE LoadInv'
  OBVIOUS
<1>1. ASSUME NEW c \in Calls, NEW o \in {"load", "import", "delete"}, Begin(c, o) PROVE LoadInv'
  <2>1. /\ pc[c] = "idle" /\ pc'[c] \in {"source", "findDir", "open"}
        /\ \A x \in Calls : x # c => pc'[x] = pc[x] /\ during'[x] = during[x]
    BY <1>1 DEF Begin, FirstStep, TypeOK
  <2>2. UNCHANGED <<outcome, got, disk>>
    BY <1>1 DEF Begin, files
  <2>. QED BY <2>1, <2>2, LoadKeep
<1>2. ASSUME NEW c \in Calls, ReadSource(c) PROVE LoadInv'
  <2>1. Told(c, "failed")
    BY DEF Told
  <2>. QED BY <2>1, <1>2, LoadFinish, LoadGoto DEF ReadSource, files, Running
<1>3. ASSUME NEW c \in Calls, FindDir(c) PROVE LoadInv'
  <2>1. pc[c] = "findDir" /\ Loading(c)
    BY <1>3 DEF FindDir, KindInv, Reading, Loading, Running
  <2>2. {dir, path} \subseteq during[c]
    BY <2>1 DEF SeenInv
  <2>3. Told(c, "failed") /\ path \in SeenBy(c)
    BY <2>2 DEF Told, SeenBy, TypeOK
  <2>4. dir = "absent" => Told(c, "missing")
    BY <2>2, <2>3 DEF DirInv, Told, Closed
  <2>. QED BY <2>1, <2>3, <2>4, <1>3, LoadFinish, LoadGoto DEF FindDir, files, Running
<1>4. ASSUME NEW c \in Calls, FindFile(c) PROVE LoadInv'
  <2>1. pc[c] = "findFile" /\ Loading(c)
    BY <1>4 DEF FindFile, KindInv, Reading, Loading, Running
  <2>2. {dir, path} \subseteq during[c]
    BY <2>1 DEF SeenInv
  <2>3. Told(c, "failed") /\ path \in SeenBy(c)
    BY <2>2 DEF Told, SeenBy, TypeOK
  <2>4. path = NoFile => Told(c, "missing")
    BY <2>1, <2>3 DEF SeenInv, Told
  <2>. QED BY <2>1, <2>3, <2>4, <1>4, LoadFinish, LoadGoto DEF FindFile, files, Running
<1>5. ASSUME NEW c \in Calls, OpenStore(c) PROVE LoadInv'
  <2>1. pc[c] = "open" /\ (Goto(c, "lock") \/ Finish(c, "failed"))
    BY <1>5 DEF OpenStore
  <2>2. \A x \in Calls : pc[x] = "done" => during'[x] = during[x] /\ got'[x] = got[x]
    BY <1>5 DEF OpenStore, Witness, Loading, Running
  <2>3. UNCHANGED <<got, disk>>
    BY <1>5 DEF OpenStore, files
  <2>4. CASE Goto(c, "lock")
    BY <2>1, <2>2, <2>3, <2>4, LoadGoto DEF Running
  <2>5. CASE Finish(c, "failed")
    BY <2>2, <2>3, <2>5, FinishMoves DEF LoadInv, Told, SeenBy, Closed
  <2>. QED BY <2>1, <2>4, <2>5
<1>6. ASSUME NEW c \in Calls, Acquire(c) PROVE LoadInv'
  <2>1. CASE Finish(c, "failed")
    <3>1. Told(c, "failed")
      BY DEF Told
    <3>. QED BY <2>1, <3>1, <1>6, LoadFinish DEF Acquire, files
  <2>2. CASE ~Finish(c, "failed")
    <3>1. /\ pc'[c] \in {"stat", "inspect", "remove"}
          /\ \A x \in Calls : x # c => pc'[x] = pc[x]
      BY <2>2, <1>6 DEF Acquire, TypeOK
    <3>. QED BY <2>2, <3>1, <1>6, LoadKeep DEF Acquire, files
  <2>. QED BY <2>1, <2>2
<1>7. ASSUME NEW c \in Calls, Stat(c) PROVE LoadInv'
  <2>1. pc[c] = "stat" /\ Loading(c)
    BY <1>7 DEF Stat, KindInv, Reading, Loading, Running
  <2>2. {dir, path} \subseteq during[c]
    BY <2>1 DEF SeenInv
  <2>3. Told(c, "failed") /\ path \in SeenBy(c)
    BY <2>2 DEF Told, SeenBy, TypeOK
  <2>4. path = NoFile => Told(c, "missing")
    BY <2>1, <2>3 DEF SeenInv, Told
  <2>5. CASE path = NoFile \/ disk[path] = "exposed"
    BY <2>3, <2>4, <2>5, <1>7, LoadFinish DEF Stat, files
  <2>6. CASE ~(path = NoFile \/ disk[path] = "exposed")
    <3>1. Goto(c, "openFile") /\ got' = [got EXCEPT ![c] = path] /\ UNCHANGED <<during, disk>>
      BY <2>6, <1>7 DEF Stat, files
    <3>2. \A x \in Calls : pc[x] = "done" => during'[x] = during[x] /\ got'[x] = got[x]
      BY <2>1, <3>1 DEF TypeOK
    <3>. QED BY <2>1, <3>1, <3>2, LoadGoto DEF Running
  <2>. QED BY <2>5, <2>6
<1>8. ASSUME NEW c \in Calls, OpenFile(c) PROVE LoadInv'
  <2>1. pc[c] = "openFile" /\ Loading(c)
    BY <1>8 DEF OpenFile, KindInv, Reading, Loading, Running
  <2>2. {dir, path} \subseteq during[c]
    BY <2>1 DEF SeenInv
  <2>3. Told(c, "failed") /\ path \in SeenBy(c)
    BY <2>2 DEF Told, SeenBy, TypeOK
  <2>4. path \notin {got[c], NoFile} => Told(c, "moved")
    BY <2>1, <2>3 DEF SeenInv, Told
  <2>. QED BY <2>1, <2>3, <2>4, <1>8, LoadFinish, LoadGoto DEF OpenFile, files, Running
<1>9. ASSUME NEW c \in Calls, Read(c) PROVE LoadInv'
  <2>1. /\ got[c] \in SeenBy(c) /\ got[c] # NoFile
        /\ got[c] \in Calls => got[c] \in published
    BY <1>9 DEF Read, SeenInv
  <2>2. got[c] \in Calls \cup {Original}
    BY <2>1 DEF TypeOK, Paths, Files
  <2>3. disk[got[c]] # "good" => got[c] = Original
    BY <2>1, <2>2 DEF PublishInv
  <2>4. got[c] = Original /\ disk[got[c]] # "good" => disk[Original] = "bad"
    BY <1>9 DEF Read, SeenInv
  <2>5. disk[got[c]] # "good" => Told(c, "rejected")
    BY <2>1, <2>3, <2>4 DEF Told
  <2>6. Told(c, "failed") /\ Told(c, "loaded")
    BY <2>1 DEF Told
  <2>. QED BY <2>5, <2>6, <1>9, LoadFinish DEF Read, files
<1>10. ASSUME NEW c \in Calls, Inspect(c) PROVE LoadInv'
  <2>1. Told(c, "failed")
    BY DEF Told
  <2>. QED BY <2>1, <1>10, LoadFinish, LoadGoto DEF Inspect, files, Running
<1>11. ASSUME NEW c \in Calls, CreateTemp(c) PROVE LoadInv'
  <2>1. disk'[Original] = disk[Original]
    BY <1>11, NamesAssumption DEF CreateTemp, TypeOK, Files
  <2>. QED BY <2>1, <1>11, LoadGoto DEF CreateTemp, mine, Running
<1>12. ASSUME NEW c \in Calls, Write(c) PROVE LoadInv'
  <2>1. disk'[Original] = disk[Original]
    BY <1>12, NamesAssumption DEF Write, TypeOK, Files
  <2>. QED BY <2>1, <1>12, LoadGoto DEF Write, mine, Running
<1>13. ASSUME NEW c \in Calls, Sync(c) PROVE LoadInv'
  <2>1. disk'[Original] = disk[Original]
    BY <1>13, NamesAssumption DEF Sync, TypeOK, Files
  <2>. QED BY <2>1, <1>13, LoadGoto DEF Sync, mine, Running
<1>14. ASSUME NEW c \in Calls, Commit(c) PROVE LoadInv'
  BY <1>14, LoadGoto, LoadAbandon DEF Commit, files, Running
<1>15. ASSUME NEW c \in Calls, Rename(c) PROVE LoadInv'
  <2>1. /\ pc'[c] = "cleanup" /\ outcome'[c] = "saved" /\ pc[c] = "rename"
        /\ \A x \in Calls : x # c => pc'[x] = pc[x] /\ outcome'[x] = outcome[x]
    BY <1>15 DEF Rename, TypeOK
  <2>2. \A x \in Calls : pc[x] = "done" => during'[x] = during[x]
    BY <1>15 DEF Rename, Publish, Witness, Loading, Running
  <2>3. UNCHANGED <<got, disk>>
    BY <1>15 DEF Rename
  <2>. QED BY <2>1, <2>2, <2>3 DEF LoadInv, Told, SeenBy, Closed
<1>16. ASSUME NEW c \in Calls, Cleanup(c) PROVE LoadInv'
  <2>1. outcome[c] \in {"failed", "saved"}
    BY <1>16 DEF Cleanup, LoadInv
  <2>2. Told(c, outcome[c])
    BY <2>1 DEF Told
  <2>. QED BY <2>2, <1>16, LoadFinish DEF Cleanup
<1>17. ASSUME NEW c \in Calls, Remove(c) PROVE LoadInv'
  <2>1. pc'[c] = "done" /\ outcome'[c] = "removed" /\ pc[c] = "remove"
        /\ \A x \in Calls : x # c => pc'[x] = pc[x] /\ outcome'[x] = outcome[x]
    BY <1>17, FinishMoves DEF Remove
  <2>2. \A x \in Calls : pc[x] = "done" => during'[x] = during[x]
    BY <1>17 DEF Remove, Witness, Loading, Running
  <2>3. UNCHANGED <<got, disk>>
    BY <1>17 DEF Remove
  <2>. QED BY <2>1, <2>2, <2>3 DEF LoadInv, Told, SeenBy, Closed
<1>18. ASSUME NEW c \in Calls, Fail(c) PROVE LoadInv'
  <2>1. Told(c, "failed")
    BY DEF Told
  <2>. QED BY <2>1, <1>18, LoadFinish, LoadAbandon DEF Fail, files
<1>19. ASSUME NEW c \in Calls, CancelContext(c) PROVE LoadInv'
  BY <1>19, LoadKeep DEF CancelContext, files
<1>20. ASSUME NEW p \in Procs, Kill(p) PROVE LoadInv'
  <2>1. \A x \in Calls : pc'[x] = "dead" \/ pc'[x] = pc[x]
    BY <1>20 DEF Kill, Stop
  <2>2. \A x \in Calls : pc[x] = "done" => got'[x] = got[x] /\ during'[x] = during[x]
    BY <1>20 DEF Kill, Stop, Running
  <2>. QED BY <2>1, <2>2, <1>20, LoadKeep DEF Kill, Stop
<1>21. ASSUME Flush PROVE LoadInv'
  BY <1>21, LoadKeep DEF Flush
<1>22. ASSUME PowerLoss PROVE LoadInv'
  <2>1. \A x \in Calls : pc'[x] = "dead" \/ pc'[x] = pc[x]
    BY <1>22 DEF PowerLoss, Stop
  <2>2. disk'[Original] = disk[Original]
    BY <1>22 DEF PowerLoss, OriginalInv, Files
  <2>3. \A x \in Calls : pc[x] = "done" => got'[x] = got[x] /\ during'[x] = during[x]
    BY <1>22 DEF PowerLoss, Stop, Running
  <2>. QED BY <2>1, <2>2, <2>3, <1>22, LoadKeep DEF PowerLoss, Stop
<1>23. ASSUME ChmodDir PROVE LoadInv'
  <2>1. \A x \in Calls : pc[x] = "done" => during'[x] = during[x]
    BY <1>23 DEF ChmodDir, Witness, Loading, Running
  <2>. QED BY <2>1, <1>23, LoadKeep DEF ChmodDir, files
<1>24. CASE UNCHANGED vars
  BY <1>24, LoadKeep DEF vars, files
<1>. QED BY <1>1, <1>2, <1>3, <1>4, <1>5, <1>6, <1>7, <1>8, <1>9, <1>10,
              <1>11, <1>12, <1>13, <1>14, <1>15, <1>16, <1>17, <1>18, <1>19,
              <1>20, <1>21, <1>22, <1>23, <1>24 DEF Next, Step

-----------------------------------------------------------------------------
(* The properties. *)

LEMMA IInvInit == Init => IInv
<1> SUFFICES ASSUME Init PROVE IInv
  OBVIOUS
<1>1. MutexInv /\ KindInv /\ TempInv
  BY DEF Init, Entries, MutexInv, KindInv, TempInv, Locked, Reading
<1>2. DirInv
  BY DEF Init, Entries, DirInv, Locked
<1>3. path \in {NoFile, Original} /\ durable.path = path /\ published = {}
  BY DEF Init, Entries
<1>4. PublishInv
  BY <1>3, NamesAssumption DEF Init, PublishInv
<1>5. OriginalInv
  <2>1. Original # NoFile /\ Original \in Files
    BY NamesAssumption DEF Files
  <2>2. PICK original \in {"none", "good", "bad", "exposed"} :
          /\ disk = [f \in Files |-> IF f = Original THEN original ELSE "none"]
          /\ path = IF original = "none" THEN NoFile ELSE Original
    BY DEF Init
  <2>3. disk[Original] = original
    BY <2>1, <2>2
  <2>. QED BY <1>3, <2>1, <2>2, <2>3 DEF OriginalInv
<1>6. SeenInv /\ LoadInv
  BY DEF Init, SeenInv, LoadInv, Loading, Running
<1>. QED BY <1>1, <1>2, <1>4, <1>5, <1>6 DEF IInv

LEMMA IInvNext == TypeOK /\ IInv /\ [Next]_vars => IInv'
BY MutexNext, KindNext, DirNext, PublishNext, TempNext, OriginalNext, SeenNext, LoadNext
   DEF IInv

LEMMA Invariant == Spec => [](TypeOK /\ IInv)
<1>1. Init => TypeOK /\ IInv
  BY TypeInit, IInvInit
<1>2. TypeOK /\ IInv /\ [Next]_vars => TypeOK' /\ IInv'
  BY TypeNext, IInvNext
<1>. QED BY <1>1, <1>2, PTL DEF Spec

\* What an import put in place is whole, also after a power loss: what the
\* path may name was published, and only what was synced is published.
THEOREM WholeImports == Spec => []ImportsAreWhole
<1>1. TypeOK /\ IInv => ImportsAreWhole
  BY DEF IInv, PublishInv, ImportsAreWhole
<1>. QED BY <1>1, Invariant, PTL

\* An import that reports success was in place, one that fails never was.
THEOREM TrueReports == Spec => []ImportReportIsTrue
<1>1. TypeOK /\ IInv => ImportReportIsTrue
  BY DEF IInv, PublishInv, ImportReportIsTrue
<1>. QED BY <1>1, Invariant, PTL

\* No call comes to have ended beside its temporary file.
NoneLeft ==
  \A x \in Calls : pc'[x] = "done" /\ x \in temps' =>
    pc[x] = "done" /\ outcome'[x] = outcome[x] /\ x \in temps

LEMMA LeftFinish ==
  ASSUME TypeOK, TempInv, NEW c \in Calls, NEW o, Finish(c, o), UNCHANGED temps,
         pc[c] \notin Later
  PROVE  NoneLeft
BY FinishMoves DEF TempInv, NoneLeft

\* A step after which no call has ended that had not.
LEMMA LeftGoesOn ==
  ASSUME UNCHANGED outcome, temps' \subseteq temps,
         \A x \in Calls : pc'[x] = "done" => pc[x] = "done"
  PROVE  NoneLeft
BY DEF NoneLeft

LEMMA LeftGoto ==
  ASSUME TypeOK, NEW c \in Calls, NEW step, Goto(c, step), step # "done", UNCHANGED temps
  PROVE  NoneLeft
BY GotoMoves, LeftGoesOn

LEMMA LeftAbandon ==
  ASSUME TypeOK, NEW c \in Calls, Abandon(c), UNCHANGED temps
  PROVE  NoneLeft
BY DEF TypeOK, Abandon, NoneLeft

\* Only a power loss brings back what a call had removed.
LEMMA LeftNext == TypeOK /\ TempInv /\ [Next]_vars => NoneLeft \/ PowerLoss
<1> SUFFICES ASSUME TypeOK, TempInv, [Next]_vars, ~PowerLoss PROVE NoneLeft
  OBVIOUS
<1> USE DEF Later, files
<1>1. ASSUME NEW c \in Calls, NEW o \in {"load", "import", "delete"}, Begin(c, o) PROVE NoneLeft
  <2>1. \A x \in Calls : pc'[x] = "done" => pc[x] = "done"
    BY <1>1 DEF Begin, FirstStep, TypeOK
  <2>. QED BY <2>1, <1>1, LeftGoesOn DEF Begin
<1>2. ASSUME NEW c \in Calls, ReadSource(c) PROVE NoneLeft
  BY <1>2, LeftFinish, LeftGoto DEF ReadSource
<1>3. ASSUME NEW c \in Calls, FindDir(c) PROVE NoneLeft
  BY <1>3, LeftFinish, LeftGoto DEF FindDir
<1>4. ASSUME NEW c \in Calls, FindFile(c) PROVE NoneLeft
  BY <1>4, LeftFinish, LeftGoto DEF FindFile
<1>5. ASSUME NEW c \in Calls, OpenStore(c) PROVE NoneLeft
  BY <1>5, LeftFinish, LeftGoto DEF OpenStore
<1>6. ASSUME NEW c \in Calls, Acquire(c) PROVE NoneLeft
  <2>1. CASE Finish(c, "failed")
    BY <2>1, <1>6, LeftFinish DEF Acquire
  <2>2. CASE ~Finish(c, "failed")
    <3>1. \A x \in Calls : pc'[x] = "done" => pc[x] = "done"
      BY <2>2, <1>6 DEF Acquire, TypeOK
    <3>. QED BY <2>2, <3>1, <1>6, LeftGoesOn DEF Acquire
  <2>. QED BY <2>1, <2>2
<1>7. ASSUME NEW c \in Calls, Stat(c) PROVE NoneLeft
  BY <1>7, LeftFinish, LeftGoto DEF Stat
<1>8. ASSUME NEW c \in Calls, OpenFile(c) PROVE NoneLeft
  BY <1>8, LeftFinish, LeftGoto DEF OpenFile
<1>9. ASSUME NEW c \in Calls, Read(c) PROVE NoneLeft
  BY <1>9, LeftFinish DEF Read
<1>10. ASSUME NEW c \in Calls, Inspect(c) PROVE NoneLeft
  BY <1>10, LeftFinish, LeftGoto DEF Inspect
<1>11. ASSUME NEW c \in Calls, CreateTemp(c) PROVE NoneLeft
  BY <1>11, GotoMoves DEF CreateTemp, NoneLeft
<1>12. ASSUME NEW c \in Calls, Write(c) PROVE NoneLeft
  BY <1>12, LeftGoto DEF Write
<1>13. ASSUME NEW c \in Calls, Sync(c) PROVE NoneLeft
  BY <1>13, LeftGoto DEF Sync
<1>14. ASSUME NEW c \in Calls, Commit(c) PROVE NoneLeft
  BY <1>14, LeftGoto, LeftAbandon DEF Commit
<1>15. ASSUME NEW c \in Calls, Rename(c) PROVE NoneLeft
  BY <1>15 DEF Rename, Publish, NoneLeft, TypeOK
<1>16. ASSUME NEW c \in Calls, Cleanup(c) PROVE NoneLeft
  BY <1>16, FinishMoves DEF Cleanup, NoneLeft
<1>17. ASSUME NEW c \in Calls, Remove(c) PROVE NoneLeft
  BY <1>17, LeftFinish DEF Remove
<1>18. ASSUME NEW c \in Calls, Fail(c) PROVE NoneLeft
  BY <1>18, LeftFinish, LeftAbandon DEF Fail
<1>19. ASSUME NEW c \in Calls, CancelContext(c) PROVE NoneLeft
  BY <1>19, LeftGoesOn DEF CancelContext
<1>20. ASSUME NEW p \in Procs, Kill(p) PROVE NoneLeft
  BY <1>20, LeftGoesOn DEF Kill, Stop
<1>21. ASSUME Flush PROVE NoneLeft
  BY <1>21, LeftGoesOn DEF Flush
<1>22. ASSUME ChmodDir PROVE NoneLeft
  BY <1>22, LeftGoesOn DEF ChmodDir
<1>23. CASE UNCHANGED vars
  BY <1>23, LeftGoesOn DEF vars
<1>. QED BY <1>1, <1>2, <1>3, <1>4, <1>5, <1>6, <1>7, <1>8, <1>9, <1>10,
              <1>11, <1>12, <1>13, <1>14, <1>15, <1>16, <1>17, <1>18, <1>19,
              <1>20, <1>21, <1>22, <1>23 DEF Next, Step

\* A failed import has removed its copy of the document: only a power loss that
\* undoes the removal leaves it beside a call that ended so.
THEOREM NoTempAfterFailure == Spec => NoTempLeft
<1>1. NoneLeft => \A c \in Calls : LeftBehind(c)' => LeftBehind(c)
  BY DEF NoneLeft, LeftBehind, Ended
<1>2. TypeOK /\ IInv /\ [Next]_vars
        => [\A c \in Calls : LeftBehind(c)' /\ ~LeftBehind(c) => PowerLoss]_vars
  BY <1>1, LeftNext DEF IInv
<1>. QED BY <1>2, Invariant, PTL DEF Spec, NoTempLeft

\* A load refuses the content only of a file that was bad from the start.
THEOREM NoTornReads == Spec => []NoTornRead
<1>1. TypeOK /\ IInv => NoTornRead
  BY DEF IInv, LoadInv, Told, NoTornRead, Ended
<1>. QED BY <1>1, Invariant, PTL

\* A load returns a file that was in place while it ran.
THEOREM LoadsAreCurrent == Spec => []LoadedWasStored
<1>1. TypeOK /\ IInv => LoadedWasStored
  BY DEF IInv, LoadInv, Told, LoadedWasStored, Ended
<1>. QED BY <1>1, Invariant, PTL

\* The default is selected only when there was no file to select instead.
THEOREM DefaultIsHonest == Spec => []DefaultOnlyIfMissing
<1>1. TypeOK /\ IInv => DefaultOnlyIfMissing
  BY DEF IInv, LoadInv, Told, DefaultOnlyIfMissing, Ended
<1>. QED BY <1>1, Invariant, PTL

\* Only another process can make a load miss the file that it looked at.
THEOREM LockShields == Spec => []LockShieldsReaders
<1>1. TypeOK /\ IInv => LockShieldsReaders
  BY DEF IInv, LoadInv, Told, LockShieldsReaders, Ended
<1>. QED BY <1>1, Invariant, PTL

-----------------------------------------------------------------------------
(* The refinement: an abstract configuration for each state, and an abstract *)
(* step or a stutter for each step.                                          *)

\* What the path names, or may name again, is a whole document.
LEMMA Whole ==
  ASSUME TypeOK, IInv
  PROVE  Document(path) = path /\ Document(durable.path) = durable.path
<1>1. \A f \in {path, durable.path} : Document(f) = f
  BY DEF IInv, PublishInv, Document
<1>. QED BY <1>1

LEMMA WholeNext ==
  ASSUME TypeOK', IInv'
  PROVE  Document(path)' = path' /\ Document(durable.path)' = durable.path'
<1>1. \A f \in {path', durable'.path} : Document(f)' = f
  BY DEF IInv, PublishInv, Document
<1>. QED BY <1>1

LEMMA Unmoved ==
  ASSUME NEW c \in Calls, pc'[c] = pc[c], op'[c] = op[c], got'[c] = got[c],
         outcome'[c] = outcome[c], c \in published' <=> c \in published
  PROVE  TakenBy(c)' = TakenBy(c) /\ ReportOf(c)' = ReportOf(c)
BY DEF TakenBy, ReportOf, Ended

\* Only call c moves, and the file in force stays or is as given.
Alone(c) == \A d \in Calls \ {c} : TakenBy(d)' = TakenBy(d) /\ ReportOf(d)' = ReportOf(d)

LEMMA AloneMaps ==
  ASSUME NEW c \in Calls, Alone(c)
  PROVE  /\ [d \in Calls |-> TakenBy(d)]' = [[d \in Calls |-> TakenBy(d)] EXCEPT ![c] = TakenBy(c)']
         /\ [d \in Calls |-> ReportOf(d)]' = [[d \in Calls |-> ReportOf(d)] EXCEPT ![c] = ReportOf(c)']
BY DEF Alone

\* The steps that leave the abstract state as it is.
LEMMA MapsToStutter ==
  ASSUME TypeOK, IInv, TypeOK', IInv', NEW c \in Calls, Alone(c),
         TakenBy(c)' = TakenBy(c), ReportOf(c)' = ReportOf(c),
         path' = path, durable' = durable
  PROVE  UNCHANGED Contract!vars
<1>1. /\ [d \in Calls |-> TakenBy(d)]' = [d \in Calls |-> TakenBy(d)]
      /\ [d \in Calls |-> ReportOf(d)]' = [d \in Calls |-> ReportOf(d)]
  BY DEF Alone
<1>. QED BY <1>1, Whole, WholeNext DEF Contract!vars

\* A step of one call maps to the abstract step of what it does to the
\* configuration in force, to what the call took and to what it reports.
LEMMA MapsToStep ==
  ASSUME TypeOK, IInv, TypeOK', IInv', NEW c \in Calls, Alone(c)
  PROVE  /\ /\ ReportOf(c) = "idle" /\ ReportOf(c)' = "open"
            /\ TakenBy(c)' = TakenBy(c) /\ path' = path /\ durable' = durable
            => Contract!Call(c)
         /\ /\ ReportOf(c) = "open" /\ ReportOf(c)' = "open" /\ path # NoFile
            /\ TakenBy(c) = {} /\ TakenBy(c)' = {path} /\ path' = path /\ durable' = durable
            => Contract!Take(c)
         /\ /\ ReportOf(c) = "open" /\ ReportOf(c)' = "loaded"
            /\ TakenBy(c) \notin {{}, {c}} /\ TakenBy(c)' = TakenBy(c)
            /\ path' = path /\ durable' = durable
            => Contract!Loaded(c)
         /\ /\ ReportOf(c) = "open" /\ ReportOf(c)' = "missing" /\ path = NoFile
            /\ TakenBy(c) = {} /\ TakenBy(c)' = {} /\ path' = path /\ durable' = durable
            => Contract!Missing(c)
         /\ /\ ReportOf(c) = "open" /\ ReportOf(c)' = "open"
            /\ TakenBy(c) = {} /\ TakenBy(c)' = {c}
            /\ path' = c /\ durable' = durable
            => Contract!Put(c)
         /\ /\ ReportOf(c) = "open" /\ ReportOf(c)' = "saved"
            /\ TakenBy(c) = {c} /\ TakenBy(c)' = TakenBy(c)
            /\ path' = path /\ durable' = durable
            => Contract!Saved(c)
         /\ /\ ReportOf(c) = "open" /\ ReportOf(c)' = "removed"
            /\ TakenBy(c) = {} /\ TakenBy(c)' = {}
            /\ path' = NoFile /\ durable' = durable
            => Contract!Remove(c)
         /\ /\ ReportOf(c) = "open" /\ ReportOf(c)' = "refused"
            /\ TakenBy(c) # {c} /\ TakenBy(c)' = {}
            /\ path' = path /\ durable' = durable
            => Contract!Refuse(c)
<1> DEFINE taken  == [d \in Calls |-> TakenBy(d)]
           report == [d \in Calls |-> ReportOf(d)]
<1>1. /\ taken' = [taken EXCEPT ![c] = TakenBy(c)'] /\ taken[c] = TakenBy(c)
      /\ report' = [report EXCEPT ![c] = ReportOf(c)'] /\ report[c] = ReportOf(c)
  BY AloneMaps
<1>2. TakenBy(c)' = TakenBy(c) => taken' = taken
  BY <1>1
<1>3. ReportOf(c)' = ReportOf(c) => report' = report
  BY <1>1
<1>4. /\ Document(path) = path /\ Document(durable.path) = durable.path
      /\ Document(path)' = path' /\ Document(durable.path)' = durable.path'
  BY Whole, WholeNext
<1>. QED
  BY <1>1, <1>2, <1>3, <1>4
     DEF Contract!Call, Contract!Take, Contract!Loaded, Contract!Missing, Contract!Put,
         Contract!Saved, Contract!Remove, Contract!Refuse, Contract!Tell,
         Contract!PutInForce

\* What a call shows when it ends, goes on, or abandons its file.
LEMMA EndShows ==
  ASSUME TypeOK, NEW c \in Calls, NEW o, Finish(c, o), Running(c), pc[c] # "idle",
         op' = op, got' = got, published' = published
  PROVE  /\ Alone(c) /\ ReportOf(c) = "open"
         /\ ReportOf(c)' = IF o \in {"loaded", "missing", "saved", "removed"} THEN o ELSE "refused"
         /\ TakenBy(c)' = IF c \in published THEN {c}
                          ELSE IF op[c] = "load" /\ o = "loaded" THEN {got[c]} ELSE {}
<1>1. /\ pc'[c] = "done" /\ outcome'[c] = o
      /\ \A d \in Calls : d # c => pc'[d] = pc[d] /\ outcome'[d] = outcome[d]
  BY FinishMoves
<1>2. Alone(c)
  BY <1>1, Unmoved DEF Alone
<1>3. ReportOf(c) = "open"
  BY DEF ReportOf, Running
<1>. QED BY <1>1, <1>2, <1>3 DEF ReportOf, TakenBy, Ended

LEMMA StayShows ==
  ASSUME TypeOK, NEW c \in Calls, NEW step, pc' = [pc EXCEPT ![c] = step],
         Running(c), step \notin {"idle", "done"},
         \A d \in Calls \ {c} : outcome'[d] = outcome[d],
         op' = op, \A d \in Calls \ {c} : got'[d] = got[d],
         published' = published
  PROVE  /\ Alone(c) /\ ReportOf(c) = "open" /\ ReportOf(c)' = "open"
         /\ TakenBy(c) = IF c \in published THEN {c}
                         ELSE IF op[c] = "load" /\ pc[c] = "read" THEN {got[c]} ELSE {}
         /\ TakenBy(c)' = IF c \in published THEN {c}
                          ELSE IF op[c] = "load" /\ step = "read" THEN {got'[c]} ELSE {}
<1>1. pc'[c] = step /\ \A d \in Calls : d # c => pc'[d] = pc[d]
  BY Zenon DEF TypeOK
<1>2. Alone(c)
  BY <1>1, Unmoved DEF Alone
<1>. QED BY <1>1, <1>2 DEF ReportOf, TakenBy, Ended, Running

\* An error is a refusal: what was read is not returned, and nothing was put.
LEMMA MapsToRefuse ==
  ASSUME TypeOK, IInv, TypeOK', IInv', NEW c \in Calls,
         NEW o \in {"failed", "rejected", "moved"}, Finish(c, o),
         Running(c), c \notin published,
         op' = op, got' = got, published' = published, path' = path, durable' = durable
  PROVE  Contract!Refuse(c)
<1>1. /\ Alone(c) /\ ReportOf(c) = "open"
      /\ ReportOf(c)' = "refused" /\ TakenBy(c)' = {}
  BY EndShows DEF Running
<1>2. TakenBy(c) # {c}
  <2>1. CASE pc[c] = "read"
    <3>1. got[c] # c
      BY <2>1 DEF IInv, SeenInv
    <3>. QED BY <2>1, <3>1 DEF TakenBy
  <2>2. CASE pc[c] # "read"
    BY <2>2 DEF TakenBy, Ended, Running
  <2>. QED BY <2>1, <2>2
<1>. QED BY <1>1, <1>2, MapsToStep

\* A load that finds no file there says so.
LEMMA MapsToMissing ==
  ASSUME TypeOK, IInv, TypeOK', IInv', NEW c \in Calls, Finish(c, "missing"),
         Running(c), pc[c] # "read", c \notin published, path = NoFile,
         op' = op, got' = got, published' = published, path' = path, durable' = durable
  PROVE  Contract!Missing(c)
<1>1. /\ Alone(c) /\ ReportOf(c) = "open"
      /\ ReportOf(c)' = "missing" /\ TakenBy(c)' = {}
  BY EndShows DEF Running
<1>2. TakenBy(c) = {}
  BY DEF TakenBy, Ended, Running
<1>. QED BY <1>1, <1>2, MapsToStep

\* A step between two others, of which nothing is seen.
LEMMA MapsToNothing ==
  ASSUME TypeOK, IInv, TypeOK', IInv', NEW c \in Calls, NEW step,
         pc' = [pc EXCEPT ![c] = step], \A d \in Calls \ {c} : outcome'[d] = outcome[d],
         Running(c), pc[c] # "read", step \notin {"idle", "done", "read"},
         op' = op, \A d \in Calls \ {c} : got'[d] = got[d],
         published' = published, path' = path, durable' = durable
  PROVE  UNCHANGED Contract!vars
<1>1. /\ Alone(c) /\ ReportOf(c)' = ReportOf(c) /\ TakenBy(c)' = TakenBy(c)
  BY StayShows
<1>. QED BY <1>1, MapsToStutter

LEMMA RefinesInit == Init => Contract!Init
<1> SUFFICES ASSUME Init PROVE Contract!Init
  OBVIOUS
<1>1. path \in {Original, NoFile} /\ durable.path = path /\ published = {}
  BY DEF Init, Entries
<1>2. \A f \in {path} : Document(f) = f
  BY <1>1, NamesAssumption DEF Document
<1>3. Document(path) = path /\ Document(durable.path) = path
  BY <1>1, <1>2
<1>4. \A c \in Calls : TakenBy(c) = {} /\ ReportOf(c) = "idle"
  BY <1>1 DEF Init, TakenBy, ReportOf, Ended
<1>. QED BY <1>1, <1>2, <1>3, <1>4 DEF Contract!Init

\* A call begins with nothing to show.
LEMMA RefinesBegin ==
  ASSUME TypeOK, IInv, TypeOK', IInv', NEW c \in Calls,
         NEW o \in {"load", "import", "delete"}, Begin(c, o)
  PROVE  Contract!Call(c)
<1>1. /\ pc[c] = "idle" /\ pc'[c] \in {"source", "findDir", "open"}
      /\ c \notin published /\ UNCHANGED <<outcome, got, path, durable, published>>
      /\ \A d \in Calls \ {c} : pc'[d] = pc[d] /\ op'[d] = op[d]
  <2>1. pc[c] = "idle" /\ UNCHANGED <<outcome, got, path, durable, published>>
    BY DEF Begin, files
  <2>2. pc'[c] \in {"source", "findDir", "open"}
    BY DEF Begin, FirstStep, TypeOK
  <2>3. \A d \in Calls \ {c} : pc'[d] = pc[d] /\ op'[d] = op[d]
    BY DEF Begin, TypeOK
  <2>. QED BY <2>1, <2>2, <2>3 DEF IInv, PublishInv
<1>2. Alone(c)
  BY <1>1, Unmoved DEF Alone
<1>3. /\ ReportOf(c) = "idle" /\ ReportOf(c)' = "open"
      /\ TakenBy(c) = {} /\ TakenBy(c)' = {}
  BY <1>1 DEF ReportOf, TakenBy, Ended
<1>. QED BY <1>2, <1>3, <1>1, MapsToStep

\* A process that dies, or all of them, takes with it the calls under way: a
\* load forgets what it read, what an import put in place stays.
LEMMA RefinesStop ==
  ASSUME TypeOK, IInv, TypeOK', IInv', NEW ps \in SUBSET Procs, Stop(ps),
         path' \in {path, durable.path}
  PROVE  Contract!Die
<1>1. \A c \in Calls : /\ pc'[c] = pc[c] \/ (Running(c) /\ pc'[c] = "dead")
                       /\ op'[c] = op[c] /\ outcome'[c] = outcome[c]
                       /\ pc'[c] # "dead" => got'[c] = got[c]
                       /\ c \in published' <=> c \in published
  <2>1. \A c \in Calls : pc'[c] = pc[c] \/ (Running(c) /\ pc'[c] = "dead")
    BY DEF Stop, Running
  <2>. QED BY <2>1 DEF Stop
<1>2. ASSUME NEW c \in Calls
      PROVE  /\ ReportOf(c)' = ReportOf(c)
             /\ \/ TakenBy(c)' = TakenBy(c)
                \/ ReportOf(c) = "open" /\ TakenBy(c) # {c} /\ TakenBy(c)' = {}
  <2>1. CASE pc'[c] = pc[c] /\ pc[c] # "dead"
    BY <2>1, <1>1, Unmoved
  <2>3. CASE pc'[c] = pc[c] /\ pc[c] = "dead"
    BY <2>3, <1>1 DEF ReportOf, TakenBy, Ended
  <2>2. CASE Running(c) /\ pc'[c] = "dead"
    <3>1. ReportOf(c) = "open" /\ ReportOf(c)' = "open"
      BY <2>2 DEF ReportOf, Running
    <3>2. CASE c \in published
      BY <3>1, <3>2, <1>1 DEF TakenBy
    <3>3. CASE c \notin published
      <4>1. TakenBy(c)' = {}
        BY <3>3, <2>2, <1>1 DEF TakenBy, Ended
      <4>2. pc[c] = "read" => got[c] # c
        BY <3>3 DEF IInv, SeenInv
      <4>3. TakenBy(c) # {c}
        BY <3>3, <2>2, <4>2 DEF TakenBy, Ended, Running
      <4>. QED BY <3>1, <4>1, <4>3
    <3>. QED BY <3>2, <3>3
  <2>. QED BY <1>1, <2>1, <2>2, <2>3
<1>3. ASSUME NEW c \in Calls
      PROVE  TakenBy(c)' \in SUBSET ({Original, NoFile} \cup Calls)
  BY DEF TakenBy, TypeOK, Paths, Files
<1>4. /\ Document(path) = path /\ Document(durable.path) = durable.path
      /\ Document(path)' = path' /\ Document(durable.path)' = durable.path'
  BY Whole, WholeNext
<1>5. [c \in Calls |-> TakenBy(c)]' \in [Calls -> SUBSET ({Original, NoFile} \cup Calls)]
  BY <1>3
<1>6. [c \in Calls |-> ReportOf(c)]' = [c \in Calls |-> ReportOf(c)]
  BY <1>2
<1>7. durable' = durable
  BY DEF Stop
<1>. QED BY <1>2, <1>4, <1>5, <1>6, <1>7 DEF Contract!Die

\* Every step of one call is one abstract step of it, or none.
LEMMA RefinesStep ==
  ASSUME TypeOK, IInv, TypeOK', IInv', NEW c \in Calls, Step(c)
  PROVE  Contract!Next \/ UNCHANGED Contract!vars
<1>1. ASSUME \/ Contract!Take(c) \/ Contract!Loaded(c) \/ Contract!Missing(c)
             \/ Contract!Put(c) \/ Contract!Saved(c) \/ Contract!Remove(c)
             \/ Contract!Refuse(c)
      PROVE  Contract!Next
  BY <1>1 DEF Contract!Next
<1>2. pc[c] \notin {"cleanup", "done", "dead"} => c \notin published
  BY DEF IInv, PublishInv
<1>3. ASSUME Finish(c, "failed"), pc[c] \notin {"idle", "cleanup", "done", "dead"},
             op' = op, got' = got, published' = published, path' = path, durable' = durable
      PROVE  Contract!Next
  BY <1>1, <1>2, <1>3, MapsToRefuse DEF Running
<1>4. ASSUME Finish(c, "missing"), pc[c] \in {"findDir", "findFile", "stat"}, path = NoFile,
             op' = op, got' = got, published' = published, path' = path, durable' = durable
      PROVE  Contract!Next
  BY <1>1, <1>2, <1>4, MapsToMissing DEF Running
<1>5. ASSUME NEW step, Goto(c, step), step \notin {"idle", "done", "read"},
             pc[c] \notin {"idle", "read", "done", "dead"},
             op' = op, \A d \in Calls \ {c} : got'[d] = got[d],
             published' = published, path' = path, durable' = durable
      PROVE  UNCHANGED Contract!vars
  BY <1>5, MapsToNothing DEF Goto, Running
<1>6. ASSUME Abandon(c), pc[c] \notin {"idle", "read", "done", "dead"},
             op' = op, got' = got, published' = published, path' = path, durable' = durable
      PROVE  UNCHANGED Contract!vars
  <2>1. pc' = [pc EXCEPT ![c] = "cleanup"] /\ \A d \in Calls \ {c} : outcome'[d] = outcome[d]
    BY <1>6 DEF Abandon, TypeOK
  <2>. QED BY <2>1, <1>6, MapsToNothing DEF Running
<1>7. CASE ReadSource(c)
  BY <1>7, <1>3, <1>5 DEF ReadSource, mine, files
<1>8. CASE FindDir(c)
  <2>1. CASE dir = "absent"
    <3>1. path = NoFile
      BY <2>1 DEF IInv, DirInv
    <3>. QED BY <1>8, <3>1, <2>1, <1>3, <1>4 DEF FindDir, mine, files
  <2>2. CASE dir # "absent"
    BY <1>8, <2>2, <1>3, <1>5 DEF FindDir, mine, files
  <2>. QED BY <2>1, <2>2
<1>9. CASE FindFile(c)
  BY <1>9, <1>4, <1>5 DEF FindFile, mine, files
<1>10. CASE OpenStore(c)
  BY <1>10, <1>3, <1>5 DEF OpenStore, mine, files
<1>11. CASE Acquire(c)
  <2>1. CASE Finish(c, "failed")
    BY <1>11, <2>1, <1>3 DEF Acquire, mine, files
  <2>2. CASE ~Finish(c, "failed")
    <3>1. PICK step \in {"stat", "inspect", "remove"} : pc' = [pc EXCEPT ![c] = step]
      BY <1>11, <2>2 DEF Acquire
    <3>2. /\ pc[c] = "lock" /\ outcome' = outcome /\ op' = op /\ got' = got
          /\ published' = published /\ path' = path /\ durable' = durable
      BY <1>11, <2>2 DEF Acquire, mine, files
    <3>. QED BY <3>1, <3>2, MapsToNothing DEF Running
  <2>. QED BY <2>1, <2>2
<1>12. CASE Stat(c)
  <2>1. \A d \in Calls \ {c} : got'[d] = got[d]
    BY <1>12 DEF Stat, TypeOK
  <2>. QED BY <1>12, <2>1, <1>3, <1>4, <1>5 DEF Stat, mine, files
<1>13. CASE OpenFile(c)
  <2>1. pc[c] = "openFile" /\ c \notin published /\ op[c] = "load"
    BY <1>13, <1>2 DEF OpenFile, IInv, KindInv, Reading
  <2>2. /\ op' = op /\ got' = got /\ published' = published
        /\ path' = path /\ durable' = durable
    BY <1>13 DEF OpenFile, mine, files
  <2>3. CASE path = NoFile
    BY <1>13, <2>1, <2>2, <2>3, <1>3 DEF OpenFile
  <2>4. CASE path # NoFile /\ path # got[c]
    <3>1. Finish(c, "moved")
      BY <1>13, <2>4 DEF OpenFile
    <3>. QED BY <3>1, <2>1, <2>2, <1>1, MapsToRefuse DEF Running
  <2>5. CASE path # NoFile /\ path = got[c]
    <3>1. Goto(c, "read")
      BY <1>13, <2>5 DEF OpenFile
    <3>2. /\ Alone(c) /\ ReportOf(c) = "open" /\ ReportOf(c)' = "open"
          /\ TakenBy(c) = {} /\ TakenBy(c)' = {path}
      BY <3>1, <2>1, <2>2, <2>5, StayShows DEF Goto, Running
    <3>. QED BY <3>2, <2>2, <2>5, <1>1, MapsToStep
  <2>. QED BY <2>3, <2>4, <2>5
<1>14. CASE Read(c)
  <2>1. pc[c] = "read" /\ c \notin published /\ op[c] = "load"
    BY <1>14, <1>2 DEF Read, IInv, KindInv, Reading
  <2>2. /\ op' = op /\ got' = got /\ published' = published
        /\ path' = path /\ durable' = durable
    BY <1>14 DEF Read, mine, files
  <2>3. CASE Finish(c, "rejected")
    BY <2>3, <2>1, <2>2, <1>1, MapsToRefuse DEF Running
  <2>4. CASE Finish(c, "failed")
    BY <2>1, <2>2, <2>4, <1>3
  <2>5. CASE Finish(c, "loaded")
    <3>1. /\ Alone(c) /\ ReportOf(c) = "open" /\ ReportOf(c)' = "loaded"
          /\ TakenBy(c)' = {got[c]}
      BY <2>1, <2>2, <2>5, EndShows DEF Running
    <3>2. TakenBy(c) = {got[c]} /\ got[c] # c
      BY <2>1 DEF TakenBy, IInv, SeenInv
    <3>. QED BY <3>1, <3>2, <2>2, <1>1, MapsToStep
  <2>. QED BY <1>14, <2>3, <2>4, <2>5 DEF Read
<1>15. CASE Inspect(c)
  BY <1>15, <1>3, <1>5 DEF Inspect, mine, files
<1>16. CASE CreateTemp(c)
  BY <1>16, <1>5 DEF CreateTemp, mine
<1>17. CASE Write(c)
  BY <1>17, <1>5 DEF Write, mine
<1>18. CASE Sync(c)
  BY <1>18, <1>5 DEF Sync, mine
<1>19. CASE Commit(c)
  BY <1>19, <1>5, <1>6 DEF Commit, mine, files
<1>20. CASE Rename(c)
  <2>1. /\ pc[c] = "rename" /\ pc' = [pc EXCEPT ![c] = "cleanup"]
        /\ outcome' = [outcome EXCEPT ![c] = "saved"] /\ op' = op /\ got' = got
        /\ published' = published \cup {c} /\ path' = c /\ durable' = durable
    BY <1>20 DEF Rename, Publish, mine
  <2>2. \A d \in Calls \ {c} : outcome'[d] = outcome[d]
    BY <2>1 DEF TypeOK
  <2>3. c \notin published
    BY <2>1, <1>2
  <2>4. /\ Alone(c) /\ ReportOf(c) = "open" /\ ReportOf(c)' = "open"
        /\ TakenBy(c) = {} /\ TakenBy(c)' = {c}
    <3>1. /\ pc'[c] = "cleanup" /\ \A d \in Calls \ {c} : pc'[d] = pc[d]
          /\ \A d \in Calls \ {c} : d \in published' <=> d \in published
      BY <2>1 DEF TypeOK
    <3>2. Alone(c)
      BY <2>1, <2>2, <3>1, Unmoved DEF Alone
    <3>. QED BY <2>1, <2>3, <3>1, <3>2 DEF ReportOf, TakenBy, Ended
  <2>. QED BY <2>1, <2>4, <1>1, MapsToStep
<1>21. CASE Cleanup(c)
  <2>1. /\ pc[c] = "cleanup" /\ Finish(c, outcome[c]) /\ op' = op /\ got' = got
        /\ published' = published /\ path' = path /\ durable' = durable
    BY <1>21 DEF Cleanup, mine
  <2>2. /\ outcome[c] \in {"failed", "saved"}
        /\ outcome[c] = "saved" <=> c \in published
    BY <2>1 DEF IInv, LoadInv, PublishInv
  <2>3. CASE outcome[c] = "saved"
    <3>1. /\ Alone(c) /\ ReportOf(c) = "open" /\ ReportOf(c)' = "saved"
          /\ TakenBy(c)' = {c}
      BY <2>1, <2>2, <2>3, EndShows DEF Running
    <3>2. TakenBy(c) = {c}
      BY <2>2, <2>3 DEF TakenBy
    <3>. QED BY <3>1, <3>2, <2>1, <1>1, MapsToStep
  <2>4. CASE outcome[c] = "failed"
    BY <2>1, <2>2, <2>4, <1>1, MapsToRefuse DEF Running
  <2>. QED BY <2>2, <2>3, <2>4
<1>22. CASE Remove(c)
  <2>1. /\ pc[c] = "remove" /\ Finish(c, "removed") /\ op' = op /\ got' = got
        /\ published' = published /\ path' = NoFile /\ durable' = durable
    BY <1>22 DEF Remove, mine
  <2>2. c \notin published
    BY <2>1, <1>2
  <2>3. /\ Alone(c) /\ ReportOf(c) = "open" /\ ReportOf(c)' = "removed"
        /\ TakenBy(c)' = {}
    BY <2>1, <2>2, EndShows DEF Running
  <2>4. TakenBy(c) = {}
    BY <2>1, <2>2 DEF TakenBy, Ended
  <2>. QED BY <2>1, <2>3, <2>4, <1>1, MapsToStep
<1>23. CASE Fail(c)
  <2>1. CASE /\ pc[c] \in {"source", "findDir", "findFile", "stat", "openFile", "read",
                           "inspect", "create", "remove"}
             /\ Finish(c, "failed")
             /\ UNCHANGED <<mine, got, opened, dir, files, during>>
    BY <2>1, <1>3 DEF mine, files
  <2>2. CASE /\ pc[c] = "open" /\ Finish(c, "failed")
             /\ UNCHANGED <<mine, got, dir, files, during>>
    BY <2>2, <1>3 DEF mine, files
  <2>3. CASE /\ pc[c] \in {"write", "sync", "rename"} /\ Abandon(c)
             /\ UNCHANGED <<mine, got, opened, dir, files, during>>
    BY <2>3, <1>6 DEF mine, files
  <2>. QED BY <1>23, <2>1, <2>2, <2>3 DEF Fail
<1>. QED BY <1>7, <1>8, <1>9, <1>10, <1>11, <1>12, <1>13, <1>14, <1>15, <1>16,
              <1>17, <1>18, <1>19, <1>20, <1>21, <1>22, <1>23 DEF Step

LEMMA RefinesNext ==
  ASSUME TypeOK, IInv, TypeOK', IInv', [Next]_vars
  PROVE  Contract!Next \/ UNCHANGED Contract!vars
<1>1. ASSUME NEW c \in Calls, NEW o \in {"load", "import", "delete"}, Begin(c, o)
      PROVE  Contract!Next
  <2>1. Contract!Call(c)
    BY <1>1, RefinesBegin
  <2>. QED BY <2>1 DEF Contract!Next
<1>2. ASSUME NEW c \in Calls, Step(c)
      PROVE  Contract!Next \/ UNCHANGED Contract!vars
  BY <1>2, RefinesStep
<1>3. ASSUME UNCHANGED <<pc, op, outcome, got, published>>
      PROVE  /\ path' = path /\ durable' = durable => UNCHANGED Contract!vars
             /\ path' = path /\ durable'.path = path => Contract!Settle
  <2>1. \A c \in Calls : TakenBy(c)' = TakenBy(c) /\ ReportOf(c)' = ReportOf(c)
    BY <1>3, Unmoved
  <2>2. /\ [c \in Calls |-> TakenBy(c)]' = [c \in Calls |-> TakenBy(c)]
        /\ [c \in Calls |-> ReportOf(c)]' = [c \in Calls |-> ReportOf(c)]
    BY <2>1
  <2>. QED BY <2>2, Whole, WholeNext DEF Contract!vars, Contract!Settle
<1>4. ASSUME NEW c \in Calls, CancelContext(c) PROVE UNCHANGED Contract!vars
  BY <1>4, <1>3 DEF CancelContext, files
<1>5. ASSUME NEW p \in Procs, Kill(p) PROVE Contract!Next
  <2>1. Contract!Die
    BY <1>5, RefinesStop DEF Kill
  <2>. QED BY <2>1 DEF Contract!Next
<1>6. ASSUME Flush PROVE Contract!Next
  <2>1. Contract!Settle
    BY <1>6, <1>3 DEF Flush, Entries, mine
  <2>. QED BY <2>1 DEF Contract!Next
<1>7. ASSUME PowerLoss PROVE Contract!Next
  <2>1. Contract!Die
    BY <1>7, RefinesStop DEF PowerLoss
  <2>. QED BY <2>1 DEF Contract!Next
<1>8. ASSUME ChmodDir PROVE UNCHANGED Contract!vars
  BY <1>8, <1>3 DEF ChmodDir, mine, files
<1>9. CASE UNCHANGED vars
  BY <1>9, <1>3 DEF vars
<1>. QED BY <1>1, <1>2, <1>4, <1>5, <1>6, <1>7, <1>8, <1>9 DEF Next

\* The stores are an atomic register of whole configurations, whatever calls,
\* processes, kills and power losses come in between.
THEOREM StoreRefinement == Spec => KeepsConfigurations
<1>1. TypeOK /\ IInv /\ TypeOK' /\ IInv' /\ [Next]_vars => [Contract!Next]_(Contract!vars)
  BY RefinesNext
<1>. QED
  BY <1>1, RefinesInit, Invariant, PTL DEF Spec, KeepsConfigurations, Contract!Spec
=============================================================================
