---------------------------- MODULE ReleaseProofs ----------------------------
(***************************************************************************)
(* The safety properties of Release, for any versions, packages and        *)
(* builds, any failures, reruns and rebuilds.                              *)
(***************************************************************************)
EXTENDS Release, TLAPS

\* A run that is not in progress begins a job anew.
RestInv ==
  \A v \in Versions : status[v] # "running" =>
    /\ step[v] \in {"build", "assets", "preflight"}
    /\ \A i \in Packages : plan[v][i] = "unread"

\* What is attached as the manifest is the build that a run publishes.
BuildInv ==
  \A v \in Versions :
    /\ step[v] # "build" => artifact[v] # NoBuild
    /\ step[v] \in NpmSteps => manifest[v] = artifact[v]
    /\ step[v] = "upload" =>
         IF Manifest \in missing[v] THEN manifest[v] = NoBuild ELSE manifest[v] = artifact[v]

\* The packages before the one at hand are in the registry.
NextInv ==
  \A v \in Versions : step[v] \in {"publish", "verify"} =>
    \A j \in Packages : j < next[v] => npm[j][v] # NoFile

\* Every package that exists was created by hand, so its first version is
\* that one, and nothing is published by hand once all packages exist.
HandInv ==
  \A i \in Packages :
    /\ Exists(i) => hand \in Versions /\ npm[i][hand] # NoFile
    /\ ~Exists(i) => latest[i] = NoVersion

\* What was planned still holds when it is done.
PlanInv ==
  \A v \in Versions, i \in Packages :
    /\ plan[v][i] = "existing" => npm[i][v] # NoFile
    /\ plan[v][i] = "publish" => Exists(i) /\ ~MovesBack(i, v)

IInv == /\ RestInv /\ BuildInv /\ NextInv /\ HandInv /\ PlanInv
        /\ OneBuildPerVersion /\ MainIsLast

-----------------------------------------------------------------------------
(* What a step leaves alone. *)

\* A step of v changes nothing of the other runs, but that one that waits
\* may be cancelled.
Others(v) ==
  \A w \in Versions : w # v =>
    /\ status'[w] = status[w] \/ (status[w] = "queued" /\ status'[w] = "cancelled")
    /\ step'[w] = step[w] /\ artifact'[w] = artifact[w] /\ missing'[w] = missing[w]
    /\ next'[w] = next[w] /\ plan'[w] = plan[w]
    /\ manifest'[w] = manifest[w] /\ attached'[w] = attached[w]

LEMMA QueueMoves ==
  ASSUME TypeOK, NEW v \in Versions, NEW s \in Steps, Queue(v, s)
  PROVE  /\ Others(v) /\ status'[v] = "queued" /\ step'[v] = s
         /\ status' \in [Versions -> Statuses] /\ step' \in [Versions -> Steps]
         /\ \A w \in Versions : status'[w] = "running" => status[w] = "running"
         /\ UNCHANGED <<artifact, missing, next, plan, manifest, attached, npm, latest,
                        enabled, hand>>
<1>1. /\ status' = [w \in Versions |->
                     IF w = v THEN "queued"
                     ELSE IF status[w] = "queued" THEN "cancelled" ELSE status[w]]
      /\ step' = [step EXCEPT ![v] = s]
      /\ UNCHANGED <<artifact, missing, next, plan, manifest, attached, npm, latest,
                     enabled, hand>>
  BY DEF Queue, github, registry
<1>2. status' \in [Versions -> Statuses]
  BY <1>1 DEF TypeOK, Statuses
<1>. QED BY <1>1, <1>2 DEF TypeOK, Others

LEMMA EndMoves ==
  ASSUME TypeOK, NEW v \in Versions, NEW s \in Statuses, s # "running", End(v, s),
         UNCHANGED <<artifact, github>>
  PROVE  /\ Others(v) /\ status'[v] = s /\ next'[v] = 1
         /\ \A i \in Packages : plan'[v][i] = "unread"
         /\ \/ step'[v] = "build"
            \/ step'[v] = "assets" /\ step[v] \in {"assets", "upload"}
            \/ step'[v] = "preflight" /\ step[v] \in NpmSteps
         /\ status' \in [Versions -> Statuses] /\ step' \in [Versions -> Steps]
         /\ missing' \in [Versions -> SUBSET ({Manifest} \cup Packages)]
         /\ next' \in [Versions -> Packages] /\ plan' \in [Versions -> [Packages -> Todo]]
         /\ \A w \in Versions : status'[w] = "running" => status[w] = "running"
<1>1. Job(step[v]) \in {"build", "assets", "preflight"}
      /\ (Job(step[v]) = "assets" => step[v] \in {"assets", "upload"})
      /\ (Job(step[v]) = "preflight" => step[v] \in NpmSteps)
  BY DEF Job
<1>2. 1 \in Packages
  BY MainAssumption DEF Packages
<1>3. step' \in [Versions -> Steps] /\ step'[v] = IF s = "failed" THEN Job(step[v]) ELSE "build"
  BY <1>1 DEF End, TypeOK, Steps
<1>4. [i \in Packages |-> "unread"] \in [Packages -> Todo]
  BY DEF Todo
<1>5. plan' \in [Versions -> [Packages -> Todo]] /\ plan'[v] = [i \in Packages |-> "unread"]
  BY <1>4 DEF End, TypeOK
<1>6. status' \in [Versions -> Statuses] /\ status'[v] = s
  BY DEF End, TypeOK
<1>7. next' \in [Versions -> Packages] /\ next'[v] = 1
  BY <1>2 DEF End, TypeOK
<1>8. missing' \in [Versions -> SUBSET ({Manifest} \cup Packages)]
  BY DEF End, TypeOK
<1>9. Others(v)
  BY DEF End, TypeOK, Others, github
<1>10. \A w \in Versions : status'[w] = "running" => status[w] = "running"
  BY <1>6, <1>9 DEF Others
<1>. QED BY <1>1, <1>3, <1>5, <1>6, <1>7, <1>8, <1>9, <1>10

\* On to the next package, or the end of the run.
LEMMA ProceedMoves ==
  ASSUME TypeOK, NEW v \in Versions, NEW i \in Packages, Proceed(v, i), next[v] = i,
         status[v] = "running", UNCHANGED <<artifact, github>>
  PROVE  /\ Others(v)
         /\ \/ status'[v] = "succeeded" /\ i = Main /\ step'[v] = "build"
               /\ \A j \in Packages : plan'[v][j] = "unread"
            \/ status'[v] = "running" /\ step'[v] = "publish" /\ next'[v] = i + 1
               /\ plan'[v] = plan[v]
         /\ status' \in [Versions -> Statuses] /\ step' \in [Versions -> Steps]
         /\ missing' \in [Versions -> SUBSET ({Manifest} \cup Packages)]
         /\ next' \in [Versions -> Packages] /\ plan' \in [Versions -> [Packages -> Todo]]
         /\ \A w \in Versions : status'[w] = "running" => status[w] = "running"
<1>1. CASE i = Main
  <2>1. End(v, "succeeded") /\ "succeeded" \in Statuses
    BY <1>1 DEF Proceed, Statuses
  <2>2. step'[v] = "build"
    BY <2>1 DEF End, TypeOK
  <2>. QED BY <1>1, <2>1, <2>2, EndMoves
<1>2. CASE i # Main
  <2>1. /\ step' = [step EXCEPT ![v] = "publish"] /\ next' = [next EXCEPT ![v] = i + 1]
        /\ UNCHANGED <<status, missing, plan>>
    BY <1>2 DEF Proceed
  <2>2. i + 1 \in Packages
    BY <1>2, MainAssumption DEF Packages
  <2>3. step' \in [Versions -> Steps] /\ step'[v] = "publish"
    BY <2>1 DEF TypeOK, Steps
  <2>4. Others(v)
    BY <2>1 DEF TypeOK, Others, github
  <2>. QED BY <2>1, <2>2, <2>3, <2>4 DEF TypeOK
<1>. QED BY <1>1, <1>2

\* What the registry does with a version.
LEMMA AcceptMoves ==
  ASSUME TypeOK, NEW v \in Versions, NEW i \in Packages, NEW file \in Files, Accept(i, v, file)
  PROVE  /\ npm[i][v] = NoFile /\ npm'[i][v] = file /\ file # NoFile
         /\ \A j \in Packages, w \in Versions : j # i \/ w # v => npm'[j][w] = npm[j][w]
         /\ \A j \in Packages : j # i => latest'[j] = latest[j]
         /\ v \in Stable => latest'[i] = v
         /\ v \notin Stable => latest'[i] = latest[i] \/ (latest'[i] = v /\ ~Exists(i))
         /\ npm' \in [Packages -> [Versions -> {NoFile} \cup Files]]
         /\ latest' \in [Packages -> {NoVersion} \cup Versions]
<1>1. npm[i][v] = NoFile /\ npm' = [npm EXCEPT ![i][v] = file] /\ file # NoFile
  BY NoFileAssumption DEF Accept
<1>2. PICK tagged \in (IF v \in Stable THEN {v}
                       ELSE IF Exists(i) THEN {latest[i]} ELSE {latest[i], v}) :
        latest' = [latest EXCEPT ![i] = tagged]
  BY DEF Accept
<1>3. npm'[i][v] = file /\ npm' \in [Packages -> [Versions -> {NoFile} \cup Files]]
  BY <1>1 DEF TypeOK
<1>4. \A j \in Packages, w \in Versions : j # i \/ w # v => npm'[j][w] = npm[j][w]
  BY <1>1 DEF TypeOK
<1>5. latest'[i] = tagged /\ \A j \in Packages : j # i => latest'[j] = latest[j]
  BY <1>2 DEF TypeOK
<1>6. latest' \in [Packages -> {NoVersion} \cup Versions]
  BY <1>2 DEF TypeOK
<1>. QED BY <1>1, <1>2, <1>3, <1>4, <1>5, <1>6

\* A run that publishes, or a hand that does, has the file.
LEMMA FileOf ==
  ASSUME TypeOK, NEW v \in Versions, NEW i \in Packages
  PROVE  /\ artifact[v] # NoBuild => artifact[v][i] \in Files
         /\ manifest[v] # NoBuild => manifest[v][i] \in Files
BY BuildsAssumption DEF TypeOK

-----------------------------------------------------------------------------
(* Type correctness. *)

LEMMA TypeInit == Init => TypeOK
<1> SUFFICES ASSUME Init PROVE TypeOK
  OBVIOUS
<1>1. 1 \in Packages
  BY MainAssumption DEF Packages
<1>. QED BY <1>1 DEF Init, TypeOK, Statuses, Steps, Todo

\* Every variable keeps its type, and one run at most is in progress.
LEMMA TypeNext == BuildInv /\ TypeOK /\ [Next]_vars => TypeOK'
<1> SUFFICES ASSUME BuildInv, TypeOK, [Next]_vars PROVE TypeOK'
  OBVIOUS
<1>1. ASSUME NEW v \in Versions, PublishRelease(v)
      PROVE  TypeOK'
  <2>1. Queue(v, "build") /\ "build" \in Steps
    BY <1>1 DEF PublishRelease, Steps, TypeOK
  <2>. QED BY <2>1, QueueMoves DEF TypeOK
<1>2. ASSUME NEW v \in Versions, RerunFailed(v)
      PROVE  TypeOK'
  <2>1. Queue(v, step[v]) /\ step[v] \in Steps
    BY <1>2 DEF RerunFailed, Steps, TypeOK
  <2>. QED BY <2>1, QueueMoves DEF TypeOK
<1>3. ASSUME NEW v \in Versions, RerunAll(v)
      PROVE  TypeOK'
  <2>1. Queue(v, "build") /\ "build" \in Steps
    BY <1>3 DEF RerunAll, Steps, TypeOK
  <2>. QED BY <2>1, QueueMoves DEF TypeOK
<1>4. ASSUME NEW v \in Versions, Start(v)
      PROVE  TypeOK'
  <2>1. status' = [status EXCEPT ![v] = "running"]
        /\ \A w \in Versions : status[w] # "running"
        /\ UNCHANGED <<step, artifact, missing, next, plan, github, registry, enabled, hand>>
    BY <1>4 DEF Start
  <2>2. status' \in [Versions -> Statuses]
    BY <2>1 DEF TypeOK, Statuses
  <2>3. \A w, x \in Versions : status'[w] = "running" /\ status'[x] = "running" => w = x
    BY <2>1 DEF TypeOK
  <2>. QED BY <2>1, <2>2, <2>3 DEF TypeOK, github, registry
<1>5. ASSUME NEW v \in Versions, Fail(v)
      PROVE  TypeOK'
  <2>1. End(v, "failed") /\ "failed" \in Statuses
        /\ UNCHANGED <<artifact, github, registry, enabled, hand>>
    BY <1>5 DEF Fail, Statuses
  <2>. QED BY <2>1, EndMoves DEF TypeOK, github, registry
<1>6. ASSUME NEW v \in Versions, Refuse(v)
      PROVE  TypeOK'
  <2>1. End(v, "failed") /\ "failed" \in Statuses
        /\ UNCHANGED <<artifact, github, registry, enabled, hand>>
    BY <1>6 DEF Refuse, Statuses
  <2>. QED BY <2>1, EndMoves DEF TypeOK, github, registry
<1>7. ASSUME NEW v \in Versions, Build(v)
      PROVE  TypeOK'
  BY <1>7 DEF Build, TypeOK, At, Statuses, Steps, run, github, registry
<1>8. ASSUME NEW v \in Versions, PlanAssets(v)
      PROVE  TypeOK'
  <2>1. Absent(v) \subseteq {Manifest} \cup Packages
    BY DEF Absent
  <2>. QED BY <2>1, <1>8 DEF PlanAssets, TypeOK, Steps, github, registry
<1>9. ASSUME NEW v \in Versions, AssetsDone(v)
      PROVE  TypeOK'
  <2>1. UNCHANGED <<artifact, github, registry, enabled, hand>> /\ "succeeded" \in Statuses
    BY <1>9 DEF AssetsDone, Statuses
  <2>2. CASE enabled
    <3>1. step' = [step EXCEPT ![v] = "preflight"] /\ UNCHANGED <<status, missing, next, plan>>
      BY <2>2, <1>9 DEF AssetsDone
    <3>. QED BY <2>1, <3>1 DEF TypeOK, Steps, github, registry
  <2>3. CASE ~enabled
    <3>1. End(v, "succeeded")
      BY <2>3, <1>9 DEF AssetsDone
    <3>. QED BY <2>1, <3>1, EndMoves DEF TypeOK, github, registry
  <2>. QED BY <2>2, <2>3
<1>10. ASSUME NEW v \in Versions, NEW f \in {Manifest} \cup Packages, Upload(v, f)
      PROVE  TypeOK'
  <2>1. /\ missing' = [missing EXCEPT ![v] = missing[v] \ {f}]
        /\ UNCHANGED <<status, step, artifact, next, plan, registry, enabled, hand>>
    BY <1>10 DEF Upload
  <2>2. missing' \in [Versions -> SUBSET ({Manifest} \cup Packages)]
    BY <2>1 DEF TypeOK
  <2>3. artifact[v] \in Builds
    BY <1>10 DEF Upload, At, BuildInv, TypeOK
  <2>4. manifest' \in [Versions -> {NoBuild} \cup Builds]
    BY <2>3, <1>10 DEF Upload, TypeOK
  <2>5. attached' \in [Versions -> [Packages -> {NoFile} \cup Files]]
    <3>1. CASE f = Manifest
      BY <3>1, <1>10 DEF Upload, TypeOK
    <3>2. CASE f # Manifest
      <4>1. f \in Packages /\ attached' = [attached EXCEPT ![v][f] = artifact[v][f]]
        BY <3>2, <1>10 DEF Upload
      <4>2. artifact[v][f] \in Files
        BY <2>3, <4>1, BuildsAssumption
      <4>. QED BY <4>1, <4>2 DEF TypeOK
    <3>. QED BY <3>1, <3>2
  <2>. QED BY <2>1, <2>2, <2>4, <2>5 DEF TypeOK, registry
<1>11. ASSUME NEW v \in Versions, NEW i \in Packages, Preflight(v, i)
      PROVE  TypeOK'
  <2>1. publicationPlan(i, v) \in Todo
    BY <1>11 DEF Preflight, publicationPlan, Todo
  <2>2. (IF i = Main THEN 1 ELSE i + 1) \in Packages
    BY MainAssumption DEF Packages
  <2>3. plan' \in [Versions -> [Packages -> Todo]]
    BY <2>1, <1>11 DEF Preflight, TypeOK
  <2>4. step' \in [Versions -> Steps] /\ next' \in [Versions -> Packages]
    BY <2>2, <1>11 DEF Preflight, TypeOK, Steps
  <2>. QED BY <2>3, <2>4, <1>11 DEF Preflight, TypeOK, github, registry
<1>12. ASSUME NEW v \in Versions, NEW i \in Packages, Skip(v, i)
      PROVE  TypeOK'
  <2>1. Proceed(v, i) /\ next[v] = i /\ status[v] = "running"
        /\ UNCHANGED <<artifact, github, registry, enabled, hand>>
    BY <1>12 DEF Skip, At
  <2>. QED BY <2>1, ProceedMoves DEF TypeOK, github, registry
<1>13. ASSUME NEW v \in Versions, NEW i \in Packages, Publish(v, i)
      PROVE  TypeOK'
  <2>1. artifact[v][i] \in Files
    BY <1>13, FileOf DEF Publish, At, BuildInv
  <2>2. Accept(i, v, artifact[v][i]) /\ step' = [step EXCEPT ![v] = "verify"]
        /\ UNCHANGED <<status, artifact, missing, next, plan, github, enabled, hand>>
    BY <1>13 DEF Publish
  <2>3. step' \in [Versions -> Steps]
    BY <2>2 DEF TypeOK, Steps
  <2>. QED BY <2>1, <2>2, <2>3, AcceptMoves DEF TypeOK, github
<1>14. ASSUME NEW v \in Versions, NEW i \in Packages, PublishFails(v, i)
      PROVE  TypeOK'
  <2>1. artifact[v][i] \in Files
    BY <1>14, FileOf DEF PublishFails, At, BuildInv
  <2>2. End(v, "failed") /\ "failed" \in Statuses /\ UNCHANGED <<artifact, github, enabled, hand>>
        /\ (Accept(i, v, artifact[v][i]) \/ UNCHANGED registry)
    BY <1>14 DEF PublishFails, Statuses
  <2>3. /\ npm' \in [Packages -> [Versions -> {NoFile} \cup Files]]
        /\ latest' \in [Packages -> {NoVersion} \cup Versions]
    BY <2>1, <2>2, AcceptMoves DEF TypeOK, registry
  <2>. QED BY <2>2, <2>3, EndMoves DEF TypeOK, github
<1>15. ASSUME NEW v \in Versions, NEW i \in Packages, Verify(v, i)
      PROVE  TypeOK'
  <2>1. Proceed(v, i) /\ next[v] = i /\ status[v] = "running"
        /\ UNCHANGED <<artifact, github, registry, enabled, hand>>
    BY <1>15 DEF Verify, At
  <2>. QED BY <2>1, ProceedMoves DEF TypeOK, github, registry
<1>16. ASSUME NEW v \in Versions, NEW i \in Packages, Bootstrap(v, i)
      PROVE  TypeOK'
  <2>1. attached[v][i] \in Files /\ Accept(i, v, attached[v][i])
    BY <1>16, FileOf DEF Bootstrap
  <2>. QED BY <2>1, <1>16, AcceptMoves DEF Bootstrap, TypeOK, run, github
<1>17. ASSUME Enable
      PROVE  TypeOK'
  BY <1>17 DEF Enable, TypeOK, At, Statuses, Steps, run, github, registry
<1>18. CASE UNCHANGED vars
  BY <1>18 DEF vars, run, github, registry, TypeOK
<1>. QED BY <1>1, <1>2, <1>3, <1>4, <1>5, <1>6, <1>7, <1>8, <1>9, <1>10,
              <1>11, <1>12, <1>13, <1>14, <1>15, <1>16, <1>17, <1>18 DEF Next, Advance, Trouble

-----------------------------------------------------------------------------
(* Where runs begin, and what they hand on. *)

\* A run that is not in progress begins a job anew.
LEMMA RestNext == TypeOK /\ RestInv /\ [Next]_vars => RestInv'
<1> SUFFICES ASSUME TypeOK, RestInv, [Next]_vars PROVE RestInv'
  OBVIOUS
<1>1. ASSUME NEW v \in Versions, PublishRelease(v)
      PROVE  RestInv'
  <2>1. Queue(v, "build") /\ "build" \in Steps /\ status[v] # "running"
    BY <1>1 DEF PublishRelease, Steps, TypeOK
  <2>. QED BY <2>1, QueueMoves DEF RestInv, Others
<1>2. ASSUME NEW v \in Versions, RerunFailed(v)
      PROVE  RestInv'
  <2>1. Queue(v, step[v]) /\ step[v] \in Steps /\ status[v] # "running"
    BY <1>2 DEF RerunFailed, Steps, TypeOK
  <2>. QED BY <2>1, QueueMoves DEF RestInv, Others
<1>3. ASSUME NEW v \in Versions, RerunAll(v)
      PROVE  RestInv'
  <2>1. Queue(v, "build") /\ "build" \in Steps /\ status[v] # "running"
    BY <1>3 DEF RerunAll, Steps, TypeOK
  <2>. QED BY <2>1, QueueMoves DEF RestInv, Others
<1>4. ASSUME NEW v \in Versions, Start(v)
      PROVE  RestInv'
  BY <1>4 DEF Start, At, RestInv, TypeOK
<1>5. ASSUME NEW v \in Versions, Fail(v)
      PROVE  RestInv'
  <2>1. End(v, "failed") /\ "failed" \in Statuses /\ UNCHANGED <<artifact, github, registry, hand>>
    BY <1>5 DEF Fail, Statuses
  <2>. QED BY <2>1, EndMoves DEF RestInv, Others, github, registry
<1>6. ASSUME NEW v \in Versions, Refuse(v)
      PROVE  RestInv'
  <2>1. End(v, "failed") /\ "failed" \in Statuses /\ UNCHANGED <<artifact, github, registry, hand>>
    BY <1>6 DEF Refuse, Statuses
  <2>. QED BY <2>1, EndMoves DEF RestInv, Others, github, registry
<1>7. ASSUME NEW v \in Versions, Build(v)
      PROVE  RestInv'
  BY <1>7 DEF Build, At, RestInv, TypeOK
<1>8. ASSUME NEW v \in Versions, PlanAssets(v)
      PROVE  RestInv'
  BY <1>8 DEF PlanAssets, At, RestInv, TypeOK
<1>9. ASSUME NEW v \in Versions, AssetsDone(v)
      PROVE  RestInv'
  <2>1. CASE enabled
    <3>1. /\ step' = [step EXCEPT ![v] = "preflight"] /\ UNCHANGED <<status, plan>>
          /\ status[v] = "running"
      BY <2>1, <1>9 DEF AssetsDone, At
    <3>2. \A w \in Versions : w # v => step'[w] = step[w]
      BY <3>1 DEF TypeOK
    <3>. QED BY <3>1, <3>2 DEF RestInv
  <2>2. CASE ~enabled
    <3>1. End(v, "succeeded") /\ "succeeded" \in Statuses /\ UNCHANGED <<artifact, github>>
      BY <2>2, <1>9 DEF AssetsDone, Statuses
    <3>. QED BY <3>1, EndMoves DEF RestInv, Others
  <2>. QED BY <2>1, <2>2
<1>10. ASSUME NEW v \in Versions, NEW f \in {Manifest} \cup Packages, Upload(v, f)
      PROVE  RestInv'
  BY <1>10 DEF Upload, At, RestInv, TypeOK
<1>11. ASSUME NEW v \in Versions, NEW i \in Packages, Preflight(v, i)
      PROVE  RestInv'
  BY <1>11 DEF Preflight, At, RestInv, TypeOK
<1>12. ASSUME NEW v \in Versions, NEW i \in Packages, Skip(v, i)
      PROVE  RestInv'
  <2>1. Proceed(v, i) /\ next[v] = i /\ status[v] = "running"
        /\ UNCHANGED <<artifact, github, registry, hand>> /\ step[v] \in {"publish", "verify"}
    BY <1>12 DEF Skip, At
  <2>. QED BY <2>1, ProceedMoves DEF RestInv, Others, github, registry
<1>13. ASSUME NEW v \in Versions, NEW i \in Packages, Publish(v, i)
      PROVE  RestInv'
  BY <1>13 DEF Publish, At, RestInv, TypeOK
<1>14. ASSUME NEW v \in Versions, NEW i \in Packages, PublishFails(v, i)
      PROVE  RestInv'
  <2>1. End(v, "failed") /\ "failed" \in Statuses /\ UNCHANGED <<artifact, github>>
    BY <1>14 DEF PublishFails, Statuses
  <2>. QED BY <2>1, EndMoves DEF RestInv, Others
<1>15. ASSUME NEW v \in Versions, NEW i \in Packages, Verify(v, i)
      PROVE  RestInv'
  <2>1. Proceed(v, i) /\ next[v] = i /\ status[v] = "running"
        /\ UNCHANGED <<artifact, github, registry, hand>> /\ step[v] \in {"publish", "verify"}
    BY <1>15 DEF Verify, At
  <2>. QED BY <2>1, ProceedMoves DEF RestInv, Others, github, registry
<1>16. ASSUME NEW v \in Versions, NEW i \in Packages, Bootstrap(v, i)
      PROVE  RestInv'
  BY <1>16 DEF Bootstrap, run, RestInv
<1>17. ASSUME Enable
      PROVE  RestInv'
  BY <1>17 DEF Enable, run, RestInv
<1>18. CASE UNCHANGED vars
  BY <1>18 DEF vars, run, RestInv
<1>. QED BY <1>1, <1>2, <1>3, <1>4, <1>5, <1>6, <1>7, <1>8, <1>9, <1>10,
              <1>11, <1>12, <1>13, <1>14, <1>15, <1>16, <1>17, <1>18 DEF Next, Advance, Trouble

\* The manifest that is attached is that of the build a run publishes.
LEMMA BuildNext == TypeOK /\ BuildInv /\ [Next]_vars => BuildInv'
<1> SUFFICES ASSUME TypeOK, BuildInv, [Next]_vars PROVE BuildInv'
  OBVIOUS
<1>1. ASSUME NEW v \in Versions, PublishRelease(v)
      PROVE  BuildInv'
  <2>1. Queue(v, "build") /\ "build" \in Steps /\ status[v] # "running"
    BY <1>1 DEF PublishRelease, Steps, TypeOK
  <2>. QED BY <2>1, QueueMoves DEF BuildInv, NpmSteps, Others
<1>2. ASSUME NEW v \in Versions, RerunFailed(v)
      PROVE  BuildInv'
  <2>1. Queue(v, step[v]) /\ step[v] \in Steps /\ status[v] # "running"
    BY <1>2 DEF RerunFailed, Steps, TypeOK
  <2>. QED BY <2>1, QueueMoves DEF BuildInv, NpmSteps, Others
<1>3. ASSUME NEW v \in Versions, RerunAll(v)
      PROVE  BuildInv'
  <2>1. Queue(v, "build") /\ "build" \in Steps /\ status[v] # "running"
    BY <1>3 DEF RerunAll, Steps, TypeOK
  <2>. QED BY <2>1, QueueMoves DEF BuildInv, NpmSteps, Others
<1>4. ASSUME NEW v \in Versions, Start(v)
      PROVE  BuildInv'
  BY <1>4 DEF Start, At, BuildInv, TypeOK, github, NpmSteps
<1>5. ASSUME NEW v \in Versions, Fail(v)
      PROVE  BuildInv'
  <2>1. End(v, "failed") /\ "failed" \in Statuses /\ UNCHANGED <<artifact, github, registry, hand>>
    BY <1>5 DEF Fail, Statuses
  <2>. QED BY <2>1, EndMoves DEF BuildInv, NpmSteps, Others, github, registry
<1>6. ASSUME NEW v \in Versions, Refuse(v)
      PROVE  BuildInv'
  <2>1. End(v, "failed") /\ "failed" \in Statuses /\ UNCHANGED <<artifact, github, registry, hand>>
    BY <1>6 DEF Refuse, Statuses
  <2>. QED BY <2>1, EndMoves DEF BuildInv, NpmSteps, Others, github, registry
<1>7. ASSUME NEW v \in Versions, Build(v)
      PROVE  BuildInv'
  <2>1. PICK b \in Builds : artifact' = [artifact EXCEPT ![v] = b]
    BY <1>7 DEF Build
  <2>2. artifact'[v] # NoBuild /\ step'[v] = "assets"
    BY <2>1, <1>7, NoBuildAssumption DEF Build, TypeOK
  <2>3. Others(v)
    BY <1>7 DEF Build, TypeOK, Others, github
  <2>. QED BY <2>2, <2>3 DEF BuildInv, Others, NpmSteps
<1>8. ASSUME NEW v \in Versions, PlanAssets(v)
      PROVE  BuildInv'
  <2>1. /\ artifact[v] # NoBuild /\ manifest[v] \in {NoBuild, artifact[v]}
        /\ step'[v] = "upload" /\ missing'[v] = Absent(v)
    BY <1>8 DEF PlanAssets, assetPlan, At, BuildInv, TypeOK
  <2>2. Manifest \in Absent(v) <=> manifest[v] = NoBuild
    BY DEF Absent, Packages, Manifest
  <2>3. Others(v) /\ UNCHANGED <<artifact, manifest>>
    BY <1>8 DEF PlanAssets, TypeOK, Others, github
  <2>. QED BY <2>1, <2>2, <2>3 DEF BuildInv, Others, NpmSteps
<1>9. ASSUME NEW v \in Versions, AssetsDone(v)
      PROVE  BuildInv'
  <2>1. step[v] = "upload" /\ missing[v] = {} /\ UNCHANGED <<artifact, github>>
    BY <1>9 DEF AssetsDone, At
  <2>2. artifact[v] # NoBuild /\ manifest[v] = artifact[v]
    BY <2>1 DEF BuildInv
  <2>3. CASE enabled
    <3>1. step' = [step EXCEPT ![v] = "preflight"] /\ UNCHANGED missing
      BY <2>3, <1>9 DEF AssetsDone
    <3>. QED BY <2>1, <2>2, <3>1 DEF BuildInv, TypeOK, github, NpmSteps
  <2>4. CASE ~enabled
    <3>1. End(v, "succeeded") /\ "succeeded" \in Statuses /\ UNCHANGED <<artifact, github>>
      BY <2>4, <1>9 DEF AssetsDone, Statuses
    <3>2. step'[v] = "build"
      BY <3>1 DEF End, TypeOK
    <3>. QED BY <3>1, <3>2, EndMoves DEF BuildInv, Others, github, NpmSteps
  <2>. QED BY <2>3, <2>4
<1>10. ASSUME NEW v \in Versions, NEW f \in {Manifest} \cup Packages, Upload(v, f)
      PROVE  BuildInv'
  <2>1. step[v] = "upload" /\ f \in missing[v] /\ missing'[v] = missing[v] \ {f}
        /\ artifact[v] # NoBuild /\ UNCHANGED <<step, artifact>>
        /\ \A w \in Versions : w # v => missing'[w] = missing[w]
    BY <1>10 DEF Upload, At, BuildInv, TypeOK
  <2>2. manifest'[v] = IF f = Manifest THEN artifact[v] ELSE manifest[v]
    BY <1>10 DEF Upload, TypeOK
  <2>3. \A w \in Versions : w # v => manifest'[w] = manifest[w]
    BY <1>10 DEF Upload, TypeOK
  <2>. QED BY <2>1, <2>2, <2>3 DEF BuildInv, NpmSteps
<1>11. ASSUME NEW v \in Versions, NEW i \in Packages, Preflight(v, i)
      PROVE  BuildInv'
  BY <1>11 DEF Preflight, At, BuildInv, TypeOK, github, NpmSteps
<1>12. ASSUME NEW v \in Versions, NEW i \in Packages, Skip(v, i)
      PROVE  BuildInv'
  <2>1. Proceed(v, i) /\ next[v] = i /\ status[v] = "running"
        /\ UNCHANGED <<artifact, github, registry, hand>> /\ step[v] \in {"publish", "verify"}
    BY <1>12 DEF Skip, At
  <2>. QED BY <2>1, ProceedMoves DEF BuildInv, NpmSteps, Others, github, registry
<1>13. ASSUME NEW v \in Versions, NEW i \in Packages, Publish(v, i)
      PROVE  BuildInv'
  BY <1>13 DEF Publish, At, BuildInv, TypeOK, github, NpmSteps
<1>14. ASSUME NEW v \in Versions, NEW i \in Packages, PublishFails(v, i)
      PROVE  BuildInv'
  <2>1. End(v, "failed") /\ "failed" \in Statuses /\ UNCHANGED <<artifact, github>>
    BY <1>14 DEF PublishFails, Statuses
  <2>. QED BY <2>1, EndMoves DEF BuildInv, Others, github, NpmSteps
<1>15. ASSUME NEW v \in Versions, NEW i \in Packages, Verify(v, i)
      PROVE  BuildInv'
  <2>1. Proceed(v, i) /\ next[v] = i /\ status[v] = "running"
        /\ UNCHANGED <<artifact, github, registry, hand>> /\ step[v] \in {"publish", "verify"}
    BY <1>15 DEF Verify, At
  <2>. QED BY <2>1, ProceedMoves DEF BuildInv, NpmSteps, Others, github, registry
<1>16. ASSUME NEW v \in Versions, NEW i \in Packages, Bootstrap(v, i)
      PROVE  BuildInv'
  BY <1>16 DEF Bootstrap, run, github, BuildInv
<1>17. ASSUME Enable
      PROVE  BuildInv'
  BY <1>17 DEF Enable, run, github, BuildInv
<1>18. CASE UNCHANGED vars
  BY <1>18 DEF vars, run, github, BuildInv
<1>. QED BY <1>1, <1>2, <1>3, <1>4, <1>5, <1>6, <1>7, <1>8, <1>9, <1>10,
              <1>11, <1>12, <1>13, <1>14, <1>15, <1>16, <1>17, <1>18 DEF Next, Advance, Trouble

-----------------------------------------------------------------------------
(* The registry. *)

\* The packages of one version are those of its manifest.
LEMMA OneBuildNext == TypeOK /\ BuildInv /\ OneBuildPerVersion /\ [Next]_vars => OneBuildPerVersion'
<1> SUFFICES ASSUME TypeOK, BuildInv, OneBuildPerVersion, [Next]_vars PROVE OneBuildPerVersion'
  OBVIOUS
<1>1. ASSUME NEW v \in Versions, PublishRelease(v)
      PROVE  OneBuildPerVersion'
  BY <1>1 DEF PublishRelease, Queue, github, registry, OneBuildPerVersion
<1>2. ASSUME NEW v \in Versions, RerunFailed(v)
      PROVE  OneBuildPerVersion'
  BY <1>2 DEF RerunFailed, Queue, github, registry, OneBuildPerVersion
<1>3. ASSUME NEW v \in Versions, RerunAll(v)
      PROVE  OneBuildPerVersion'
  BY <1>3 DEF RerunAll, Queue, github, registry, OneBuildPerVersion
<1>4. ASSUME NEW v \in Versions, Start(v)
      PROVE  OneBuildPerVersion'
  BY <1>4 DEF Start, github, registry, OneBuildPerVersion
<1>5. ASSUME NEW v \in Versions, Fail(v)
      PROVE  OneBuildPerVersion'
  BY <1>5 DEF Fail, github, registry, OneBuildPerVersion
<1>6. ASSUME NEW v \in Versions, Refuse(v)
      PROVE  OneBuildPerVersion'
  BY <1>6 DEF Refuse, github, registry, OneBuildPerVersion
<1>7. ASSUME NEW v \in Versions, Build(v)
      PROVE  OneBuildPerVersion'
  BY <1>7 DEF Build, github, registry, OneBuildPerVersion
<1>8. ASSUME NEW v \in Versions, PlanAssets(v)
      PROVE  OneBuildPerVersion'
  BY <1>8 DEF PlanAssets, github, registry, OneBuildPerVersion
<1>9. ASSUME NEW v \in Versions, AssetsDone(v)
      PROVE  OneBuildPerVersion'
  BY <1>9 DEF AssetsDone, github, registry, OneBuildPerVersion
<1>10. ASSUME NEW v \in Versions, NEW f \in {Manifest} \cup Packages, Upload(v, f)
      PROVE  OneBuildPerVersion'
  <2>1. \A w \in Versions : manifest'[w] # manifest[w] => w = v /\ manifest[v] = NoBuild
    BY <1>10 DEF Upload, At, BuildInv, TypeOK
  <2>2. npm' = npm
    BY <1>10 DEF Upload, registry
  <2>3. \A w \in Versions, i \in Packages : npm[i][w] # NoFile => manifest[w] # NoBuild
    BY DEF OneBuildPerVersion
  <2>. QED BY <2>1, <2>2, <2>3 DEF OneBuildPerVersion
<1>11. ASSUME NEW v \in Versions, NEW i \in Packages, Preflight(v, i)
      PROVE  OneBuildPerVersion'
  BY <1>11 DEF Preflight, github, registry, OneBuildPerVersion
<1>12. ASSUME NEW v \in Versions, NEW i \in Packages, Skip(v, i)
      PROVE  OneBuildPerVersion'
  BY <1>12 DEF Skip, github, registry, OneBuildPerVersion
<1>13. ASSUME NEW v \in Versions, NEW i \in Packages, Publish(v, i)
      PROVE  OneBuildPerVersion'
  <2>1. /\ artifact[v][i] \in Files /\ Accept(i, v, artifact[v][i]) /\ UNCHANGED github
        /\ manifest[v] = artifact[v] /\ manifest[v] # NoBuild
    BY <1>13, FileOf DEF Publish, At, BuildInv, NpmSteps
  <2>2. npm'[i][v] = artifact[v][i] /\ \A j \in Packages, w \in Versions :
          j # i \/ w # v => npm'[j][w] = npm[j][w]
    BY <2>1, AcceptMoves
  <2>. QED BY <2>1, <2>2 DEF OneBuildPerVersion, github
<1>14. ASSUME NEW v \in Versions, NEW i \in Packages, PublishFails(v, i)
      PROVE  OneBuildPerVersion'
  <2>1. /\ artifact[v][i] \in Files /\ UNCHANGED github
        /\ manifest[v] = artifact[v] /\ manifest[v] # NoBuild
        /\ Accept(i, v, artifact[v][i]) \/ UNCHANGED registry
    BY <1>14, FileOf DEF PublishFails, At, BuildInv, NpmSteps
  <2>2. CASE UNCHANGED registry
    BY <2>1, <2>2 DEF OneBuildPerVersion, github, registry
  <2>3. CASE Accept(i, v, artifact[v][i])
    <3>1. npm'[i][v] = artifact[v][i] /\ \A j \in Packages, w \in Versions :
            j # i \/ w # v => npm'[j][w] = npm[j][w]
      BY <2>1, <2>3, AcceptMoves
    <3>. QED BY <2>1, <3>1 DEF OneBuildPerVersion, github
  <2>. QED BY <2>1, <2>2, <2>3
<1>15. ASSUME NEW v \in Versions, NEW i \in Packages, Verify(v, i)
      PROVE  OneBuildPerVersion'
  BY <1>15 DEF Verify, github, registry, OneBuildPerVersion
<1>16. ASSUME NEW v \in Versions, NEW i \in Packages, Bootstrap(v, i)
      PROVE  OneBuildPerVersion'
  <2>1. /\ attached[v][i] \in Files /\ Accept(i, v, attached[v][i]) /\ UNCHANGED github
        /\ manifest[v] = attached[v] /\ manifest[v] # NoBuild
    BY <1>16, FileOf DEF Bootstrap
  <2>2. npm'[i][v] = attached[v][i] /\ \A j \in Packages, w \in Versions :
          j # i \/ w # v => npm'[j][w] = npm[j][w]
    BY <2>1, AcceptMoves
  <2>. QED BY <2>1, <2>2 DEF OneBuildPerVersion, github
<1>17. ASSUME Enable
      PROVE  OneBuildPerVersion'
  BY <1>17 DEF Enable, github, registry, OneBuildPerVersion
<1>18. CASE UNCHANGED vars
  BY <1>18 DEF vars, github, registry, OneBuildPerVersion
<1>. QED BY <1>1, <1>2, <1>3, <1>4, <1>5, <1>6, <1>7, <1>8, <1>9, <1>10,
              <1>11, <1>12, <1>13, <1>14, <1>15, <1>16, <1>17, <1>18 DEF Next, Advance, Trouble

\* The packages before the one at hand are in the registry.
LEMMA NextNext == TypeOK /\ BuildInv /\ PlanInv /\ NextInv /\ [Next]_vars => NextInv'
<1> SUFFICES ASSUME TypeOK, BuildInv, PlanInv, NextInv, [Next]_vars PROVE NextInv'
  OBVIOUS
<1>1. ASSUME NEW v \in Versions, PublishRelease(v)
      PROVE  NextInv'
  <2>1. Queue(v, "build") /\ "build" \in Steps /\ status[v] # "running"
    BY <1>1 DEF PublishRelease, Steps, TypeOK
  <2>. QED BY <2>1, QueueMoves DEF NextInv, NpmSteps, Others
<1>2. ASSUME NEW v \in Versions, RerunFailed(v)
      PROVE  NextInv'
  <2>1. Queue(v, step[v]) /\ step[v] \in Steps /\ status[v] # "running"
    BY <1>2 DEF RerunFailed, Steps, TypeOK
  <2>. QED BY <2>1, QueueMoves DEF NextInv, NpmSteps, Others
<1>3. ASSUME NEW v \in Versions, RerunAll(v)
      PROVE  NextInv'
  <2>1. Queue(v, "build") /\ "build" \in Steps /\ status[v] # "running"
    BY <1>3 DEF RerunAll, Steps, TypeOK
  <2>. QED BY <2>1, QueueMoves DEF NextInv, NpmSteps, Others
<1>4. ASSUME NEW v \in Versions, Start(v)
      PROVE  NextInv'
  BY <1>4 DEF Start, At, NextInv, TypeOK, registry
<1>5. ASSUME NEW v \in Versions, Fail(v)
      PROVE  NextInv'
  <2>1. End(v, "failed") /\ "failed" \in Statuses /\ UNCHANGED <<artifact, github, registry, hand>>
    BY <1>5 DEF Fail, Statuses
  <2>. QED BY <2>1, EndMoves DEF NextInv, NpmSteps, Others, github, registry
<1>6. ASSUME NEW v \in Versions, Refuse(v)
      PROVE  NextInv'
  <2>1. End(v, "failed") /\ "failed" \in Statuses /\ UNCHANGED <<artifact, github, registry, hand>>
    BY <1>6 DEF Refuse, Statuses
  <2>. QED BY <2>1, EndMoves DEF NextInv, NpmSteps, Others, github, registry
<1>7. ASSUME NEW v \in Versions, Build(v)
      PROVE  NextInv'
  BY <1>7 DEF Build, At, NextInv, TypeOK, registry
<1>8. ASSUME NEW v \in Versions, PlanAssets(v)
      PROVE  NextInv'
  BY <1>8 DEF PlanAssets, At, NextInv, TypeOK, registry
<1>9. ASSUME NEW v \in Versions, AssetsDone(v)
      PROVE  NextInv'
  <2>1. step'[v] \in {"build", "preflight"}
    BY <1>9 DEF AssetsDone, End, TypeOK
  <2>2. Others(v) /\ npm' = npm
    BY <1>9, EndMoves DEF AssetsDone, TypeOK, Others, github, registry, Statuses
  <2>. QED BY <2>1, <2>2 DEF NextInv, Others
<1>10. ASSUME NEW v \in Versions, NEW f \in {Manifest} \cup Packages, Upload(v, f)
      PROVE  NextInv'
  BY <1>10 DEF Upload, At, NextInv, TypeOK, registry
<1>11. ASSUME NEW v \in Versions, NEW i \in Packages, Preflight(v, i)
      PROVE  NextInv'
  <2>1. step'[v] \in {"publish", "preflight"} /\ (step'[v] = "publish" => next'[v] = 1)
    BY <1>11 DEF Preflight, TypeOK
  <2>2. Others(v) /\ npm' = npm
    BY <1>11 DEF Preflight, TypeOK, Others, github, registry
  <2>3. \A j \in Packages : ~(j < 1)
    BY DEF Packages
  <2>. QED BY <2>1, <2>2, <2>3 DEF NextInv, Others
<1>12. ASSUME NEW v \in Versions, NEW i \in Packages, Skip(v, i)
      PROVE  NextInv'
  <2>1. Proceed(v, i) /\ next[v] = i /\ status[v] = "running" /\ npm' = npm
        /\ UNCHANGED <<artifact, github>> /\ step[v] \in {"publish", "verify"}
    BY <1>12 DEF Skip, At, registry
  <2>2. npm[i][v] # NoFile
    BY <1>12 DEF Skip, PlanInv
  <2>3. \A j \in Packages : j < i + 1 => j < i \/ j = i
    BY DEF Packages
  <2>. QED BY <2>1, <2>2, <2>3, ProceedMoves DEF NextInv, Others
<1>13. ASSUME NEW v \in Versions, NEW i \in Packages, Publish(v, i)
      PROVE  NextInv'
  <2>1. artifact[v][i] \in Files /\ Accept(i, v, artifact[v][i])
    BY <1>13, FileOf DEF Publish, At, BuildInv
  <2>2. step'[v] = "verify" /\ step[v] = "publish" /\ UNCHANGED next
        /\ \A w \in Versions : w # v => step'[w] = step[w]
    BY <1>13 DEF Publish, At, TypeOK
  <2>3. \A j \in Packages, w \in Versions : npm[j][w] # NoFile => npm'[j][w] # NoFile
    BY <2>1, AcceptMoves
  <2>. QED BY <2>2, <2>3 DEF NextInv
<1>14. ASSUME NEW v \in Versions, NEW i \in Packages, PublishFails(v, i)
      PROVE  NextInv'
  <2>1. End(v, "failed") /\ "failed" \in Statuses /\ UNCHANGED <<artifact, github>>
    BY <1>14 DEF PublishFails, Statuses
  <2>2. artifact[v][i] \in Files /\ (Accept(i, v, artifact[v][i]) \/ UNCHANGED registry)
    BY <1>14, FileOf DEF PublishFails, At, BuildInv
  <2>3. \A j \in Packages, w \in Versions : npm[j][w] # NoFile => npm'[j][w] # NoFile
    BY <2>2, AcceptMoves DEF registry
  <2>. QED BY <2>1, <2>3, EndMoves DEF NextInv, Others
<1>15. ASSUME NEW v \in Versions, NEW i \in Packages, Verify(v, i)
      PROVE  NextInv'
  <2>1. Proceed(v, i) /\ next[v] = i /\ status[v] = "running" /\ npm' = npm
        /\ UNCHANGED <<artifact, github>> /\ step[v] \in {"publish", "verify"}
    BY <1>15 DEF Verify, At, registry
  <2>2. npm[i][v] # NoFile
    BY <1>15, FileOf, NoFileAssumption DEF Verify, At, BuildInv
  <2>3. \A j \in Packages : j < i + 1 => j < i \/ j = i
    BY DEF Packages
  <2>. QED BY <2>1, <2>2, <2>3, ProceedMoves DEF NextInv, Others
<1>16. ASSUME NEW v \in Versions, NEW i \in Packages, Bootstrap(v, i)
      PROVE  NextInv'
  <2>1. attached[v][i] \in Files /\ Accept(i, v, attached[v][i]) /\ UNCHANGED run
    BY <1>16, FileOf DEF Bootstrap
  <2>3. \A j \in Packages, w \in Versions : npm[j][w] # NoFile => npm'[j][w] # NoFile
    BY <2>1, AcceptMoves
  <2>. QED BY <2>1, <2>3 DEF NextInv, run
<1>17. ASSUME Enable
      PROVE  NextInv'
  BY <1>17 DEF Enable, run, registry, NextInv
<1>18. CASE UNCHANGED vars
  BY <1>18 DEF vars, run, registry, NextInv
<1>. QED BY <1>1, <1>2, <1>3, <1>4, <1>5, <1>6, <1>7, <1>8, <1>9, <1>10,
              <1>11, <1>12, <1>13, <1>14, <1>15, <1>16, <1>17, <1>18 DEF Next, Advance, Trouble

\* The main package comes last.
LEMMA MainNext == TypeOK /\ BuildInv /\ NextInv /\ MainIsLast /\ [Next]_vars => MainIsLast'
<1> SUFFICES ASSUME TypeOK, BuildInv, NextInv, MainIsLast, [Next]_vars PROVE MainIsLast'
  OBVIOUS
<1>1. ASSUME NEW v \in Versions, PublishRelease(v)
      PROVE  MainIsLast'
  BY <1>1 DEF PublishRelease, Queue, registry, MainIsLast
<1>2. ASSUME NEW v \in Versions, RerunFailed(v)
      PROVE  MainIsLast'
  BY <1>2 DEF RerunFailed, Queue, registry, MainIsLast
<1>3. ASSUME NEW v \in Versions, RerunAll(v)
      PROVE  MainIsLast'
  BY <1>3 DEF RerunAll, Queue, registry, MainIsLast
<1>4. ASSUME NEW v \in Versions, Start(v)
      PROVE  MainIsLast'
  BY <1>4 DEF Start, registry, MainIsLast
<1>5. ASSUME NEW v \in Versions, Fail(v)
      PROVE  MainIsLast'
  BY <1>5 DEF Fail, registry, MainIsLast
<1>6. ASSUME NEW v \in Versions, Refuse(v)
      PROVE  MainIsLast'
  BY <1>6 DEF Refuse, registry, MainIsLast
<1>7. ASSUME NEW v \in Versions, Build(v)
      PROVE  MainIsLast'
  BY <1>7 DEF Build, registry, MainIsLast
<1>8. ASSUME NEW v \in Versions, PlanAssets(v)
      PROVE  MainIsLast'
  BY <1>8 DEF PlanAssets, registry, MainIsLast
<1>9. ASSUME NEW v \in Versions, AssetsDone(v)
      PROVE  MainIsLast'
  BY <1>9 DEF AssetsDone, registry, MainIsLast
<1>10. ASSUME NEW v \in Versions, NEW f \in {Manifest} \cup Packages, Upload(v, f)
      PROVE  MainIsLast'
  BY <1>10 DEF Upload, registry, MainIsLast
<1>11. ASSUME NEW v \in Versions, NEW i \in Packages, Preflight(v, i)
      PROVE  MainIsLast'
  BY <1>11 DEF Preflight, registry, MainIsLast
<1>12. ASSUME NEW v \in Versions, NEW i \in Packages, Skip(v, i)
      PROVE  MainIsLast'
  BY <1>12 DEF Skip, registry, MainIsLast
<1>13. ASSUME NEW v \in Versions, NEW i \in Packages, Publish(v, i)
      PROVE  MainIsLast'
  <2>1. artifact[v][i] \in Files /\ Accept(i, v, artifact[v][i])
    BY <1>13, FileOf DEF Publish, At, BuildInv
  <2>2. i = Main => \A j \in Packages : j = i \/ npm[j][v] # NoFile
    BY <1>13 DEF Publish, At, NextInv, Packages
  <2>3. /\ npm'[i][v] # NoFile
        /\ \A j \in Packages, w \in Versions : j # i \/ w # v => npm'[j][w] = npm[j][w]
    BY <2>1, AcceptMoves
  <2>4. Main \in Packages /\ npm[i][v] = NoFile
    BY <2>1, AcceptMoves, MainAssumption DEF Packages
  <2>. QED BY <2>2, <2>3, <2>4 DEF MainIsLast
<1>14. ASSUME NEW v \in Versions, NEW i \in Packages, PublishFails(v, i)
      PROVE  MainIsLast'
  <2>0. CASE UNCHANGED registry
    BY <2>0 DEF registry, MainIsLast
  <2>1. CASE Accept(i, v, artifact[v][i])
    <3>1. artifact[v][i] \in Files
      BY <1>14, FileOf DEF PublishFails, At, BuildInv
    <3>2. i = Main => \A j \in Packages : j = i \/ npm[j][v] # NoFile
      BY <1>14 DEF PublishFails, At, NextInv, Packages
    <3>3. /\ npm'[i][v] # NoFile
          /\ \A j \in Packages, w \in Versions : j # i \/ w # v => npm'[j][w] = npm[j][w]
      BY <2>1, <3>1, AcceptMoves
    <3>4. Main \in Packages /\ npm[i][v] = NoFile
      BY <2>1, <3>1, AcceptMoves, MainAssumption DEF Packages
    <3>. QED BY <3>2, <3>3, <3>4 DEF MainIsLast
  <2>. QED BY <2>0, <2>1, <1>14 DEF PublishFails
<1>15. ASSUME NEW v \in Versions, NEW i \in Packages, Verify(v, i)
      PROVE  MainIsLast'
  BY <1>15 DEF Verify, registry, MainIsLast
<1>16. ASSUME NEW v \in Versions, NEW i \in Packages, Bootstrap(v, i)
      PROVE  MainIsLast'
  <2>1. attached[v][i] \in Files /\ Accept(i, v, attached[v][i])
    BY <1>16, FileOf DEF Bootstrap
  <2>2. i = Main => \A j \in Packages : j = i \/ npm[j][v] # NoFile
    BY <1>16 DEF Bootstrap, Packages
  <2>3. /\ npm'[i][v] # NoFile
        /\ \A j \in Packages, w \in Versions : j # i \/ w # v => npm'[j][w] = npm[j][w]
    BY <2>1, AcceptMoves
  <2>4. Main \in Packages /\ npm[i][v] = NoFile
    BY <2>1, AcceptMoves, MainAssumption DEF Packages
  <2>. QED BY <2>2, <2>3, <2>4 DEF MainIsLast
<1>17. ASSUME Enable
      PROVE  MainIsLast'
  BY <1>17 DEF Enable, registry, MainIsLast
<1>18. CASE UNCHANGED vars
  BY <1>18 DEF vars, registry, MainIsLast
<1>. QED BY <1>1, <1>2, <1>3, <1>4, <1>5, <1>6, <1>7, <1>8, <1>9, <1>10,
              <1>11, <1>12, <1>13, <1>14, <1>15, <1>16, <1>17, <1>18 DEF Next, Advance, Trouble

\* Every package that exists was created by hand.
LEMMA HandNext == TypeOK /\ BuildInv /\ PlanInv /\ HandInv /\ [Next]_vars => HandInv'
<1> SUFFICES ASSUME TypeOK, BuildInv, PlanInv, HandInv, [Next]_vars PROVE HandInv'
  OBVIOUS
<1>1. ASSUME NEW v \in Versions, PublishRelease(v)
      PROVE  HandInv'
  BY <1>1 DEF PublishRelease, Queue, registry, HandInv, Exists
<1>2. ASSUME NEW v \in Versions, RerunFailed(v)
      PROVE  HandInv'
  BY <1>2 DEF RerunFailed, Queue, registry, HandInv, Exists
<1>3. ASSUME NEW v \in Versions, RerunAll(v)
      PROVE  HandInv'
  BY <1>3 DEF RerunAll, Queue, registry, HandInv, Exists
<1>4. ASSUME NEW v \in Versions, Start(v)
      PROVE  HandInv'
  BY <1>4 DEF Start, registry, HandInv, Exists
<1>5. ASSUME NEW v \in Versions, Fail(v)
      PROVE  HandInv'
  BY <1>5 DEF Fail, registry, HandInv, Exists
<1>6. ASSUME NEW v \in Versions, Refuse(v)
      PROVE  HandInv'
  BY <1>6 DEF Refuse, registry, HandInv, Exists
<1>7. ASSUME NEW v \in Versions, Build(v)
      PROVE  HandInv'
  BY <1>7 DEF Build, registry, HandInv, Exists
<1>8. ASSUME NEW v \in Versions, PlanAssets(v)
      PROVE  HandInv'
  BY <1>8 DEF PlanAssets, registry, HandInv, Exists
<1>9. ASSUME NEW v \in Versions, AssetsDone(v)
      PROVE  HandInv'
  BY <1>9 DEF AssetsDone, registry, HandInv, Exists
<1>10. ASSUME NEW v \in Versions, NEW f \in {Manifest} \cup Packages, Upload(v, f)
      PROVE  HandInv'
  BY <1>10 DEF Upload, registry, HandInv, Exists
<1>11. ASSUME NEW v \in Versions, NEW i \in Packages, Preflight(v, i)
      PROVE  HandInv'
  BY <1>11 DEF Preflight, registry, HandInv, Exists
<1>12. ASSUME NEW v \in Versions, NEW i \in Packages, Skip(v, i)
      PROVE  HandInv'
  BY <1>12 DEF Skip, registry, HandInv, Exists
<1>13. ASSUME NEW v \in Versions, NEW i \in Packages, Publish(v, i)
      PROVE  HandInv'
  <2>1. artifact[v][i] \in Files /\ Accept(i, v, artifact[v][i])
    BY <1>13, FileOf DEF Publish, At, BuildInv
  <2>2. Exists(i) /\ hand' = hand
    BY <1>13 DEF Publish, PlanInv
  <2>3. /\ npm'[i][v] # NoFile
        /\ \A j \in Packages, w \in Versions : j # i \/ w # v => npm'[j][w] = npm[j][w]
        /\ \A j \in Packages : j # i => latest'[j] = latest[j]
    BY <2>1, AcceptMoves
  <2>. QED BY <2>1, <2>2, <2>3 DEF HandInv, Exists
<1>14. ASSUME NEW v \in Versions, NEW i \in Packages, PublishFails(v, i)
      PROVE  HandInv'
  <2>0. CASE UNCHANGED registry
    BY <2>0, <1>14 DEF PublishFails, registry, HandInv, Exists
  <2>1. CASE Accept(i, v, artifact[v][i])
    <3>1. artifact[v][i] \in Files
      BY <1>14, FileOf DEF PublishFails, At, BuildInv
    <3>2. Exists(i) /\ hand' = hand
      BY <1>14 DEF PublishFails, PlanInv
    <3>3. /\ npm'[i][v] # NoFile
          /\ \A j \in Packages, w \in Versions : j # i \/ w # v => npm'[j][w] = npm[j][w]
          /\ \A j \in Packages : j # i => latest'[j] = latest[j]
      BY <2>1, <3>1, AcceptMoves
    <3>. QED BY <3>2, <3>3 DEF HandInv, Exists
  <2>. QED BY <2>0, <2>1, <1>14 DEF PublishFails
<1>15. ASSUME NEW v \in Versions, NEW i \in Packages, Verify(v, i)
      PROVE  HandInv'
  BY <1>15 DEF Verify, registry, HandInv, Exists
<1>16. ASSUME NEW v \in Versions, NEW i \in Packages, Bootstrap(v, i)
      PROVE  HandInv'
  <2>1. attached[v][i] \in Files /\ Accept(i, v, attached[v][i])
    BY <1>16, FileOf DEF Bootstrap
  <2>2. hand' = v /\ hand \in {NoVersion, v}
    BY <1>16 DEF Bootstrap
  <2>3. /\ npm'[i][v] # NoFile
        /\ \A j \in Packages, w \in Versions : j # i \/ w # v => npm'[j][w] = npm[j][w]
        /\ \A j \in Packages : j # i => latest'[j] = latest[j]
    BY <2>1, AcceptMoves
  <2>4. NoVersion \notin Versions
    BY VersionsAssumption DEF NoVersion
  <2>. QED BY <2>2, <2>3, <2>4 DEF HandInv, Exists
<1>17. ASSUME Enable
      PROVE  HandInv'
  BY <1>17 DEF Enable, registry, HandInv, Exists
<1>18. CASE UNCHANGED vars
  BY <1>18 DEF vars, registry, HandInv, Exists
<1>. QED BY <1>1, <1>2, <1>3, <1>4, <1>5, <1>6, <1>7, <1>8, <1>9, <1>10,
              <1>11, <1>12, <1>13, <1>14, <1>15, <1>16, <1>17, <1>18 DEF Next, Advance, Trouble

\* A plan stands while the registry gains versions elsewhere.
LEMMA PlanKeep ==
  ASSUME PlanInv,
         \A j \in Packages, w \in Versions : npm[j][w] # NoFile => npm'[j][w] # NoFile,
         \A w \in Versions, j \in Packages :
           /\ plan'[w][j] \in {plan[w][j], "unread"}
           /\ plan'[w][j] = "publish" => latest'[j] = latest[j] \/ latest'[j] \in Versions \ Stable
                                                               \/ latest'[j] = w
  PROVE  PlanInv'
<1>1. \A j \in Packages : Exists(j) => Exists(j)'
  BY DEF Exists
<1>2. ASSUME NEW w \in Versions, NEW j \in Packages, plan'[w][j] = "publish"
      PROVE  ~MovesBack(j, w)'
  <2>1. ~MovesBack(j, w) /\ w \in Nat
    BY <1>2, VersionsAssumption DEF PlanInv
  <2>. QED BY <1>2, <2>1 DEF MovesBack
<1>. QED BY <1>1, <1>2 DEF PlanInv

\* What was planned still holds when it is done.
LEMMA PlanNext == TypeOK /\ RestInv /\ BuildInv /\ HandInv /\ PlanInv /\ [Next]_vars => PlanInv'
<1> SUFFICES ASSUME TypeOK, RestInv, BuildInv, HandInv, PlanInv, [Next]_vars PROVE PlanInv'
  OBVIOUS
<1>1. ASSUME NEW v \in Versions, PublishRelease(v)
      PROVE  PlanInv'
  <2>1. UNCHANGED <<plan, npm, latest>>
    BY <1>1 DEF PublishRelease, Queue, registry
  <2>. QED BY <2>1, PlanKeep
<1>2. ASSUME NEW v \in Versions, RerunFailed(v)
      PROVE  PlanInv'
  <2>1. UNCHANGED <<plan, npm, latest>>
    BY <1>2 DEF RerunFailed, Queue, registry
  <2>. QED BY <2>1, PlanKeep
<1>3. ASSUME NEW v \in Versions, RerunAll(v)
      PROVE  PlanInv'
  <2>1. UNCHANGED <<plan, npm, latest>>
    BY <1>3 DEF RerunAll, Queue, registry
  <2>. QED BY <2>1, PlanKeep
<1>4. ASSUME NEW v \in Versions, Start(v)
      PROVE  PlanInv'
  BY <1>4, PlanKeep DEF Start, registry
<1>5. ASSUME NEW v \in Versions, Fail(v)
      PROVE  PlanInv'
  <2>1. End(v, "failed") /\ "failed" \in Statuses /\ UNCHANGED <<artifact, github, registry>>
    BY <1>5 DEF Fail, Statuses
  <2>2. \A w \in Versions, j \in Packages : plan'[w][j] \in {plan[w][j], "unread"}
    BY <2>1, EndMoves DEF Others
  <2>. QED BY <2>1, <2>2, PlanKeep DEF registry
<1>6. ASSUME NEW v \in Versions, Refuse(v)
      PROVE  PlanInv'
  <2>1. End(v, "failed") /\ "failed" \in Statuses /\ UNCHANGED <<artifact, github, registry>>
    BY <1>6 DEF Refuse, Statuses
  <2>2. \A w \in Versions, j \in Packages : plan'[w][j] \in {plan[w][j], "unread"}
    BY <2>1, EndMoves DEF Others
  <2>. QED BY <2>1, <2>2, PlanKeep DEF registry
<1>7. ASSUME NEW v \in Versions, Build(v)
      PROVE  PlanInv'
  BY <1>7, PlanKeep DEF Build, registry
<1>8. ASSUME NEW v \in Versions, PlanAssets(v)
      PROVE  PlanInv'
  BY <1>8, PlanKeep DEF PlanAssets, registry
<1>9. ASSUME NEW v \in Versions, AssetsDone(v)
      PROVE  PlanInv'
  <2>1. UNCHANGED registry /\ UNCHANGED <<artifact, github>> /\ "succeeded" \in Statuses
    BY <1>9 DEF AssetsDone, Statuses
  <2>2. \A w \in Versions, j \in Packages : plan'[w][j] \in {plan[w][j], "unread"}
    BY <2>1, <1>9, EndMoves DEF AssetsDone, Others
  <2>. QED BY <2>1, <2>2, PlanKeep DEF registry
<1>10. ASSUME NEW v \in Versions, NEW f \in {Manifest} \cup Packages, Upload(v, f)
      PROVE  PlanInv'
  BY <1>10, PlanKeep DEF Upload, registry
<1>11. ASSUME NEW v \in Versions, NEW i \in Packages, Preflight(v, i)
      PROVE  PlanInv'
  <2>1. /\ plan'[v][i] = publicationPlan(i, v) /\ publicationPlan(i, v) # "refused"
        /\ \A w \in Versions, j \in Packages : w # v \/ j # i => plan'[w][j] = plan[w][j]
        /\ UNCHANGED registry
    BY <1>11 DEF Preflight, TypeOK
  <2>2. /\ plan'[v][i] = "existing" => npm[i][v] # NoFile
        /\ plan'[v][i] = "publish" => Exists(i) /\ ~MovesBack(i, v)
    BY <2>1 DEF publicationPlan
  <2>. QED BY <2>1, <2>2 DEF PlanInv, registry, Exists, MovesBack
<1>12. ASSUME NEW v \in Versions, NEW i \in Packages, Skip(v, i)
      PROVE  PlanInv'
  <2>1. Proceed(v, i) /\ next[v] = i /\ status[v] = "running"
        /\ UNCHANGED <<artifact, github, registry>>
    BY <1>12 DEF Skip, At
  <2>2. \A w \in Versions, j \in Packages : plan'[w][j] \in {plan[w][j], "unread"}
    BY <2>1, ProceedMoves DEF Others
  <2>. QED BY <2>1, <2>2, PlanKeep DEF registry
<1>13. ASSUME NEW v \in Versions, NEW i \in Packages, Publish(v, i)
      PROVE  PlanInv'
  <2>1. artifact[v][i] \in Files /\ Accept(i, v, artifact[v][i]) /\ Exists(i) /\ plan' = plan
    BY <1>13, FileOf DEF Publish, At, BuildInv, PlanInv
  <2>2. \A j \in Packages, w \in Versions : npm[j][w] # NoFile => npm'[j][w] # NoFile
    BY <2>1, AcceptMoves
  <2>3. \A w \in Versions : w # v => \A j \in Packages : plan[w][j] = "unread"
    BY <1>13 DEF Publish, At, RestInv, TypeOK
  <2>4. \A j \in Packages : latest'[j] = latest[j] \/ latest'[j] = v
    BY <2>1, AcceptMoves
  <2>. QED BY <2>1, <2>2, <2>3, <2>4, PlanKeep
<1>14. ASSUME NEW v \in Versions, NEW i \in Packages, PublishFails(v, i)
      PROVE  PlanInv'
  <2>1. End(v, "failed") /\ "failed" \in Statuses /\ UNCHANGED <<artifact, github>>
        /\ (Accept(i, v, artifact[v][i]) \/ UNCHANGED registry) /\ artifact[v][i] \in Files
    BY <1>14, FileOf DEF PublishFails, Statuses, At, BuildInv
  <2>2. \A j \in Packages, w \in Versions : npm[j][w] # NoFile => npm'[j][w] # NoFile
    BY <2>1, AcceptMoves DEF registry
  <2>3. \A w \in Versions : w # v => \A j \in Packages : plan[w][j] = "unread"
    BY <1>14 DEF PublishFails, At, RestInv, TypeOK
  <2>4. \A w \in Versions, j \in Packages : plan'[w][j] = "unread"
    BY <2>1, <2>3, EndMoves DEF Others
  <2>. QED BY <2>2, <2>4, PlanKeep
<1>15. ASSUME NEW v \in Versions, NEW i \in Packages, Verify(v, i)
      PROVE  PlanInv'
  <2>1. Proceed(v, i) /\ next[v] = i /\ status[v] = "running"
        /\ UNCHANGED <<artifact, github, registry>>
    BY <1>15 DEF Verify, At
  <2>2. \A w \in Versions, j \in Packages : plan'[w][j] \in {plan[w][j], "unread"}
    BY <2>1, ProceedMoves DEF Others
  <2>. QED BY <2>1, <2>2, PlanKeep DEF registry
<1>16. ASSUME NEW v \in Versions, NEW i \in Packages, Bootstrap(v, i)
      PROVE  PlanInv'
  <2>1. attached[v][i] \in Files /\ Accept(i, v, attached[v][i]) /\ plan' = plan
    BY <1>16, FileOf DEF Bootstrap, run
  <2>2. \A j \in Packages, w \in Versions : npm[j][w] # NoFile => npm'[j][w] # NoFile
    BY <2>1, AcceptMoves
  <2>3. ~Exists(i)
    <3>1. npm[i][v] = NoFile /\ hand \in {NoVersion, v} /\ NoVersion \notin Versions
      BY <2>1, <1>16, AcceptMoves, VersionsAssumption DEF Bootstrap, NoVersion
    <3>. QED BY <3>1 DEF HandInv
  <2>4. \A j \in Packages, w \in Versions : plan[w][j] = "publish" => j # i
    BY <2>3 DEF PlanInv
  <2>5. \A j \in Packages : j # i => latest'[j] = latest[j]
    BY <2>1, AcceptMoves
  <2>. QED BY <2>1, <2>2, <2>4, <2>5, PlanKeep
<1>17. ASSUME Enable
      PROVE  PlanInv'
  BY <1>17, PlanKeep DEF Enable, run, registry
<1>18. CASE UNCHANGED vars
  BY <1>18, PlanKeep DEF vars, run, registry
<1>. QED BY <1>1, <1>2, <1>3, <1>4, <1>5, <1>6, <1>7, <1>8, <1>9, <1>10,
              <1>11, <1>12, <1>13, <1>14, <1>15, <1>16, <1>17, <1>18 DEF Next, Advance, Trouble

-----------------------------------------------------------------------------
(* The properties. *)

LEMMA IInvInit == Init => IInv
<1> SUFFICES ASSUME Init PROVE IInv
  OBVIOUS
<1>1. /\ \A i \in Packages, v \in Versions : npm[i][v] = NoFile /\ plan[v][i] = "unread"
      /\ \A i \in Packages : latest[i] = NoVersion
  BY DEF Init
<1>2. Main \in Packages /\ \A v \in Versions : step[v] = "build"
  BY MainAssumption DEF Init, Packages
<1>3. RestInv
  BY <1>1, <1>2 DEF RestInv
<1>4. BuildInv
  BY <1>2 DEF BuildInv, NpmSteps
<1>5. NextInv
  BY <1>2 DEF NextInv
<1>6. HandInv
  <2>1. \A i \in Packages : ~Exists(i) /\ latest[i] = NoVersion
    BY <1>1 DEF Exists
  <2>. QED BY <2>1 DEF HandInv
<1>7. PlanInv
  BY <1>1 DEF PlanInv
<1>8. OneBuildPerVersion /\ MainIsLast
  BY <1>1, <1>2 DEF OneBuildPerVersion, MainIsLast
<1>. QED BY <1>3, <1>4, <1>5, <1>6, <1>7, <1>8 DEF IInv

LEMMA Invariant == Spec => [](TypeOK /\ IInv)
<1>1. TypeOK /\ IInv /\ [Next]_vars => TypeOK' /\ IInv'
  BY TypeNext, RestNext, BuildNext, OneBuildNext, NextNext, MainNext, HandNext, PlanNext DEF IInv
<1>. QED BY <1>1, TypeInit, IInvInit, PTL DEF Spec

\* Every variable keeps its type, and one run at most is in progress.
THEOREM TypeCorrect == Spec => []TypeOK
<1>. QED BY Invariant, PTL

\* A main package that can be installed finds every platform package.
THEOREM MainLast == Spec => []MainIsLast
<1>1. IInv => MainIsLast
  BY DEF IInv
<1>. QED BY <1>1, Invariant, PTL

\* The packages of one version come from the build its manifest describes.
THEOREM OneBuild == Spec => []OneBuildPerVersion
<1>1. IInv => OneBuildPerVersion
  BY DEF IInv
<1>. QED BY <1>1, Invariant, PTL

\* Whoever publishes, latest never goes back to an earlier stable version.
LEMMA LatestAccept ==
  ASSUME TypeOK, NEW v \in Versions, NEW i \in Packages, NEW file \in Files,
         Accept(i, v, file), ~MovesBack(i, v)
  PROVE  \A j \in Packages :
           latest[j] \in Stable /\ latest'[j] \in Stable => latest'[j] >= latest[j]
<1>1. v \in Nat /\ latest[i] \in Nat
  <2>1. latest[i] \in {NoVersion} \cup Versions
    BY DEF TypeOK
  <2>2. \A x \in Versions : x \in Nat
    BY VersionsAssumption
  <2>3. NoVersion \in Nat
    BY DEF NoVersion
  <2>. QED BY <2>1, <2>2, <2>3
<1>2. \A j \in Packages : j # i => latest'[j] = latest[j]
  BY AcceptMoves
<1>3. \A x \in Stable : x >= x
  BY VersionsAssumption
<1>4. CASE v \in Stable
  <2>1. latest'[i] = v
    BY <1>4, AcceptMoves
  <2>2. latest[i] \in Stable => ~(latest[i] > v)
    BY <1>4 DEF MovesBack
  <2>3. latest[i] \in Stable => latest'[i] >= latest[i]
    BY <1>1, <2>1, <2>2
  <2>. QED BY <1>2, <1>3, <2>3
<1>5. CASE v \notin Stable
  <2>1. latest'[i] = latest[i] \/ latest'[i] = v
    BY <1>5, AcceptMoves
  <2>. QED BY <1>2, <1>3, <1>5, <2>1
<1>. QED BY <1>4, <1>5

LEMMA LatestStep ==
  ASSUME TypeOK, IInv, [Next]_vars
  PROVE  \A j \in Packages :
           latest[j] \in Stable /\ latest'[j] \in Stable => latest'[j] >= latest[j]
<1>1. CASE latest' = latest
  <2>1. \A j \in Packages : latest[j] \in Stable => latest[j] \in Nat
    BY VersionsAssumption
  <2>. QED BY <1>1, <2>1
<1>2. ASSUME NEW v \in Versions, NEW i \in Packages, Publish(v, i) \/ PublishFails(v, i)
      PROVE  latest' = latest \/ (/\ artifact[v][i] \in Files /\ Accept(i, v, artifact[v][i])
                                  /\ ~MovesBack(i, v))
  BY <1>2, FileOf DEF Publish, PublishFails, At, IInv, BuildInv, PlanInv, registry
<1>3. ASSUME NEW v \in Versions, NEW i \in Packages, Bootstrap(v, i)
      PROVE  /\ attached[v][i] \in Files /\ Accept(i, v, attached[v][i])
             /\ ~MovesBack(i, v)
  <2>1. attached[v][i] \in Files /\ Accept(i, v, attached[v][i]) /\ hand \in {NoVersion, v}
    BY <1>3, FileOf DEF Bootstrap
  <2>2. npm[i][v] = NoFile /\ NoVersion \notin Versions
    BY <2>1, AcceptMoves, VersionsAssumption DEF NoVersion
  <2>3. latest[i] = NoVersion
    BY <2>1, <2>2 DEF IInv, HandInv
  <2>. QED BY <2>1, <2>2, <2>3, VersionsAssumption DEF MovesBack
<1>4. \/ latest' = latest
      \/ \E v \in Versions, i \in Packages :
           Publish(v, i) \/ PublishFails(v, i) \/ Bootstrap(v, i)
  BY DEF Next, Advance, Trouble, vars, registry, PublishRelease, RerunFailed, RerunAll, Queue,
         Start, Fail, Refuse, Build, PlanAssets, AssetsDone, Upload, Preflight, Skip, Verify,
         Enable
<1>. QED BY <1>1, <1>2, <1>3, <1>4, LatestAccept

\* The tag latest never goes back from a stable version to an earlier one.
THEOREM LatestOnwards == Spec => LatestNeverGoesBack
<1>1. TypeOK /\ IInv /\ [Next]_vars =>
        [\A i \in Packages :
           latest[i] \in Stable /\ latest'[i] \in Stable => latest'[i] >= latest[i]]_vars
  BY LatestStep
<1>. QED BY <1>1, Invariant, PTL DEF Spec, LatestNeverGoesBack
=============================================================================
