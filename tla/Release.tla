------------------------------- MODULE Release -------------------------------
(***************************************************************************)
(* The publication of releases: the workflow npm-release.yml and the       *)
(* scripts it runs (release-event, upload-assets, publish, release-model). *)
(* A run of the workflow builds the packages of one version, attaches them *)
(* to the GitHub release, and publishes them to the npm registry, the      *)
(* platform packages first and the main package, which installs them,      *)
(* last.  A run may fail between any two steps, with or without the effect *)
(* of the step under way; it is rerun by hand, from the job that failed or *)
(* as a whole, in the latter case with a new build whose files may differ. *)
(* Runs of different versions share a concurrency group.  The first        *)
(* version is published by hand from the release's files, as               *)
(* bootstrap-plan.mjs prints it.                                           *)
(***************************************************************************)
EXTENDS Integers

CONSTANTS
  Versions, \* the versions released, numbered in the order of SemVer
  Stable,   \* those that are no prereleases
  Main,     \* the main package; 1..(Main-1) are the platform packages
  Files,    \* what a package file may contain
  Builds,   \* the sets of package files a build may produce
  NoFile,   \* no such version of a package, or no such attachment
  NoBuild   \* nothing was built, or release.json is not attached

Packages  == 1..Main
NoVersion == 0
Manifest  == 0   \* release.json, among the names of attachments

ASSUME VersionsAssumption == Versions \subseteq Nat \ {0} /\ Stable \subseteq Versions
ASSUME MainAssumption == Main \in Nat \ {0}
ASSUME BuildsAssumption == Builds \subseteq [Packages -> Files]
ASSUME NoFileAssumption == NoFile \notin Files
ASSUME NoBuildAssumption == \A b \in Builds : b # NoBuild

VARIABLES
  status,   \* status[v]: the workflow run of version v
  step,     \* step[v]: what that run does next
  artifact, \* artifact[v]: the build that its jobs hand on
  missing,  \* missing[v]: the attachments still to upload
  next,     \* next[v]: the package at hand
  plan,     \* plan[v]: what to do with each package
  manifest, \* manifest[v]: the release.json attached to the GitHub release
  attached, \* attached[v]: the package files attached to the GitHub release
  npm,      \* npm[i][v]: version v of package i in the registry
  latest,   \* latest[i]: the dist-tag latest of package i
  enabled,  \* the repository variable NPM_PUBLISH_ENABLED
  hand      \* the version that is published by hand

github   == <<manifest, attached>>
registry == <<npm, latest>>
run      == <<status, step, artifact, missing, next, plan>>
vars     == <<run, github, registry, enabled, hand>>

Statuses == {"unpublished", "queued", "running", "failed", "succeeded", "cancelled"}
Steps    == {"build", "assets", "upload", "preflight", "publish", "verify"}
Todo     == {"unread", "publish", "existing"}
NpmSteps == {"preflight", "publish", "verify"}

Exists(i) == \E v \in Versions : npm[i][v] # NoFile
At(v, s)  == status[v] = "running" /\ step[v] = s

-----------------------------------------------------------------------------
(* The concurrency group: one run at a time, and one that waits. *)

\* GitHub cancels the run that waits when another one is queued.
Queue(v, s) ==
  /\ status' = [w \in Versions |->
                  IF w = v THEN "queued"
                  ELSE IF status[w] = "queued" THEN "cancelled" ELSE status[w]]
  /\ step' = [step EXCEPT ![v] = s]
  /\ UNCHANGED <<artifact, missing, next, plan, github, registry, enabled, hand>>

PublishRelease(v) == status[v] = "unpublished" /\ Queue(v, "build")

RerunAll(v) == status[v] \in {"failed", "succeeded", "cancelled"} /\ Queue(v, "build")

\* The job that failed is run again, with the files of the same build.
RerunFailed(v) ==
  /\ status[v] \in {"failed", "cancelled"}
  /\ Queue(v, step[v])

\* A slip of Start: runs of different versions overlap.
StartOverlapping(v) ==
  /\ status[v] = "queued"
  /\ status' = [status EXCEPT ![v] = "running"]
  /\ UNCHANGED <<step, artifact, missing, next, plan, github, registry, enabled, hand>>

Start(v) ==
  /\ status[v] = "queued"
  /\ \A w \in Versions : status[w] # "running"
  /\ status' = [status EXCEPT ![v] = "running"]
  /\ UNCHANGED <<step, artifact, missing, next, plan, github, registry, enabled, hand>>

\* The job in which a step is taken, which is where a rerun begins.
Job(s) == IF s \in NpmSteps THEN "preflight"
          ELSE IF s \in {"assets", "upload"} THEN "assets" ELSE "build"

\* What a script knows is gone with it.
End(v, s) ==
  /\ status' = [status EXCEPT ![v] = s]
  /\ step' = [step EXCEPT ![v] = IF s = "failed" THEN Job(step[v]) ELSE "build"]
  /\ missing' = [missing EXCEPT ![v] = {}]
  /\ next' = [next EXCEPT ![v] = 1]
  /\ plan' = [plan EXCEPT ![v] = [i \in Packages |-> "unread"]]

\* A command, the network or the runner fails: the job stops, and the jobs
\* that need it do not run.
Fail(v) ==
  /\ status[v] = "running"
  /\ End(v, "failed")
  /\ UNCHANGED <<artifact, github, registry, enabled, hand>>

-----------------------------------------------------------------------------
(* The jobs build and assets. *)

Build(v) ==
  /\ At(v, "build")
  /\ \E b \in Builds : artifact' = [artifact EXCEPT ![v] = b]
  /\ step' = [step EXCEPT ![v] = "assets"]
  /\ UNCHANGED <<status, missing, next, plan, github, registry, enabled, hand>>

Absent(v) ==
  {i \in Packages : attached[v][i] = NoFile}
    \cup (IF manifest[v] = NoBuild THEN {Manifest} ELSE {})

\* A slip of assetPlan: an attachment of the same name is not compared.
assetPlanByName(v) == TRUE

\* What is attached already must be what this build made.
assetPlan(v) ==
  /\ \A i \in Packages : attached[v][i] \in {NoFile, artifact[v][i]}
  /\ manifest[v] \in {NoBuild, artifact[v]}

PlanAssets(v) ==
  /\ At(v, "assets")
  /\ assetPlan(v)
  /\ missing' = [missing EXCEPT ![v] = Absent(v)]
  /\ step' = [step EXCEPT ![v] = "upload"]
  /\ UNCHANGED <<status, artifact, next, plan, github, registry, enabled, hand>>

\* gh uploads in any order; it never replaces an attachment.
Upload(v, f) ==
  /\ At(v, "upload")
  /\ f \in missing[v]
  /\ missing' = [missing EXCEPT ![v] = missing[v] \ {f}]
  /\ IF f = Manifest
     THEN manifest' = [manifest EXCEPT ![v] = artifact[v]] /\ UNCHANGED attached
     ELSE attached' = [attached EXCEPT ![v][f] = artifact[v][f]] /\ UNCHANGED manifest
  /\ UNCHANGED <<status, step, artifact, next, plan, registry, enabled, hand>>

\* The job npm needs the job assets, and is skipped unless it is enabled.
AssetsDone(v) ==
  /\ At(v, "upload") /\ missing[v] = {}
  /\ IF enabled
     THEN /\ step' = [step EXCEPT ![v] = "preflight"]
          /\ UNCHANGED <<status, missing, next, plan>>
     ELSE End(v, "succeeded")
  /\ UNCHANGED <<artifact, github, registry, enabled, hand>>

-----------------------------------------------------------------------------
(* The job npm: publish.mjs. *)

\* The registry takes a version once; a tag "next" moves latest at most for
\* the first version of a package.
Accept(i, v, file) ==
  /\ npm[i][v] = NoFile
  /\ npm' = [npm EXCEPT ![i][v] = file]
  /\ \E tagged \in IF v \in Stable THEN {v}
                   ELSE IF Exists(i) THEN {latest[i]} ELSE {latest[i], v} :
       latest' = [latest EXCEPT ![i] = tagged]

\* A stable version does not move latest back from a later stable one.
MovesBack(i, v) == v \in Stable /\ latest[i] \in Stable /\ latest[i] > v

\* Slips of publicationPlan: what exists is published again; latest is not
\* looked at.
publicationPlanBlind(i, v) ==
  IF Exists(i) /\ ~MovesBack(i, v) THEN "publish" ELSE "refused"
publicationPlanAnyTag(i, v) ==
  IF npm[i][v] # NoFile
  THEN IF npm[i][v] = artifact[v][i] THEN "existing" ELSE "refused"
  ELSE IF Exists(i) THEN "publish" ELSE "refused"

\* publicationPlan for one package: skip the same file, never overwrite or
\* create, never move latest back.
publicationPlan(i, v) ==
  IF npm[i][v] # NoFile
  THEN IF npm[i][v] = artifact[v][i] THEN "existing" ELSE "refused"
  ELSE IF Exists(i) /\ ~MovesBack(i, v) THEN "publish" ELSE "refused"

\* One request for each package; nothing is written before all are planned.
Preflight(v, i) ==
  /\ At(v, "preflight") /\ next[v] = i
  /\ publicationPlan(i, v) # "refused"
  /\ plan' = [plan EXCEPT ![v][i] = publicationPlan(i, v)]
  /\ next' = [next EXCEPT ![v] = IF i = Main THEN 1 ELSE i + 1]
  /\ step' = [step EXCEPT ![v] = IF i = Main THEN "publish" ELSE "preflight"]
  /\ UNCHANGED <<status, artifact, missing, github, registry, enabled, hand>>

\* On to the next package, or the end of the run.
Proceed(v, i) ==
  IF i = Main THEN End(v, "succeeded")
  ELSE /\ step' = [step EXCEPT ![v] = "publish"]
       /\ next' = [next EXCEPT ![v] = i + 1]
       /\ UNCHANGED <<status, missing, plan>>

Skip(v, i) ==
  /\ At(v, "publish") /\ next[v] = i
  /\ plan[v][i] = "existing"
  /\ Proceed(v, i)
  /\ UNCHANGED <<artifact, github, registry, enabled, hand>>

Publish(v, i) ==
  /\ At(v, "publish") /\ next[v] = i
  /\ plan[v][i] = "publish"
  /\ Accept(i, v, artifact[v][i])
  /\ step' = [step EXCEPT ![v] = "verify"]
  /\ UNCHANGED <<status, artifact, missing, next, plan, github, enabled, hand>>

\* A slip of PublishFails: the failure of one package does not stop the rest.
PublishFailsOn(v, i) ==
  /\ At(v, "publish") /\ next[v] = i
  /\ plan[v][i] = "publish"
  /\ Proceed(v, i)
  /\ UNCHANGED <<artifact, github, registry, enabled, hand>>

\* npm reports an error, after the registry took the version or without.
PublishFails(v, i) ==
  /\ At(v, "publish") /\ next[v] = i
  /\ plan[v][i] = "publish"
  /\ Accept(i, v, artifact[v][i]) \/ UNCHANGED registry
  /\ End(v, "failed")
  /\ UNCHANGED <<artifact, github, enabled, hand>>

\* The registry must show the very file before the next package.
Verify(v, i) ==
  /\ At(v, "verify") /\ next[v] = i
  /\ npm[i][v] = artifact[v][i]
  /\ Proceed(v, i)
  /\ UNCHANGED <<artifact, github, registry, enabled, hand>>

\* What the scripts refuse: another file attached or published under the
\* same version, a package that does not exist, latest moved back.
Refuse(v) ==
  /\ \/ At(v, "assets") /\ ~assetPlan(v)
     \/ At(v, "preflight") /\ publicationPlan(next[v], v) = "refused"
  /\ End(v, "failed")
  /\ UNCHANGED <<artifact, github, registry, enabled, hand>>

-----------------------------------------------------------------------------
(* The maintainer. *)

\* bootstrap-plan.mjs: the files attached, checked against release.json, are
\* published in its order: every package is created this way, once.
Bootstrap(v, i) ==
  /\ hand \in {NoVersion, v}
  /\ manifest[v] # NoBuild /\ attached[v] = manifest[v]
  /\ \A j \in 1..(i - 1) : npm[j][v] # NoFile
  /\ Accept(i, v, attached[v][i])
  /\ hand' = v
  /\ UNCHANGED <<run, github, enabled>>

Enable ==
  /\ ~enabled
  /\ enabled' = TRUE
  /\ UNCHANGED <<run, github, registry, hand>>

-----------------------------------------------------------------------------
Init ==
  /\ status = [v \in Versions |-> "unpublished"]
  /\ step = [v \in Versions |-> "build"]
  /\ artifact = [v \in Versions |-> NoBuild]
  /\ missing = [v \in Versions |-> {}]
  /\ next = [v \in Versions |-> 1]
  /\ plan = [v \in Versions |-> [i \in Packages |-> "unread"]]
  /\ manifest = [v \in Versions |-> NoBuild]
  /\ attached = [v \in Versions |-> [i \in Packages |-> NoFile]]
  /\ npm = [i \in Packages |-> [v \in Versions |-> NoFile]]
  /\ latest = [i \in Packages |-> NoVersion]
  /\ enabled = FALSE
  /\ hand = NoVersion

\* A step by which a run gets on or is refused.
Advance(v) ==
  \/ Build(v) \/ PlanAssets(v) \/ AssetsDone(v) \/ Refuse(v)
  \/ \E f \in {Manifest} \cup Packages : Upload(v, f)
  \/ \E i \in Packages : Preflight(v, i) \/ Skip(v, i) \/ Publish(v, i) \/ Verify(v, i)

\* A failure that is no refusal, or a rerun that is not asked for.
Trouble ==
  \E v \in Versions : Fail(v) \/ RerunAll(v) \/ \E i \in Packages : PublishFails(v, i)

Next ==
  \/ \E v \in Versions :
       \/ PublishRelease(v) \/ RerunFailed(v) \/ Start(v) \/ Advance(v)
       \/ \E i \in Packages : Bootstrap(v, i)
  \/ Trouble
  \/ Enable

Spec == Init /\ [][Next]_vars

\* Failed runs are rerun, a version begun by hand is finished, runs get on,
\* and from some time on nothing fails without a reason.
FairSpec ==
  /\ Spec
  /\ WF_vars(Enable)
  /\ \A v \in Versions :
       /\ WF_vars(RerunFailed(v)) /\ SF_vars(Start(v)) /\ WF_vars(Advance(v))
       /\ WF_vars(hand = v /\ \E i \in Packages : Bootstrap(v, i))
  /\ <>[][~Trouble]_vars

-----------------------------------------------------------------------------
(***************************************************************************)
(* Properties.                                                             *)
(***************************************************************************)

\* The type invariant; at most one run is in progress.
TypeOK ==
  /\ status \in [Versions -> Statuses]
  /\ step \in [Versions -> Steps]
  /\ artifact \in [Versions -> {NoBuild} \cup Builds]
  /\ missing \in [Versions -> SUBSET ({Manifest} \cup Packages)]
  /\ next \in [Versions -> Packages]
  /\ plan \in [Versions -> [Packages -> Todo]]
  /\ manifest \in [Versions -> {NoBuild} \cup Builds]
  /\ attached \in [Versions -> [Packages -> {NoFile} \cup Files]]
  /\ npm \in [Packages -> [Versions -> {NoFile} \cup Files]]
  /\ latest \in [Packages -> {NoVersion} \cup Versions]
  /\ enabled \in BOOLEAN
  /\ hand \in {NoVersion} \cup Versions
  /\ \A v, w \in Versions : status[v] = "running" /\ status[w] = "running" => v = w

\* The main package comes last: a version of it that can be installed finds
\* every platform package, whatever failed, was rerun or done by hand.
MainIsLast ==
  \A v \in Versions : npm[Main][v] # NoFile =>
    \A i \in Packages : npm[i][v] # NoFile

\* What the registry serves is what the release's manifest describes: the
\* packages of one version come from one build, over all reruns and rebuilds.
OneBuildPerVersion ==
  \A v \in Versions, i \in Packages : npm[i][v] # NoFile =>
    manifest[v] # NoBuild /\ npm[i][v] = manifest[v][i]

\* The tag latest never goes back from a stable version to an earlier one,
\* although it is looked at long before the package is published.
LatestNeverGoesBack ==
  [][\A i \in Packages :
       latest[i] \in Stable /\ latest'[i] \in Stable => latest'[i] >= latest[i]]_vars

\* A publication that stopped after some packages can always be finished by
\* reruns, unless a later version took latest meanwhile, or the last build
\* differs from the one that is attached: that one has to be attached anew.
PublicationFinishes ==
  \A v \in Versions :
    npm[1][v] # NoFile ~>
      \/ npm[Main][v] # NoFile
      \/ \E i \in Packages : latest[i] > v
      \/ artifact[v] # manifest[v]
=============================================================================
