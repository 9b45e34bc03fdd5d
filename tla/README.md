# A verification project for sushiro-cli

TLA+ models of the parts of sushiro-cli where order, failure and concurrency
decide whether it is right, TLC runs on small instances of them, and TLAPS
proofs for every instance. Sources are named relative to the repository.

## The system

sushiro-cli is one Go binary: a command line, an interactive loop and a stdio
MCP server over one service, plus the scripts that publish it.

| Component | State | Operations | Talks to |
| --- | --- | --- | --- |
| Service (`internal/service`) | none between calls; per call the request and the result | `Execute`, `reconcile`, `ValidateRequest` | the providers, the HTTP client |
| HTTP client (`internal/api`) | credentials of one call, a 15 s timeout | `Reserve`, `Cancel`, `Reservations`, `StoresNear`, `Slots`, `CurrentTicketStatus`; `request`, `businessError`, `HTTPError`, `list`, `record` | the ticketing API, which other clients of the account use too |
| Configuration stores (`internal/auth`) | `<profile>.json` in a private directory, a mutex per store | `Load`, `Save`, `Delete`; import of documents | the file system, other processes |
| Wiring (`cmd/sushiro-cli`) | the store opened once (`sync.Once`), the signal context | adapters `Load`, `Status`, `Import`; `main` | stores, service, CLI, MCP |
| Documents (`internal/auth`) | none; a document, the fields seen, the decoded value | `ImportJSON`, `ImportPublicJSON`, `Validate`, what `Save` writes and `Load` decodes | the stores |
| Command line (`internal/cli`) | the interactive loop: line, request shown; per line the flags and the command | `Run`, `parseOperation`, `emit`, `auth`, `interactive` | the service, stdin, stdout |
| MCP server (`internal/mcp`) | none of its own; handlers run concurrently | one tool per operation | the service |
| Release scripts (`scripts/release`, workflows) | packages in the npm registry, GitHub release assets, workflow runs | build, upload assets, plan and publish, verify, bootstrap by hand, rerun | registries |
| Launcher (`packaging/npm/launcher.cjs`) | the child process, signal handlers, exit status | resolve and spawn, forward signals, end as the child did | the binary |

What is hard here, and what makes each component correct:

- **A write whose fate is unknown.** The answer to a reserve or cancel may be
  lost, be a gateway's 5xx, or be unreadable, and the write may take effect
  after the program has reconciled and answered. *Correct* means: "failed" is
  said only of a write that is dead for good, a reserve is "confirmed" only with
  the ticket that its own request created, a cancel only of a ticket that is
  cancelled (perhaps by another client of the account), everything else is
  "uncertain", comes with evidence, and is never submitted again.
- **Several processes on one file.** An MCP server loads the configuration for
  every tool call while a command line imports a new one, and either may be
  killed or lose power. *Correct* means: readers see whole documents, an
  import's report is true, and the built-in default is used only where a file
  is missing.
- **A human confirmation.** Writes typed into the interactive loop leave the
  program only after the request was shown and answered with "yes". A signal
  does not interrupt the wait for a line. *Correct* means: nothing else is
  sent, and nothing after the signal.
- **One line, three readers.** The loop looks at a typed line to find writes
  and commands that it does not allow, then hands the rest to `App.Run`, which
  reads it anew, takes global flags out wherever they stand, and only then
  parses the operation. *Correct* means: no spelling makes the later readers
  see a write where the loop saw none, no write runs without its own
  `--confirm`, and no command runs on another account than the one that the
  line, or else the launch, chose.
- **One document, two readings.** An import is scanned key by key, then decoded
  by `encoding/json`, which takes the last of several keys, in any case.
  *Correct* means: what is stored is what every reader of the document would
  have taken it for, and it can be loaded again.
- **Two processes and their signals.** The launcher must end as its child did,
  and a signal that it forwards must not leave the child behind, once its
  handlers are on; one that it cannot catch does (`docs/distribution/README.md:62`).
  A terminal sends Ctrl-C to both.
- **Publication in steps.** Building, attaching, planning and publishing many
  packages may stop anywhere, and the whole or a part is run again, by hand or
  not, with a build that may differ. *Correct* means: a version is installable
  only when all its packages are there, they come from one build, `latest`
  never goes back, and a publication that stopped can be finished.

`PROJECT.json` lists these hazards at their lines with the properties that
cover them.

## Modules

| Module | Models |
| --- | --- |
| `Response` | How `client.go` reads one answer. Pure operators over an abstract reply: status, form of the body, first telling business code, ticket found, list found. |
| `ReservationService` | `Service.Execute` and the client it drives; many calls at once; upstream, network and other clients as environment. |
| `WriteContract` | What the program promises about a write: the abstract specification. |
| `ReservationRefinement` | The refinement mapping from the service to the contract. |
| `ConfigStore` | One profile's file: the stores and adapters at the grain of system calls. |
| `ConfigContract` | What the program promises about a configuration: an atomic register. The abstract specification. |
| `ConfigRefinement` | The refinement mapping from the stores to the register. |
| `Interactive` | The interactive loop, composed with `ReservationService`. |
| `Answers` | How `client.go` decodes a body: code fields, lists, nested tickets. Computed on JSON values and compared with `Response`. |
| `Documents` | What is in a configuration file: import, validation, storing and loading again. |
| `Commands` | From the tokens of a line to what is run and its exit code. |
| `Launcher` | The npm launcher, its child and the signals. |
| `Release` | The workflow that builds, attaches and publishes, with its reruns, and the maintainer. |
| `MC*` | Instances for TLC. |
| `*Proofs` | The theorems: of `ReservationService`, `ConfigStore` and their refinements, `Interactive`, `Answers`, `Documents`, `Commands`, `Launcher` and `Release`. |

`Interactive` extends `ReservationService`, which extends `Response`;
`Answers` instantiates `Response` and compares itself with it.
`ReservationRefinement` instantiates `WriteContract`, `ConfigRefinement` `ConfigContract`. `Documents` and
`ConfigStore` describe one file from its two sides, content and place;
`Commands` describes how a line is read, and `Interactive` what a session makes
of the lines.

Definitions whose comment calls them a *slip* are not part of the model: each
is a wrong version of the definition after it, kept so that it can be shown
that a property would notice the mistake.

### ReservationService

Each member of `Calls` is one invocation of `Execute`. The MCP server runs any
number at once, so `Calls` with two members is the MCP server with two tool
calls, and with one member the one-shot command line.

| State | Code |
| --- | --- |
| `pc[c]` | the place in `Execute`: validated, loading, sending, waiting for the answer, reconciling, reading the list, returned |
| `req[c]`, `result[c]` | `Request`, `Result`; the argument checks other than confirm and ticket are the boolean `argsOK`; data is the set of tickets named |
| `ctx[c]` | the context: `signal.NotifyContext`, or the MCP request's |
| `answer[c]` | the HTTP answer on its way to the call |
| `write[c]` | external: what upstream makes of the write: unsent, pending, applied, refused, lost |
| `tickets`, `maker` | external: the account's tickets, and which call created one |
| `standing[c]` | history: tickets active ever since the call sent its last request |

| Action | Code |
| --- | --- |
| `Execute` | service.go:71-77, `ValidateRequest` |
| `LoadConfig` | service.go:79-115: the providers' outcomes and the errors they become |
| `Send`, `GiveUp`, `Receive` | client.go:33-97 around `Do`, then the switch of `Execute` (`Settle`) |
| `SendList`, `ReceiveList`, `GiveUpList` | `reconcile`, and for cancel the search for the cancelled record |
| `CancelContext` | a signal, or the MCP client's cancellation |
| `ApplyReserve`, `ApplyCancel`, `RefuseWrite`, `LoseWrite`, `AnswerEarly`, `AnswerQuery`, `OthersCreate`, `OthersCancel` | upstream, the network, other clients |

Upstream is outside the repository. The module states the four things the code
relies on (U1 to U4, above `SaysRefused`) and the environment may do anything
that they allow: apply a write at any time, after the caller was answered too;
answer before it applies; answer with any shape of reply; never answer. The
assumptions are the ones without which no client could report anything: a
definite refusal is final, a success names the ticket it created, a
well-formed list is true when it is sent, a write takes effect at most once.

### ConfigStore

A call is a load, an import or a deletion, made by a process `ProcOf[c]`. Each
system call that touches the directory is a step. Steps that only look at the
call's own context are joined to the next or previous system call: a
cancellation that comes in between has the effect of one that comes just
after. `got` is the inode of the first `Lstat`, `during` records every
directory mode and file that a load could have seen, `published` the imports
that were ever in place. The import's file is named after the import, as every
import makes its own temporary file.

`Save` syncs the temporary file and never the directory. So a power loss tears a
file that was not synced, and takes the directory back to `durable`: whether it
exists, what the path names and which temporary files lie in it, as they were
last written back. `Flush` writes them back at any moment, and nothing in the
program makes it. Making the directory, creating and removing a temporary file,
the rename and the deletion may thus all be undone, the later ones before the
earlier: metadata is taken to reach the disk in the order of the changes, as a
journal writes it. (A mode that is undone is one more `ChmodDir`.) In particular
the copy that a failed import removed can be back after a power loss; `NoTempLeft`
says that nothing else leaves one.

The public adapter (`IsPublic`) looks at directory and file before it opens
the store (`FindDir`, `FindFile`); a missing file selects the default. The
personal store opens at once, and a missing file is an error of the caller.
`FileStore` and `PublicFileStore` are the same code otherwise, so one set of
actions stands for both. `opened` is the `sync.Once` result.

Left out: the removal of the temporary file may itself fail (`store.go:154`
drops the error, and the copy stays; `NoTempLeft` takes it to succeed); inode numbers may be reused between `Lstat` and `Open` (the content read
is then a stored one all the same); random names of temporary files never
collide.

### Interactive

`shell` is the place in the loop. A line is a kind and, for commands, the
request it parses to. `Submit` hands a request to `Execute` of the module
below; while it runs, and after it returned, upstream acts. `Signal` cancels
the context of all calls. `shown` is the request on display; `approved` and
`late` are history.

### Answers

A body is cut off, empty, garbage, or a JSON value: null, a scalar, an array, or
an object with a ticket and further fields. `businessCode` walks the four code
fields, `success` and `error` as `businessError` does; `list` and `record` are
the searches of the same names. The recursion of `record`, which its depth limit
ends, is written out, one operator per depth, so that it can be proved about. One
behaviour is one body with one status as the answer to a write, a list query
and the ticket query. `AgreesWithResponse` says that classifying the body
step by step ends in the error that `Response` gives for the abstract reply,
which is what makes the abstraction of `ReservationService` right. The fields
of a reservation other than its ticket are one value, decoded or not.

The search goes depth first, by the order of the keys. What holds of the ticket
it finds is `TicketIsNotInner`: it is one that the answer names, and no ticket
stands around it. It is not always the outermost one: of two side by side the
earlier key's is taken, so that `{"data": {"ticket": {"ticketId": 1}}, "ticket":
{"ticketId": 2}}` gives 1. Which of the two was made, the code cannot know.

### Documents

A document is a sequence of members, a key and a value each, possibly followed
by more text, and a size. `ScanKey` is the loop over `keys.Token`; `Decode` is
`encoding/json` with `DisallowUnknownFields`: the last value whose key matches
in any case, null sets nothing; `Validate`, `Save` and `Load` follow. Values are
a few texts, among them one that JSON escapes, which grows when it is written.
One behaviour imports one document into either store and, when it was
accepted, loads what was stored. The place of the file is left to `ConfigStore`.

### Commands

| State | Code |
| --- | --- |
| `entry`, `typed` | the process's arguments, or a line of the loop |
| `rest`, `args` | `App.Run`'s scan: tokens still to read, tokens kept (`filtered`) |
| `machine`, `profile`, `command`, `confirm`, `store` | the flags and the command as parsed |
| `pc` | the step: the loop's gate, filter, dispatch, flags, validate, execute, config, emit |
| `result`, `printed`, `exit` | the result's state, whether standard output took it, the exit code |

One action is one token read or one decision taken. What `Execute` returns is
any of its three states. Both readers of a line start from a profile, the loop
from that of the launch and `App.Run` from "default": the loop's own `--profile`
before the line is what carries the session's account over (`Gate`). Flags that only carry an argument (`--date`,
`--adult`, ...) are parsed by the same `flag` package as `--store`, which stands
for them.

### Launcher

Two processes. `launcher` is the place in `main()`: loading (resolving the
package), spawned (installing handlers, `handled`), waiting, closing, ended;
`caught` are signals whose JavaScript handler has not run yet. `child` is the
Go process: starting (before `signal.NotifyContext`), running, stopping (its
context is cancelled), leaving (after `stop()`), dead. `ended` is its wait
status, `status` the launcher's own. `waits` says that its command is the
interactive loop.

`Signal` sends the launcher, or both processes, any of the signals that it
forwards (SIGINT, SIGTERM, SIGHUP) and of those that it does not: SIGQUIT, for
which it has no handler, and SIGKILL, which cannot be caught. Those kill the
launcher and leave the child, as `docs/distribution/README.md:62` says of SIGKILL
and `process-tree.test.mjs` exercises. `Unforwarded` is the exception of
`NoOrphan` and `SignalEndsBoth`. `Crash` is a death of the child by itself: a
broken pipe, the kernel, a panic. Go's runtime answers SIGQUIT, and a panic, by
exiting with 2 (`Deaths`), unless the runtime is not up yet.

Left out: Windows, where Node can forward less; other signals without a handler,
which are SIGQUIT or SIGKILL to the launcher; stops and continuations; and that a
child without its launcher may notice the end of its input.

### Release

| State | Code |
| --- | --- |
| `status[v]`, `step[v]` | the run of `npm-release.yml` for version v, and what it does next |
| `artifact[v]`, `missing[v]`, `next[v]`, `plan[v]` | the build its jobs hand on; `upload-assets.mjs`: what is still to attach; `publish.mjs`: the package at hand and the plan |
| `manifest[v]`, `attached[v]` | the GitHub release: `release.json` and the package files |
| `npm[i][v]`, `latest[i]` | external: the registry |
| `enabled`, `hand` | the repository variable `NPM_PUBLISH_ENABLED`; the version published by hand |

`Fail` ends a run between any two steps; `PublishFails` is an `npm publish` that
reports an error after the registry took the version, or before. `RerunFailed`
begins the failed job again with the same artifacts, `RerunAll` everything,
with a new build. `Queue` is GitHub's concurrency group: one run, one waiting.
`Bootstrap` is what the maintainer does with `bootstrap-plan.mjs`.

What is assumed of GitHub and npm, which are outside the repository: neither
replaces a file that is there (`gh release upload` without `--clobber`, npm
publish); an upload whose outcome is unknown has happened or not by the time
the job ends; a later run reads the registry as it is (a registry that lags
behind makes the verification fail, which is `Fail`); the tag `next` moves
`latest` at most when a package is published for the first time.

## Runs

Runs use `CHECK_DEADLOCK FALSE` where the program may stop: when all calls have
returned, the process has ended, or no release is left to publish.

| Run | Instance | Question |
| --- | --- | --- |
| `reservation_single` | 1 call, 2 tickets, every combination of 7 statuses, 4 body forms and 4 business codes, every request valid or not, interrupts | Is each verdict right for each class of answer, at each moment relative to the write? Two tickets let a second submission create a second one. Does the service implement `WriteContract`? Does every call return? |
| `reservation_writes` | 2 calls, 2 tickets, one answer per class, valid writes and lists | Do verdicts and lists stay right when calls and other clients change the same tickets? |
| `config_public` | 3 calls, two in one process, one in another, failing system calls, kills, power loss, chmod | Do the stores implement `ConfigContract`? Are documents whole, the default used only for a missing file, and loads shielded from imports of the same process by the mutex? |
| `config_personal` | 2 calls of one process, cancelled at any step, kills, power loss | Does every error path give the mutex back, is an import's report true, and does one that fails leave no copy behind but by a power loss? |
| `config_atomic` | a load and an import in two processes | *Violated.* See the findings. |
| `interactive_session` | 2 commands, 9 kinds of line, a signal | Is only what was confirmed sent, and nothing after the signal? |
| `interactive_exit` | 2 commands | *Violated.* See the findings. |
| `answers_bodies` | 13 000 bodies, statuses 200, 404, 500 | Is the ticket found never one that another holds, is nothing odd shown as empty, and does the decoding agree with `Response`? |
| `documents_import` | every document of up to 3 members over 5 keys and 6 values, both schemas, 2 profiles | Do the two readings agree, and can what is stored be loaded? |
| `commands_lines` | every line of up to 4 of 17 tokens, as arguments and in a session | Does the gate hold, is every write authorised, does every command run on the account that was chosen? |
| `launcher_signals` | 3 signals of 5 kinds, 3 of them forwarded | Is the wait status true, is a child left behind only by a signal that is not forwarded, and does a caught one end both processes? |
| `release_publication` | 2 versions that compete for `latest`, 2 packages, 2 builds that differ in one file | Is the main package last, does each version come from one build, does `latest` never go back, and can a publication that stopped be finished? |

Bounds. Calls do not share anything but upstream, and every property speaks of
one call, or one call and the tickets of another: two calls show any
interference of two, and the theorems cover any number. Two tickets tell "this
ticket" from "another". Three calls in `config_public` are a reader, a writer
in its process and a writer in another. `Interrupts` names the calls that may
be cancelled; it is empty where `GiveUp` already covers what an interrupt can
do to a request, and in `config_public`, where a cancelled call takes the error
paths that a failing system call takes too: `config_personal` has both, and the
theorems allow any.
The sets of answers, `Shapes`, hold a representative of each class that
`request` tells apart. Three members make a document with a repeated key, one
in another case and one more; four tokens make a line with a global flag, its
value, a command and a flag of it in every order; three signals are one for
each place where the second and third can still do harm (`MaxSent` is the
bound; the theorems hold for any). Two packages tell the main package from a
platform package; two builds that agree in one file and differ in another are
the hard case for a rerun, since the file they share passes every comparison.
Both versions are stable, so that either could move `latest` back; prereleases
are covered by the theorems only.

Fairness. `FairSpec` of the service asks for weak fairness of `Execute`'s own
steps: Go code does not stop by itself, and each wait for the network ends at
the latest with the client's 15 second timeout, which is `GiveUp`. Nothing is
asked of upstream or the network. `FairSpec` of the store asks the same of the
steps of a process that is not killed; a mutex that is free goes to a waiter.
The launcher's `FairSpec` asks that Node's event loop and the kernel go on, and
that a child whose context is cancelled ends, unless it is the interactive loop
(`~waits`): that goes on waiting for a line whatever its context
(`cli.go:215-219`), and `SignalEndsBoth` promises nothing of it. The other commands
end within the client's timeout, and `mcp` if the SDK's `Run` returns when its
context ends, which is taken of the library. The liveness of `Release` is about people too: failed runs are rerun, publication is enabled at
some time, a version begun by hand is finished by hand, and from some time on
nothing fails without a reason (`<>[][~Trouble]_vars`); `Start` needs strong
fairness, since the concurrency group may be taken again and again. A rerun of
everything whose build differs from what is attached is refused, rightly, and
does not finish; `PublicationFinishes` says so.

## Proofs

All theorems hold for every value of the constants that the named assumptions
allow: any numbers of calls, tickets, processes, lines, tokens, members,
signals, packages, versions and builds.

| Module | Theorems |
| --- | --- |
| `ReservationServiceProofs` | `TypeCorrect`, `Invariance`, `FailedIsFinal`, `ConfirmedIsTrue`, `ListsComplete`, `UncertainHasEvidence`, `OneEffect`: the safety properties of the service. `Refinement`: it implements `WriteContract`. |
| `ConfigStoreProofs` | `TypeCorrect`, `WholeImports`, `TrueReports`, `NoTempAfterFailure`, `NoTornReads`, `LoadsAreCurrent`, `DefaultIsHonest`, `LockShields`. `StoreRefinement`: the stores implement `ConfigContract`. |
| `InteractiveProofs` | `SessionTypeCorrect`, `ConfirmedIsSent`, `SignalStops`; `SessionInvariance`, `SessionVerdicts`, `SessionRefinement`: what the service promises holds in a session. |
| `AnswersProofs` | `RecordIsNotInner`, `TicketNotInner`, `NothingLost`, `Agreement`. |
| `DocumentsProofs` | `TypeCorrect`, `OneReading`, `StoredIsLoaded`. |
| `CommandsProofs` | `TypeCorrect`, `GateIsTight`, `WritesWereAuthorised`, `ProfileIsChosen`. |
| `LauncherProofs` | `TypeCorrect`, `StatusTrue`, `NoOrphans`. |
| `ReleaseProofs` | `TypeCorrect`, `MainLast`, `OneBuild`, `LatestOnwards`. |

None of the properties is inductive as it stands. What each proof adds:

- **Service.** That a reply is classified as a refusal says nothing unless the
  reply was true when it was sent and has stayed so. `IndInv` adds `Authorised`
  (past validation a request is authorised, and a write that left was),
  `Waiting` (an answer waits only for a call that waits, and what is being
  reconciled is an uncertain write), `Makers` (a ticket a call made is its only
  one), `AnswersAreTrue` (what an answer in flight claims still holds) and
  `StandingIsActive`. A lemma about `Response` says which errors are definite:
  one that is not uncertain implies `SaysRefused`. The refinement maps each
  action to one step of the contract or to a stutter.
- **Stores.** Eight layers, each preserved given those before it: `MutexInv`
  (who works on the files holds its process's mutex), `KindInv`, `DirInv`,
  `PublishInv` (what the path names, or may name after a power loss, was
  published, and what was published is on the disk), `TempInv` (a temporary file,
  there or to come back, is one of an import that got as far), `OriginalInv`,
  `SeenInv` (what a load has in hand is something it could have seen; only
  another process can have replaced it), `LoadInv` (what was reported is so).
  The refinement to the register rests on them: a call acts at the moment it
  opens the file that it looked at, renames, or removes; `PublishInv` makes what
  it finds there a whole document, so that the document in force is the file that
  the path names; `SeenInv` tells a load's file from an import of its own. A kill
  drops what loads under way have taken, and a power loss also takes the register
  back to a file that the path may still name. `NoTempAfterFailure` is about steps:
  a lemma says that no import that ended has left a copy once a step other than a
  power loss is over, unless it had before.
- **Session.** `ConsentInv`: what was handed to `Execute` as a write is what was
  on display at the "yes", from the moment it is validated, not only once it
  was sent. `LateInv`: the call begun after a signal is the last of the session
  and stands where nothing can be sent. The steps below the loop are those of
  the service, but the request is what was typed, not one of `Workload`, and a
  signal cancels every context at once. The service's proofs are therefore stated
  for `Step`, which allows any request and any set of contexts, and `NextIsStep`
  and `SessionSteps` bring both specifications under it: invariant and refinement
  carry over.
- **Answers.** The reference is a set: every ticket that a body names, each with
  its place, the keys on the way to it. `Leads` relates what a search returned to
  the first of the set in the order of the search, `LookFinds` carries it up by one
  depth, and five uses of it give `RecordIsFirst`; the first has none around it,
  which is `RecordIsNotInner`, a statement that does not speak of the order. The
  invariant of the steps is then the properties themselves with what makes an
  answer decodable (`Decodable`), and a case per operation compares the error with
  the one of `Response`.
- **Documents.** `ScanInv` (the keys seen so far are distinct, exact and not
  null), `ExactInv` (so decoding takes every member for what it is), `StoredInv`.
  The heart is a lemma that writing a value and reading it gives it back.
- **Commands.** `OriginInv` (nothing is read that was not typed, and only
  `--confirm` confirms), `GateInv` (the first word of a line of the loop is
  harmless, and stays the first, in the line as in what is left after the flags
  were taken out), `ConfirmInv`, `ProfileInv` (at each token of the scan the
  profile is the last one given so far; it starts with the loop's own).
- **Launcher.** `ChildInv`, `PhaseInv` (a launcher that waits has all its
  handlers), `TruthInv` (a launcher that has set its status tells the truth
  about a child that is no more).
- **Release.** `RestInv` (a run not in progress begins a job anew), `BuildInv`
  (past the upload, the attached manifest is that of the build at hand),
  `NextInv` (the packages before the one at hand are there), `HandInv` (a
  package is created by hand only), `PlanInv` (what was planned still holds
  when it is done: only the run in progress, of which there is one, changes
  what the plan of a version rests on).

U1 to U4 and what is assumed of GitHub and npm are built into the actions of the
environment: the theorems hold for an upstream and registries that keep them.
U1 takes a 2xx answer with an unknown business code, or with an `error` that is
neither null nor empty, for a refusal, as the code does; nothing in the
repository says that upstream means it so.

Model-checked only: all liveness (`EveryCallEnds`, `SignalEndsBoth`,
`PublicationFinishes`), which is out of the prover's reach.

## Findings

- `config_atomic`: the store promises atomic writes (`store.go:14`), but a
  load that looks at the old file and opens the new one, renamed into place by
  another process, is refused as unsafe (`store.go:93`), and a public query
  then reports `public_config_invalid` for a file that was good at all times.
  Nothing wrong is ever read; the query can be repeated.
- `interactive_exit`: `docs/usage.md:34` gives exit code 3 to an uncertain
  write; an interactive session drops the code of its commands and exits with
  0 (`cli.go:261-273`).

Seen while modelling, and part of what the models do; no run is spent on them:

- A write in doubt whose result cannot be printed exits with 1, which
  `docs/usage.md:33-34` gives to a failure, and not with 3, since `emit` looks at
  the error of standard output first (`cli.go:162`, action `emit`).
- In a session a `--profile` further on in a line that is not a write overrides
  the session's own, so that one query runs on another account
  (`cli.go:48-63, 263`); a write of a session runs on the session's, for there
  `--profile` is no flag. `AccountIsChosen` says both.
- An answer that names two tickets side by side is read as the one under the
  earlier key, even if that one stands further in (`client.go:242-247`; see
  Answers above).
- A copy of the configuration that a failed import has removed may come back
  after a power loss, since the directory is not synced (`store.go:154`).
- `docs/distribution/README.md:59` says that the launcher forwards signals; one
  that comes between the start of the child and the last handler
  (`launcher.cjs:35-41`) ends the launcher alone. `early` in `Unforwarded` is
  this exception.
- A second signal between `stop()` and `os.Exit` (`main.go:110`) replaces exit
  code 3 by the signal (`Receive` while the child is leaving). Ctrl-C reaches
  the child twice, from the terminal and through the launcher.
- `docs/releases.md:9` says that publishing a release starts its build; of three
  releases published in quick succession the second is cancelled while it waits
  (`npm-release.yml:12`, `Queue`), and is built only when somebody reruns it.

## Not modelled, and the plan

Not modelled:

- request encoding, headers and `FromRequest` (no state; the last is used by
  tests only); the arguments of an operation beyond confirm, ticket and store,
  which are one boolean in `ReservationService`;
- the resolution of paths from the environment (`main.go`), a sequence of reads;
- the MCP SDK's protocol, a library: a tool call is a call of `Execute`;
- the copy in GitHub Packages (`github-packages.yml`, `github-package.mjs`): one
  request that decides and one that publishes, which no other part reads;
- the production of package files and the read-only checks of the release
  (`check-npm.mjs`, `policy.mjs`, `verify.mjs` and the like): sequential
  programs that end with an error or not, which is `Fail`;
- `Status` of the adapters, which formats what was loaded;
- signals on Windows.

What could still be added is the copy in GitHub Packages, as one more job of
`Release`.
