# A TLA+ model of vulncheck.dev

vulncheck.dev checks a Go module for known vulnerabilities inside the browser.
The page never sends the user's code anywhere: it reads an archive in a worker,
keeps what it needs in the origin private file system (OPFS), and runs the
analysis in further workers. Two command line tools make what the page reads: one
captures a project as an analysis bundle, the other packs the official vulnerability
records into a signed release. This directory holds TLA+ modules of the parts that
have something to get wrong, TLC configurations that check them on small instances,
and TLAPS proofs for instances of any size.

Paths below are relative to the repository's root.

## 1. The system

| component | state | operations | interacts with |
|---|---|---|---|
| **Analysis worker coordinator** `web/analysis-worker-coordinator.mjs` | job map, FIFO queue, the one active job, `disposed`; per job its lifecycle state, facts, cancellation code, worker, two timers, terminal promise | `submit`, `cancel`, `dispose`, wall timer, grace timer, worker message, worker error | spawns and terminates workers, posts `analysis-start` / `analysis-cancel`, receives their events, resolves the caller's promise |
| **Analysis worker protocol** `web/analysis-worker-protocol.mjs` | none | validation of messages and events | used at both ends |
| **Worker runtime and executor** `web/analysis-worker-runtime.mjs`, `web/analysis-worker-executor.mjs` | the active map (at most one run), its `cancelled` flag, packages done | start, cancel, resume after a yield, finish | posts progress and one final event |
| **OPFS storage** `web/opfs-storage.mjs` | cached root handle, known file sizes, `usedBytes`, `closed`, open writables, a promise tail | `put`, `get`, `purgeAnalysis`, `purge`, `close`, abort signals | the file system, which outlives the worker |
| In-memory storage `web/memory-storage.mjs` | a map of blobs, `usedBytes` | the same | fallback without OPFS |
| Ingestion worker `web/ingestion-worker.mjs` | storage, authorized requests | ingest, retrieve, cleanup messages, handled concurrently | storage, fetch, zip reader |
| Input workflow `web/analysis-input-workflow.mjs` | the one selected input, the one posted message | select, begin | ingestion worker |
| Consent and retrieval `web/public-module-consent.mjs`, `-retrieval`, `-fetch` | authorization, bounded stream | preview, authorize, fetch | module proxy, ingestion worker |
| Module route and coordinate | none | parsing, escaping | input workflow |
| **ZIP reader, resource budget** `web/zip-reader.mjs`, `resource-budget.mjs` | offset, totals of entries and bytes, local records, visible entries | read, inflate, account, cross-check, publish | module and bundle readers |
| **Bundle capture** `internal/analysisbundle/capture.go` | package inventory, captured files, the output file | list, read, hash, write | go command, project files |
| **Analysis bundle reader** `web/analysis-bundle.mjs` | none | hydrate | ZIP reader, ingestion worker |
| **Release builder and loader** `internal/vulndb`, `cmd/vulncheck-vulndb-pack` | records taken, attempt, archive length | extract, build, sign, verify, write, load | evaluation |
| **Version evaluation** `internal/vulndb` | none: a function of a release, versions and a time | compare versions, evaluate ranges, records, findings; summarize | bundle, release |
| Capability detection, report contract | none | map browser features to a profile; validate a record | page |

What is hard here, component by component:

* **Coordinator.** A caller, two timers, a worker's messages, its error event and
  disposal all race to end a job. Each promise must be resolved exactly once, with
  a reason that matches what happened; a report may be published only while the
  job still wants one; the only slot must be freed and handed on in every path,
  including those where starting the worker throws half way. Correct means: one
  worker at a time, in submission order, no idle slot while a job waits, final
  results, nothing left after `dispose`, and every job settles.
* **Worker.** Cancellation is cooperative: a message is seen only between tasks.
  Correct means: one final event per start message, progress that counts up to the
  report, no further package after a cancel was handled, every run ends.
* **The two together.** Messages and events cross. Correct means that a worker is
  never found busy, that nothing is cancelled without a request, and that the
  events reach the caller complete and in order.
* **OPFS storage.** Every operation is a chain of awaits on a file system that may
  fail at each of them; between two of them a signal is aborted, `close` is called
  or the worker goes away. Correct means: the quota holds on the disk and not only
  in the books, no half-written file stays, an answer tells what the disk holds,
  nothing happens after `close` resolved.
* **ZIP reader.** Entries are inflated while they are read, before the directory that
  may contradict them is seen. Correct means: all or nothing is published, memory is
  bounded whatever the headers claim, an abort or the clock stops it at the next read.
* **Bundle.** The project may be edited while it is captured, the disk may fail or the
  process end while the archive is written, and the archive may be edited after.
  Correct means: what hydrates is closed under its references, what hydrates under the
  captured digest is what was captured, and what a capture reports as done hydrates.
* **Release.** The manifest holds the length of the archive it is part of. Correct
  means: four attempts find that length, what was built loads, and what loads under
  the key has every record, in the index too.
* **Version evaluation.** No concurrency, but boundaries: prereleases, toolchain names,
  events sorted by version that drive a small automaton whose answer must equal the
  union of intervals they describe, early exits from three nested loops, and two lookup
  paths that must agree.
* **Consent, workflow, ingestion.** Once-only latches set before the call they
  guard, and concurrent message handlers that share a storage key.

`PROJECT.json` lists each such hazard at its line with the properties that would
notice it, or why none does yet.

## 2. Modules

| module | models |
|---|---|
| `AnalysisCoordinator` | the coordinator, with **any** worker behind it |
| `AnalysisJobs` | what the coordinator promises its callers: each job waits, may run alone, is settled once, with its own report or none |
| `AnalysisWorker` | runtime and executor of workers under **any** host |
| `AnalysisSystem` | coordinator and real workers joined by ordered channels |
| `OpfsStorage` | one `OpfsAnalysisStorage` over a disk that survives it |
| `AnalysisStore` | what that storage promises its callers: calls that take effect whole, in order, when they are answered |
| `ArchiveReader` | `readStrictZip` over **any** archive, with the budget, the signal and the clock |
| `AnalysisBundle` | `CaptureBundle`, the archive it leaves, edits of it, and `hydrateAnalysisBundle` |
| `VulnRelease` | the packing tool, `BuildArchive`, alterations of the release, and `LoadArchive` |
| `VulnSemver` | `compareSemver` and `normalizeToolchainVersion` |
| `VulnRange` | `evaluateRange`: the loop over the events of one range |
| `VulnEvaluation` | `Evaluate` and its loops over records, entries and ranges, around `VulnRange` |
| `Ingestion` | the page's two controllers, the ingestion worker with its bounded fetch, and the in-memory store |
| `AnalysisCoordinatorProofs` | the theorems about the coordinator, and those about the system it makes with its workers |
| `AnalysisWorkerProofs`, `ArchiveReaderProofs`, `AnalysisBundleProofs`, `VulnReleaseProofs`, `OpfsStorageProofs`, `IngestionProofs` | the theorems about the module each is named after |
| `VulnEvaluationProofs` | the theorems about versions, ranges and evaluation, in three parts |
| `MC…` | small constants for TLC |

Each module defines, next to some definitions, *broken variants*: the same
operation with one plausible bug (a dropped guard, a swapped order, a forgotten
reset). No specification uses them. `PROJECT.json` ("mutants") says which variant
replaces which definition and which property then fails, so that each property is
known to depend on the code it is about.

### AnalysisCoordinator

One action is one turn of the host's event loop.

| source | model |
|---|---|
| `#queue`, `#active`, `#disposed` | `queue`, `active`, `disposed` |
| `job.state`, `job.facts.bundle_digest`, `job.cancellationCode` | `state`, `facts`, `cancelCode` |
| the job's worker, and its listeners | `live`, `listening` |
| messages posted, last progress shown | `posted`, `shown` |
| `wallTimer`, `graceTimer` with the code its closure captured | `wallTimer`, `graceTimer` |
| the terminal promise | `completion` |

`submit`, `cancel`, `dispose` are `Submit`, `CancelWaiting` / `CancelRunning` and
`Dispose`; the timer callbacks are `WallTimeout` and `GraceTimeout`; the listeners
are `HandleWorkerEvent` and `WorkerError`. The only call that leaves the
coordinator in the middle of a turn is `spawnWorker()` in `#activateNext`: a turn
that activates a job ends with the job `loading`, and the next step, the only one
enabled then, is what the calls did: `SpawnSucceeds`, `SpawnThrows`, `PostThrows`, or
`ListenThrows`. That `addEventListener` threw is caught by nobody (lines 98-99): the
job stays `loading` with the slot and a worker, without a timer, until somebody cancels it
or disposes. `Unheard` is that state, and `Listenable` the jobs whose worker never does this. Spawners that call
back into the coordinator from there are
excluded. Job ids are used once, as `submit` demands. Events are reduced to what the
coordinator tells apart; whatever `assertAnalysisWorkerEvent` rejects is
`"invalid"`; the size, count and metric limits of a report are one flag,
`within_budget`. Time passes by timers firing at any moment they are armed.

### AnalysisWorker and AnalysisSystem

One action of the worker is one task of its event loop: a message handled or the
executor resumed after `yieldControl`. Promise callbacks run before the task ends,
so the final event and the release of the active map are one step. Each clock or
size check may find its limit exceeded. `stageConcurrency` is 1, the value the
runtime uses. In `AnalysisSystem` the worker's inbox is the coordinator's `posted`
and its outbox is delivered in order, one event a step; the worker's steps leave the
coordinator alone and every other step is one of the coordinator's or the
discarding of an event, so what holds for any worker holds for these; section 4 proves it, and
the same of the workers under any host.

### OpfsStorage

A call is made, waits in the promise tail, and then takes one step per request to
the file system. `pc` is the request whose answer it waits for, and the step taken
there is everything the code does when the answer arrives, up to the next request.
Every request may fail (`RootFails`, the failing disjuncts, `CommitFails`,
`RemoveFails`); `MaxFaults` bounds only what damages the books, a failed removal
and a reload. `disk` maps a file to its content, `Created` for one that
`getFileHandle` made and no `close()` committed yet. A recursive removal that fails
may have removed any part. `Reload` ends the worker at any moment and starts a new
storage on the same disk, where the request under way has been carried out, or not, or a removal in
part (`Unanswered`): a `close()` that reached the disk but not its caller is such a request. File sizes are blob
sizes; names are valid.

`AnalysisStore` has no disk, no books and no awaits: the files that are shown, the calls in the
order they were made, and one step per answer that does all the call does. `Promised` maps
the storage to it: the promise tail is its queue, and a file is what `disk` holds, none where that is `Created`.
`KeepsThePromise` is the refinement. The abstract step of a call is the one in which its
promise settles, with the exceptions the code makes: a `put` that `close` overtakes shows its
blob before it is rejected, a failed removal may leave part of a purge, and a call that is lost with its
worker has taken effect or not, or in part if it is a purge (`Interrupt`).

### Ingestion

A request is one controller of the page. `Plan` is `planModuleRoute`; `Select` and
`BeginIngestion` are the workflow controller, `Accept` the consent controller, and
`Post` the latch both have. The worker's handlers run concurrently: `pc` is what the
handler of a request waits for (`fetch`, `read`, `cancelReader`, `hydrate`), and a step
is its next turn. `MemoryAnalysisStorage.put` has no await, so the last turn of a handler
validates, stores and answers at once. What the ZIP, module and bundle readers do
with an archive is one verdict at the end of `hydrate`; the signal may be aborted
before it. A response is any chunks, any declared length and any error. The signal and
the store belong to whoever starts the worker: `Abort`, `Purge`, `PurgeAnalysis` and
`Close` may happen at any moment. Controllers post well-formed messages, and
`postMessage` does not throw for what they post.

| source | model |
|---|---|
| result of `planModuleRoute` | `plan` |
| `selectedInput`; `message` or `authorization` | `input`; `sent` |
| messages posted to the worker | `inbox` |
| `receivedBytes`, the caught error, the archive | `received`, `cause`, `archive` |
| answer posted | `result` |
| `#entries`, `#usedBytes`, `#closed` | `entries`, `usedBytes`, `closed` |
| (history) last answered as stored under each key, until it is emptied | `latest` |

### ArchiveReader

A step is what runs when a read of the archive or of an entry's stream settles, up to
the next read; `pc` is the read that is waited for. The archive is not chosen
beforehand: each header, chunk and record is any that could be there, chosen when it
is read, which is the same since each is read once. Headers, names, records and the footer
are one unit long, so the shape of an archive is the sizes in its headers. What only
the syntax of a header decides (signatures, flags, method, path rules) is one
rejection. `Abort` and `Clock` may happen between any two steps.

| source | model |
|---|---|
| `endRecord`, `offset` | `end`, `offset` |
| `state.files`, `.compressedBytes`, `.observedBytes` | `totals` |
| the local entry whose body is read, bytes its stream gave | `pending`, `inflated` |
| `localRecords`, `visibleEntries`, central records accepted | `locals`, `kept`, `listed` |
| how the promise settled | `outcome` |

### AnalysisBundle

`CaptureBundle` is `ListModules`, `ListPackages`, a `ReadSource` per file, `Assemble`,
`Create`, `WriteManifest`, a `WriteFile` per file and `Close`, in that order, with an edit
of the project possible before each; the go command answers from the files there are when it runs.
Any write may fail (`WriteFails`: the deferred `Close` then still seals the ZIP) and the
process may end (`Crash`: the ZIP has no footer). `Tamper` replaces a file, drops one, or
edits the manifest and seals it again or not. `Hydrates` is
`hydrateAnalysisBundle`, as the condition under which it returns. `Fits` holds the names the reader accepts
for each role of a name (file, root, import path, module, checksum), `MaxFiles` is the limit on files, modules,
packages and entries of both sides, `MainRef` is what `go list` has as the main module, and the capture's
`Options` may be a header the reader refuses. Digests are ideal: a digest is
what it covers. Lists that both sides sort before hashing are sets.

| source | model |
|---|---|
| files on disk, `go.mod` requirements | `source`, `requires` |
| `package_inventory`, `contentFiles`, `Manifest` | `inventory`, `captured`, `manifest` |
| the file at `OutputPath` | `archive` |

### VulnRelease

`run` of the packing tool: `Extract`, one `TakeRecord` each, `Describe`, an `Attempt` for
each turn of the size loop, `GivesUp` after the fourth, `Verify`, `Write`. Lengths are sums of
constants and of the digits of the three numbers in the manifest; `Powers` are the powers of ten, so
the number of digits is how many of them do not exceed the number. `Alter` replaces, adds or drops
a file, changes index or manifest, and signs with a key of its own, any number of times in the
proofs. Signatures are ideal: only the tool signs under `Key`.

### VulnSemver, VulnRange and VulnEvaluation

The Go code is sequential; a step is one turn of one of its nested loops, and `loop`
names the loop that is running. `VulnEvaluation` extends `VulnRange` and enters it
with `Call`, so the machine that is checked inside an evaluation is the one the
theorems are about.

| source | model |
|---|---|
| `semanticVersion` | a record of three numbers and a sequence of identifiers, each numeric or a word |
| a toolchain name, cut at its dots, marker and hyphen | `Toolchain` |
| locals of `evaluateRange` (`open`, `introduced`, `introducedFromZero`, `previousEnd`, `affected`) | `open`, `introduced`, `fromZero`, `previousEnd`, `affected` |
| result and diagnostic of `evaluateRange` | `status` |
| `affected`, `unknown` of `evaluateRanges` | `rangeFlags` |
| `unknown` of `evaluateRecord` | `unknown` |
| ids left, indexes of the entry and the range | `todo`, `entry` |
| release, input, time, `indexed` | `task` |
| the `Evaluation` returned | `report` |

A version is what `parseSemver` makes of its text; `Invalid` is one that it rejects. A word
is its place in the order of strings. Numbers are limited to 64 bits (`MaxUint`) where the code
limits them: those of the core are rejected beyond, those of a prerelease saturate in
`ParseUint`, whose error the code ignores. `Precedes` is the order the Semantic Versioning
specification defines. `Meaning` in `VulnRange` says without a loop what a list of events
stands for: ends and introductions take turns in order, and a version is affected if it lies between
an introduction and the end after it. `RecordMeaning` in `VulnEvaluation` takes the
worst outcome over the entries that apply. `OsvVulnerable` is a second reference, the
algorithm of the OSV schema. The two differ in one corner, a version that is last
affected by one interval and is also both ends of an empty one after it:
`evaluateRange` then reports affected where the schema's algorithm does not.

## 3. Runs

| run | instance | shows |
|---|---|---|
| `coordinator` | 3 jobs, 2 digests, any events | results honest, slot and order, refinement of `AnalysisJobs`, every job settles |
| `worker_protocol` | 1 worker, 3 messages of any kind for 2 jobs of 1 and 2 packages | one answer to each start, prompt cancellation, termination |
| `system_safety` | 2 jobs of 2 and 1 packages, crashes | what an honest worker lets the host promise |
| `system_liveness` | 1 job of 2 packages | jobs settle without any timer |
| `storage` | 2 calls, 2 files, blobs of 1 and 2 units, quota 2, 1 fault, any earlier content | quota, books, no half-written file, refinement of `AnalysisStore`, and that calls settle |
| `storage_late_close` | 1 call, no fault | a violation, see section 6 |
| `archive_reader` | archives of up to 8 units and 2 entries, chunks up to 3 units, memory 3, ratio 2 | whole or nothing, bounded, on time |
| `analysis_bundle` | 2 packages, 3 files and as many allowed, 4 contents, 1 edit, 2 alterations, a failing write or a crash | closed snapshots, tampering shows, captures hydrate |
| `vuln_release` | 2 records out of 5, lengths on both sides of a further digit, 2 alterations | the length is found, builds load, what loads is the release |
| `vuln_evaluation` | every range of up to 4 events at 2 versions, for 5 pairs of versions; records of 2 entries in any order; 2 records, 5 clocks, 13 toolchains, by index and by scan | verdicts match their references, a project is cleared only on current evidence, toolchains come in order |
| `vuln_malformed_toolchain` | the 13 toolchains of `vuln_evaluation` | a violation, see section 6 |
| `ingestion` | one route, one local archive for the same key, one bundle; transfer limit 2, quota 3, chunks of 1 and 2 | consent, one request, an honest store, prompt cancellation, an answer to every message |

Type invariants are checked for `OpfsStorage` and `Ingestion`; those of the other
components are theorems and need no run.

Why these bounds are enough. The coordinator has one slot, and each handler touches
one job and the head of the queue: two jobs give every pair (settled, active,
waiting) and late events of the one while the other runs; three are needed for a
cancelled job between two live ones, which the order and queue properties are
about. One job has a worker without `removeEventListener`, whose `addEventListener` may throw, the
others have a browser's. Two digests are needed for a report of the wrong snapshot. A worker serves a
second message while busy, after its run, or invalid: three messages cover a start,
a cancel and a second start in any order. Jobs with two packages have a yield in the
middle of the loop and one at its end. `system_liveness` has one job: what a second adds
is the queue, which `coordinator` covers, and both together take TLC beyond a few minutes.
In the storage two calls overlap, with anything on the disk that earlier calls
may have left; a quota of two units takes two small blobs or one
large, so over-admission, overwriting and growing a file all come up; one fault
reaches every state in which books and disk differ.
In `archive_reader` two entries give a duplicate name, a directory that lists one twice or
neither, and sizes that add up beyond what each alone would be; the limits sit inside the
ranges of sizes, so each is met, reached and passed. In `analysis_bundle` one package
imports the other, or a nested module below it, and a file may import a path that is too long; an edit can make
a listed file vanish, or change before or after it was read; three files reach the limit of three, where the
capture is done and the reader, which counts the manifest too, refuses; two alterations are a change and a resealing. In
`vuln_release` the lengths are such that the archive's length gains a digit from one attempt
to the next, the limits lie between what one and two records need.
In `vuln_evaluation` four events make two intervals, and two versions give touching,
empty and disordered ones. The pairs are two candidates of a release, a candidate and its
release, prereleases of different length, two releases, and two that saturate. The tasks are
five kinds (one range; one record; two records; a toolchain; an incomplete input), because what
the outer loops do with a verdict does not depend on the events behind it.
In `ingestion` a route and an archive compete for one key while a bundle competes with
both for the quota; chunks of 1 and 2 reach the transfer limit exactly and pass it.
Section 4 removes the bounds from every safety and step property of the passing runs; what is
left to TLC, all liveness, is listed at its end.
No run uses symmetry.

`CHECK_DEADLOCK FALSE` is set in every run: the instances stop when all their jobs,
messages or calls are used up and settled, which is not an error. That nothing is
stuck before is what the liveness properties say.

### Fairness

* Ingestion (`Spec`): weak fairness of the worker's turns (messages and blobs), and of
  the network only once the signal is aborted, when the browser rejects what is
  pending. The code has no time limit on a request, and
  `EveryMessageIsAnswered` claims nothing for one that nobody aborts.
* Coordinator (`Spec`): weak fairness of the spawning step, which is the rest of a
  synchronous turn, and of both timers, which the browser fires. Nothing is asked of
  a worker. `EveryJobSettles` therefore says that a worker that hangs or lies
  cannot hold a job. It claims nothing for a job that is `Unheard`, or behind one: no timer is armed
  there, and a cancel or `dispose` is the caller's choice.
* Worker: weak fairness of its own tasks. The event loop runs.
* System (`SystemSpec`): weak fairness of spawning, of each worker's tasks and of
  delivery, and **none** of the timers.
* Storage (`Spec`): weak fairness of every request's answer, except that of a write
  whose writable nobody aborted. `EveryCallSettles` says that a call waits for ever
  only behind such a write (`WritingAtWill`): a hanging file system does hold
  every call behind it, an aborted one does not.

## 4. Proofs

`AnalysisCoordinatorProofs` proves, for every set of jobs (infinite ones too),
digests, progress values and worker codes, under the named assumptions
`JobAssumption`, `DigestAssumption`, `ProgressAssumption` and `ResultAssumption`
(the null values are not among the real ones, `Detachable` and `Listenable` are jobs):

| theorem | property |
|---|---|
| `Invariance` | `Safety => []IInv` |
| `TypeCorrect`, `OneWorkerAtATime`, `TimersGuardTheSlot`, `ResultsAreHonest`, `NoStaleReport`, `HostGivesTheReason`, `SlotIsNeverWasted`, `DisposalIsComplete` | its invariants, those the `coordinator` run checks among them |
| `NoJobIsLostInTheQueue` | `QueueHoldsWaiting`: a waiting job is in the queue once, no other is |
| `ResultsAreFinal`, `QueueIsFair` | the action properties `SettledIsFinal`, `FirstComeFirstServed` |
| `Refinement` | the coordinator implements `AnalysisJobs` |

None of the invariants is inductive alone. `IInv` is their conjunction with three
more facts: `SlotOK` (the active job is the only executing one; what waits is in
the queue once), `ListenersFollowState` (listeners exist only where a worker was
started, and a settled job keeps them only if its worker cannot be detached), and
`CodeFollowsState` (which cancellation codes go with which state). For example, that
no report is published after a cancellation needs that a job in `running` has no
cancellation code; that the timers match the state needs that only the active job
has a worker. The code calls `finish` and `activateNext` from many handlers, and so
do the actions; the proofs follow that shape: lemmas say what each helper preserves,
one step per action applies them, and the temporal step is last. `QueueIsFair`
needs the queue to be injective on waiting jobs. The refinement maps a step to one
of the abstract actions or a stutter and needs `IInv` for both.

The last part of the module is about `AnalysisSystem`, for any jobs with any numbers of packages:

| theorem | property |
|---|---|
| `SystemInvariance` | `SystemSafety => [](IInv /\ SystemInv)` |
| `SystemImplementsCoordinator` | `SystemSafety => Safety`: every theorem above holds of the system |
| `SystemImplementsWorker` | each step is a step of `AnalysisWorker` or leaves the workers alone |
| `WorkersServeOneJob` | `WorkerServesOneJob` |
| `ProgressNeverGoesBack` | the action property `ProgressAdvances` |

That the system implements the coordinator is not by definition: an event is delivered as `AsReceived`, and
`HandleWorkerEvent` takes only events there can be (`SystemAssumption`: progress counts packages, and the
limits of the workers have codes of the protocol, their `addEventListener` does not throw), of jobs whose digest is
known. `SystemInv` has the two ends
of each conversation: `HostSide` (the messages posted are a start, then at most a cancel; while the job
runs, what the caller has seen is what was delivered), and `WorkerSide` (what was handled is part of what was
posted, what was
delivered is part of what was said, and what was said is `Orderly`: one progress event for the
start and one for each package, in order, then at most one last event, with the worker idle again).
`Said` leaves out the answers of a worker that is found busy or gets a bad message, which is the point: a
second start cannot come, so they never do. TLC checked `SystemInv` before it was proved.

`AnalysisWorkerProofs`, for any number of workers, jobs, packages and messages: `TypeCorrect`,
`AnsweredOnce` (`OneAnswerEach`) and `CancellationSticks` (`CancelledRunStops`). That each start
has one final answer is a balance over two growing lists: for each job, the messages handled that ask for
an answer are as many as the final events posted plus one if the job runs. The lemmas `AskedGrows`
and `AnsweredGrows` say what one more message or event adds to either count; each task of
the worker then keeps the balance.

`ArchiveReaderProofs`, for archives, budgets, chunks and numbers of entries of any size:
`TypeCorrect`, `PublishedWhole` (`PublishedIsWhole`), `MemoryStaysBounded`
(`MemoryIsBounded`) and `Obedience` (`StopsOnTime`). `IInv` says that the local entries tile the
bytes up to the offset under names of their own, that what is kept is what they declare, and that each listed
record is a local one not listed before. That the counts agree at the end then makes
the list complete: an injection between finite sets of one size (`FullListing`).

`AnalysisBundleProofs`, for any project, number of edits and alterations: `TypeCorrect`,
`SnapshotsAreClosed` (`SnapshotIsClosed`), `TamperingShows` (`TamperEvident`) and `CapturesAreGood`
(`CapturesHydrate`), under ideal digests; the last but for the projects section 6 lists, which the property names.
The first follows from what `Hydrates` asks for and from nothing that came before; the second from
`DigestCovers` (manifests of one digest agree in all it covers) and from
`CaptureInv`: what was sealed has the content that was captured. The third needs `WriteInv` besides:
the manifest is the one the lists make (`Draft`), and the archive comes to hold a file for each path
that was captured, with the bytes that were hashed and none twice. That makes as many files as
declared entries, which `ContentFits` asks for: both are in bijection with the captured paths.
It also needs each check of `Parses` and `ParsesPackages` in turn: what the capture did not look at itself is what
`CapturesHydrate` excepts, and nothing of that can be dropped (TLC finds a refused capture without any one of them).
`ManifestAssumption` says that no manifest is one of the two values that stand for none.

`VulnReleaseProofs`, for records and descriptions of any lengths, any limits and any number of
alterations: `TypeCorrect`, `SizeStabilizes` (`Stabilizes`), `Authenticity` (`LoadedIsRelease`) and `BuiltLoads`
(`LoadsUnlessTooLarge`).
An attempt's lengths are those of the content plus the digits of the numbers written, so
a second attempt differs from the first by digits only. `FixPoint` shows that all lengths lie
between the base and twice the base, where numbers of digits change once at most, since powers of ten are
a factor of ten apart; hence the third length is final. `DescriptionAssumption` (a manifest
has more bytes than its three numbers have digits) is what makes it so.
`Authenticity` needs, of every archive there can be, that a manifest signed under `Key` is the tool's.
`BuiltLoads` goes through every check of `LoadArchive` but its size limits and shows that what the builder wrote
passes it. For that
`LoadInv` says that the lengths measured are the sums over the files, one file for each record (`OneEach`),
and that the archive which is verified is the one the last attempt measured. `ArchiveAssumption` says that no archive is
one of the two values that stand for none and for a torn one.

`VulnEvaluationProofs` first proves, of versions, `CompareIsPrecedence` (for versions whose numbers have 64 bits
`compareSemver`
returns -1, 0 or 1, as the Semantic Versioning order says, and 0 only of equals), `PrecedenceIsOrder` and
`ReleasesInOrder`. The place where two lists differ first exists because the natural
numbers are well founded.

Its second part is the range loop, for lists of events of any length and any versions, under
`RangeConstants` (the special values are no versions): `RangeInvariance`
(`RangeSpec => []RangeInv`) and `RangeCorrect` (`RangeMatchesReference`).
`RangeMatchesReference` speaks of results only; what makes it inductive is `LoopInv`,
the invariant of the loop: all events before the current one fit, `open`,
`introduced` and `previousEnd` describe the last of them, and `affected` says whether
an interval among them that has ended holds the candidate. Two lemmas, `OpensFits` and
`ClosesFits`, say that the guards of the code accept an event exactly if it fits; one
lemma per action follows. `CallInv` and `ScanInv` are stated for the actions
`VulnEvaluation` takes.
`OsvIsNeverMissed` (`RangeSpec => []NeverMissesOsv`) and `NothingIsMissed` (the same of an
evaluation) compare this with the algorithm of the OSV schema, which lets the last event that speaks
about a version decide. What it reports lies in the interval that event starts (`OsvFindsInterval`). That it
misses nothing but a version at which an interval and an empty one touch (`OsvMissesOnlyTouching`) needs that an event
is never at a lower version than any earlier one, while the loop only compares
neighbours: `VersionsAscend` takes a first event that breaks this and finds that it would break it with its
neighbour.

Its third part, for any calls of `Evaluate` that meet `TasksAssumption` (lists are lists, versions are
parsed, the records of a release are finitely many): `TypeCorrect`, `EvidenceComesFirst`
(`ClearsOnlyOnEvidence`), `RangesDecided` (`RangeMatchesReference` inside an evaluation),
`FindingsCorrect` (`FindingsMatchRecords`) and `ToolchainsOrdered` (`ToolchainsInOrder`).
`EvaluationInv` says where the loops are and what must have been found out to get there, for example that
the range loop's events and version are those of the entry the outer loops have come to.
`MeaningInv` says, of each loop, that what it has gathered is what the part it has gone through means: the findings
so far are those of the candidates so far (`RecordsSoFar`), no entry so far was affected and `unknown` says
whether one could not be decided (`EntriesSoFar`), the flags are the outcomes of the ranges so far
(`RangesSoFar`). `FindingsCorrect` holds for every toolchain, parsed or not, by naming what the index adds
then (`OnlyIndexed`): records no entry of which applies, each found as not affected. `EvidenceComesFirst` uses it: a
report that clears has a finding for each record that concerns the input, and each of them clears it. That the list
of candidates has all of them, in order and once, is an injection of a finite
set into one of its size (`OrderHasAll`).

`OpfsStorageProofs`, for any files, blobs, calls and number of faults: `NoFileIsHalfWritten`
(`NothingHalfWritten`), `ClosedStorageIsQuiet` (`ClosedIsQuiet`), `StoreKeepsThePromise`
(`KeepsThePromise`), `TypeCorrect` (`TypeOK`), `QuotaHolds` (`DiskWithinQuota`) and `BooksAreRight`
(`BooksCoverDisk`). The first two rest on `TailInv`: a call is on the promise tail once, exactly while it is
pending, and only the head is past waiting, so what an operation read from the disk before an await
still holds after it. `PlaceInv` ties each place to the kind of operation that gets there and says that
a `put` remembers rightly whether its file was there; `KnownInv` says that what the books list is on the
disk as long as nothing damaged them.
The other three are about sums, and no conjunction of them is inductive. `BooksInvariance` adds `BooksInv`:
the size a put has planned is what `usedBytes` will be once its blob is committed, and within the quota
(`PlanInv`), which survives the awaits between the check and the commit because only the head of the tail
changes the books; and the books cover the disk also in a storage that is being closed, until a put
ends that was committed after `close` and not counted. `EntryAssumption` (analyses and names are
finitely many) makes what the disk holds a number, and `FaultsAssumption` says that `MaxFaults` is one.
`StoreKeepsThePromise` needs all of it: which call is answered is `TailInv`, what a `put` replaces is
`PlaceInv`, and that what is shown after a `put` fits the quota, which `AnalysisStore` asks of its own `files`, is
`BooksInv`. One fact is new, `VisibleInv`: a file that holds a blob is known to a storage that has read its
disk, unless `close` overtook the `put` that made it. So a `put` that finds no size for its file makes a new one, and
when it is withdrawn nothing is lost that was shown before. When the worker ends, what the head of the
tail had asked of the disk is what `AnalysisStore` lets the head of its queue have done.

Sums of sizes over a set of files are folds in the models (`SumFunction`, `MapThenSumSet`), and what a fold
computes cannot be proved by induction here. The proofs count instead: the sum of sizes is
the number of *units*, the pairs of a file and a number below its size. That number satisfies the
equation by which the fold is defined (`CountStep`), and the equation has one solution, since two would differ on a
smallest
set; so the fold is the count (`SumIsCount`), and what changing one file does
to a sum follows from cardinalities (`SumSplit`, `SumGrows`). `IngestionProofs` and
`VulnReleaseProofs` do the same for their sums.

`IngestionProofs`, for any requests, sizes and limits: `NoFetchWithoutConsent`
(`ConsentComesFirst`), `AbortIsFinal` (`AbortStopsTheWork`), `TypeCorrect` (`TypeOK`) and
`StoredIsVouchedFor` (`VouchedFor`). `MessageInv` says that a request is posted
once, waits in the inbox once and is handled after that; `ConsentInv` that only the consent controller
posts for a route whose plan asks for consent. One fetch at most follows from both.
What is stored is the work of several handlers that ran at once, so `VouchedFor` needs to know of each of them what
it has made of its request so far: `StoreInvariance` adds `StoreInv`, whose `HandlersInv` says so for each place a
handler can wait at (how much it has received, which archive it holds, that it has not answered), and whose `EntryInv`
says of each key that it holds the archive of `latest`, the request last answered as stored there. `usedBytes` is
counted as above. `IngestionAssumption` has finitely many
requests for that, and `NoneAssumption` says that `None` is neither a request, an answer nor a file.

What stays with TLC:

* all liveness: `EveryJobSettles`, `SettlesWithoutTimers`, `EveryRunEnds`, `EveryCallSettles`,
  `EveryMessageIsAnswered`. They hold under fairness, which needs ENABLED, and the prover
  handles neither;
* the two runs that end in a violation, which show single behaviours (section 6).

No theorem is about what a recursive definition computes for every input: the models have none in the
modules the theorems speak of, and their folds are reasoned about by the equation they satisfy. The proofs take
the named assumptions on constants and nothing else. Those about digests and signatures are in the models: digests
are what they cover, and only the tool signs under its key.

## 5. Not modelled

* Formats: the syntax of ZIP headers, the path rules, CRC and deflate, JSON shapes, module paths and
  routes, version strings character by character. Each is one verdict or one value. They are
  pure functions of bytes that tests reach.
* Metrics, diagnostic texts, the fields a plan, receipt, answer or finding copies, and the validation of
  fields in manifests (`Parses` keeps what relates one field to another).
* The size limits of an evaluation's input, of a manifest's lists, and the constant metrics other callers
  give `assertResourceBudget`.
* Capability detection (a function of what the browser has), the report contract (validation of
  one record), flags and key files of the commands, browser test pages.
* A spawner that calls back into the coordinator, and two storages (two tabs) on one disk: planned.

## 6. Where documents and code differ

* **A malformed toolchain version does not make a report unknown** (`vuln_malformed_toolchain`).
  `versionForPackage` (`internal/vulndb/matcher.go:59-61`) lets no record of the Go distribution apply when the
  toolchain version does not parse, and says nothing about it: a report whose other records are clean is
  `not-affected`. The version is what `go env GOVERSION` said when the project was captured, and a Go built
  from source says `devel go1.23-…`, with a space, which `semver.go:72` rejects. `docs/security-contract.md:29`
  says that `unknown` is required for malformed or incomplete evaluation input
  (`docs/features/03-osv-simd-vulnerability-matcher.md:26` for malformed range data). `ClearsOnlyOnEvidence` and
  `FindingsMatchRecords` speak of the records that concern the input, and none of these does.
* **A closed storage may start a write** (`storage_late_close`). `put` does not look
  at `#closed` between opening the file and writing it, and `close` aborts only the
  writables that exist (`web/opfs-storage.mjs:74-84`, `174`): the whole blob is
  written before it is discarded, and `close` waits for it.
  `docs/features/01-browser-runtime-opfs-storage.md:1216-1217` says that close
  immediately aborts active writes. The blob does not stay (`ClosedIsQuiet`,
  `NothingHalfWritten`).

The following do not contradict a property; the modules exclude or state them, and a reader of the code
should know of them.

* A worker whose `addEventListener` throws leaves its job `loading`, in the slot, without a timer
  (`web/analysis-worker-coordinator.mjs:98-99`): the job and all behind it wait until somebody cancels it or
  disposes. A browser's worker does not throw there. `EveryJobSettles` excepts it.
* A report that is on its way when its job is cancelled ends the job as failed, with the code of a malformed
  output (`web/analysis-worker-coordinator.mjs:132`), not as cancelled. It is not published; that is
  `ReportOnlyWhenWanted`, proved.
* The indexed path and the scan differ for a toolchain version that does not parse, and for a module
  that is called `stdlib` or `toolchain` in an input without a toolchain: the indexed path has findings the
  scan leaves out, all of them not affected (`internal/vulndb/evaluation.go:111`, `matcher.go:59-61`, against the
  comment at
  `evaluation.go:55-56`). `FindingsMatchRecords` states both: the difference is `OnlyIndexed`.
* Numeric identifiers of a prerelease beyond 64 bits saturate, and two different ones compare as greater
  both ways (`semver.go:136-141`): `compareSemver` is then no order. `Narrow` excludes them.
* A toolchain with a suffix of its distribution (`go1.22.1-custom`) counts as a prerelease of what it is
  built on (`semver.go:98`). `Released` excludes it.
* A capture may report as done what the reader refuses. `CapturesHydrate` excepts exactly these:
  a package that imports one of a nested module (`capture.go:336` keeps only packages of the main module,
  `web/analysis-bundle.mjs:369` asks for each imported path below it); a project whose Go files are all tests
  (`:398`); 10,000 files, the limit of both, because the reader counts the manifest as well; a
  main module `go list` has at a version (`:311` wants `devel`); options such as a blank producer, or a path of the
  main module, that the reader refuses; module paths with a character like the `~` of `git.sr.ht/~x/y` (`:18`),
  roots of more than 256 characters (`:277`), imports of more than 1,024, checksums that are not base64
  (`:183`), and files not named in ASCII, since `CreateRaw` sets no UTF-8 flag (`web/zip-reader.mjs:218`): `Misnamed`.
* A capture reads files one after another while the project may be edited: each file is what it was at
  some moment, all together need not be. Fields of a manifest that the reader does not know are not covered by its digest.
* The loader bounds manifest, index and each deflated record by a record's limit (`loader.go:181`), the
  builder does not: a release of some 7200 records cannot be built although 10000 are allowed.
  `LoadsUnlessTooLarge` says that nothing else is in the way.
* A worker that ends in the middle of a `put` leaves a file without content, which `get` of the next worker returns
  as an empty blob (`web/opfs-storage.mjs:75`), or the whole blob of a `put` that nobody was answered (`:85`).
  `AnalysisStore` allows the one in a storage that was damaged, the other for the call that was interrupted, and
  neither anywhere else.
* A `put` that `close` overtakes while its blob is being committed is rejected. A new file is removed again, but the blob
  stays where it replaced an older one (`web/opfs-storage.mjs:87-98`): `Overtake` of `AnalysisStore`.
* The release is written in place (`cmd/vulncheck-vulndb-pack/main.go:91`): a crash leaves a torn file where the
  old release was. It does not load (`LoadedIsRelease`).

## 7. Plan

1. *Done:* coordinator, its abstract specification and proofs; worker and its proofs; system; OPFS
   storage; ingestion.
2. *Done:* versions, ranges and evaluation, with the proof of its findings.
3. *Done:* ZIP reader, bundle and release, with their proofs.
4. *Done:* proofs about OPFS storage and ingestion, their sums too; that captures hydrate and
   that what was built loads; that nothing the OSV algorithm finds is missed.
5. *Done:* the system's invariant, and that it implements both the coordinator and the worker.
6. *Done:* `AnalysisStore`, and that the OPFS storage implements it. The in-memory storage has no await inside
   an operation, so there is no order for an abstract specification to restore; `VouchedFor` says what it keeps.
7. *Left:* two storages on one disk; a spawner that calls back into the coordinator; the report contract.
