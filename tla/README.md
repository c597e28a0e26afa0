# SAP-Ai-Flow: TLA+ models and proofs

SAP-Ai-Flow draws SAP business processes as graphs. A FastAPI service
(`apps/api`) keeps projects, processes, immutable graph revisions and releases
in a relational database, changes graphs with a language model or local rules,
and renders blueprint documents through export jobs that separate worker
processes may execute. A React client (`apps/web`) edits the graph on a canvas.

These modules model the parts where several requests, processes or callbacks
meet. TLC checks them on small instances, and TLAPS proves the main invariants
for every value of the constants. All source references are to paths of the
repository; `repository.py` is `apps/api/app/db/repository.py`, and so on.

## Inventory

| Component | State it keeps | Operations and interactions | What is hard | What makes it correct |
| --- | --- | --- | --- | --- |
| Export jobs and workers (`export_service.py`, `export_worker.py`, `artifact_store.py`, the export part of `repository.py`) | `export_job` rows, objects and directories of the artifact store, a heartbeat thread for each attempt | request, claim, renew, render, put, complete or fail, expire, sweep, download; worker processes meet only in the database and the store | crashes at any step, takeovers of live executors, lost answers, interrupted sweeps, a beat against a stale window | one lease holder, only the last claimant settles a job, completed jobs downloadable, no unexplained orphans, every job settles |
| Process revisions and releases (`repository.py`, `routes/projects.py`) | the process row, `process_revision` rows | create, five kinds of save, copy a release into a draft, publish; each in one session without locks | reads before a commit by others; a modification awaits the model in between | no revision lost or replaced, release numbers unique, dense and permanent, only the current revision is published |
| Project members and audit (`repository.py`) | `project_member` and `project_audit_log` rows | add, change, remove, backfill of the creator | checks on rows others change, entries dated before they are committed | an administrator remains, the log tells the roles |
| Model result cache (`result_cache.py`) | entries in order of use, calls in flight with their waiters | `get_or_create` by concurrent requests of one event loop, called by the orchestrator | callers that join, leave, are cancelled or wake late; expiry between | one call per key, no awaited call cancelled, no stale result put back |
| GAP decisions and release preflight (`routes/projects.py`) | node status in the graph, `gap_decision` rows | decide, edit, copy, publish | long legal sequences of decisions, edits and drafts | released statuses are backed by decisions |
| Graphs, patches, evidence (`models/graph.py`, `models/patch.py`, `graph/*.py`) | none between calls; during one, the working copy and the temporary references | `apply_patch` operation by operation, final validation, the check of evidence, warnings | references between new elements, cascades, parallel edges and cycles, claims checked before they are applied | the result is a valid document, changes only what the patch names and claims only what the library supports |
| Orchestrator, providers and knowledge (`agent/*.py`, `knowledge/*.py`, the modify and preview routes, `routes/flowcharts.py`) | the state of one request; a read-only index | classify, retrieve, choose a provider, generate, check, apply, check gaps | one total timeout over retries, rules that rewire edges, a library with sections not yet approved | at most the configured attempts, the rules' patches apply and keep the ways through the graph, every failure leaves the graph alone |
| Web workspace (`App.tsx`, `flowStore.ts`, `client.ts`) | loaded process, base revision, undo stacks, pending preview, polls | open, edit, undo, preview, confirm, save, export | answers that arrive after the user went elsewhere | an answer is applied only to what it was computed for |
| Web sign-in (`oidc.ts`) | pending sign-in, session, renewal | sign in, callback, renew, sign out | callbacks and renewals racing | a session only from its own sign-in |
| Documents, redaction, health, metrics, settings | read-only data or counters | | | |
| Draw.io editor and layout, scripts, deployment, vendored skill | external editor, tooling | | | |

`PROJECT.json` lists every component with its status, and every hazard with the
line where it bites and the property that covers it.

## Modules

| Module | Role |
| --- | --- |
| `ExportPromise` | abstract: what the export service promises a client about a job |
| `ExportJobs` | jobs, executors, store, sweeps; implements `ExportPromise` |
| `ExportJobs_proofs` | its theorems |
| `ExportLease` | the clock side of one lease, which `ExportJobs` leaves abstract |
| `ExportLease_proofs` | its theorems |
| `ProcessHistory` | abstract: what the version history of a process promises its readers |
| `Revisions` | the rows and the requests of one process; implements `ProcessHistory` |
| `Revisions_proofs` | its theorems |
| `ProjectMembers` | the members of one project and their audit log |
| `ProjectMembers_proofs` | its theorems |
| `GapDecisions` | gap statuses, decisions and the release preflight of one process |
| `GapDecisions_proofs` | its theorems |
| `ModelCache` | the cache of model results and its calls in flight |
| `ModelCache_proofs` | its theorems |
| `FlowGraph` | graphs as values, and which of them are documents |
| `Patcher` | `apply_patch` on one graph; `PatchSpec` is any patch at all |
| `Patcher_proofs` | its theorems |
| `Knowledge` | what a search may return, and what a patch may claim on it |
| `LocalRules` | the patches the local rule provider can make |
| `FlowWarnings` | the warnings about a graph, and the review state of an export |
| `Modification` | one request: orchestrator, provider, evidence, patch, gaps; composes the five above |
| `Modification_proofs` | its theorems, among them that a request implements `PatchSpec` |
| `MCRevisions`, `MCModelCache` | symmetry sets for TLC |
| `MCModification` | graphs, library and model patches for TLC |

An operator whose name starts with `Bug` is not part of the system: it is a
plausible mistake in the definition that follows it and is used only to show
that a property would notice that mistake.

### ExportJobs

State: `job` holds the rows (status, claim token, attempt count, artifact,
freshness of the heartbeat, whether retention has ended), `worker` the local
state of each executor of `process_export_job`, `store` and `dirs` the objects
and directories of the artifact store, `late` the renewals `heartbeat.stop()`
did not wait for, `sweeping` the rows between a sweep's delete and its clear,
`unacked` and `faults` history. The claim token is the attempt number, because
`claim_export_job` draws a new token and increments `attempt_count` in one
UPDATE. The three backends are three initial states.

One action is what an executor does between two points where another process
can act: an UPDATE with its commit, the directory made, the file written (the
temporary file and its rename are one step, as only the rename shows), a
delete. `Claim` includes the reads after it and the start of the heartbeat; a
claim whose answer is lost is a `Claim` followed by a `Crash`. Failures outside
the code's control are actions that spend one of `MaxFaults` faults: crashes,
calls that raise, calls that take effect and raise, a live executor too slow
for its lease. A lease whose executor is gone goes stale for free. Document
contents, sizes and checksums are left out.

`ExportPromise` sees of a row only an outcome, the number of grants and the
attempt whose document can be fetched; the refinement mapping is the instance
`Promise` in `ExportJobs`.

### ExportLease

The executor, its heartbeat thread with `Event.wait` and the renewal call, the
age of the heartbeat and a rival, with time in ticks. `LeaseWindow` is
`validate_export_lease_window` of `config.py` (three beats fit the stale
window). The age counts from the moment `claim_export_job` takes the time it
writes: the claiming UPDATE, its commit, the reads of the job, the process, the
project and the revision and the commit that ends them all run before the
heartbeat starts (`StartHeartbeat`). A renewal is everything from the end of
the wait to the next one, a thread that gets no processor included, and writes
the time of some moment in between.

Nothing bounds how long a claim or a renewal takes, in the code or in the model.
`ClaimTime` and `RenewalTime` only say which of them are named slow, and `pace`
records that one was; `SlowMeans` is the room the configuration leaves for
them: with a beat of a third of the window, a claim and two renewals together,
or three renewals, must take no longer than one beat. Clocks of different
processes agree.

### Revisions

State: `current`, `status`, `latest` are the columns of the process row,
`release` maps each revision number to its release number, `request` is what
each session has read. A request reads the process row (`Begin`, with
`ensure_current_revision`), then the revision row (`Load`), then commits.
Nothing is locked between, objects once read stay in the session, and an UPDATE
leaves out the columns whose value did not change; the unique constraints
`uq_process_revision` and `uq_process_release` decide at commit. The five kinds
of save differ only in what they put in the revision and are one kind here.
Saves carry the base the session read, which is what their route requires.

`ProcessHistory` is the abstract history: drafts are appended, releases are
numbered in order, numbers stay. It is instantiated as `History`.

### ProjectMembers

State: the roles, the newest audit entry about each user, the requests. A request
is authorized, reads the row of its target, counts the other administrators if
one is to lose the role, is flushed and commits the row and the audit entry
together. The actor's own row is not read again once it has been authorized (the
session's identity map), which `RoleSeen` says. The three roles below
administrator are one role. `overlapped` is history: two requests have been in
flight at once.

`list_project_audits` reads the log by `created_at`, which the flush draws when it
inserts the entry (`Flush`), before the statement about the member's row, which
may have to wait for a lock (`Commit`). Two changes of one member that cross
between flush and commit may therefore be committed in the reverse of the order
the log shows, and the log then ends in a role the row no longer has, until the
next change. `crossed` records the members this can have happened to, and
`AuditTellsRoles` speaks of the others. No document of the repository promises
more of the log, so this is a remark and no finding.

### GapDecisions

State: `graph` gives the gap of each node in every revision of one process,
`decisions` the `gap_decision` rows, `released` the revisions with a number. Of
a gap only its status and whether it names evidence are kept. `Edit` is any save
by hand, from Draw.io or by the model, under `_validate_gap_edit`; `Decide` is
`decide_gap` with the revision and the row it commits together; `CopyRelease`
continues from a release; `Publish` is the preflight and the publication.
A save is one step, because what a session read before is either still current
when it commits or the save is refused, which `Revisions` shows. A publication
may concern any unreleased revision, as its check can be late; nothing it reads
about that revision is ever changed. Revisions count from 1, whatever version
the initial graph carries. The rest of the preflight compares fields of one
graph and the process and is left out.

### ModelCache

State: the provider calls made so far with state and number of waiters, the
map of calls in flight, the entries in order of use, and which call each caller
awaits. An action is what runs in the event loop between two awaits: a hit, a
miss that starts a call, a caller that joins a running call, a caller that
finds a call that has ended and settles it without suspending, and the
`finally` block of a caller that wakes or is cancelled. Entries of the same age
may expire in any order. What a sweep or a lookup leaves of the entries is
`Keep`, a recursive function over the sequence. The key's digest is abstract: two
requests have the same key or they do not.

### FlowGraph and Patcher

A graph is a record of functions from ids to nodes, edges and lane labels, and
the set of ids that have a position. Label, description and icon of a node are
one field, a node's SAP metadata is a set of items (reference and status) with
the gap status and its references, and `subprocess` is a `task`, as the code
never tells them apart. `ValidGraph` is `validate_graph`, and `FieldsAreValid`
the limits of the fields that a patch can break. Positions are cut down and
not checked, as in the code.

`Patcher` has one step per turn of the loop in `apply_patch`. An id that `new_id`
draws is the next number, which no patch can contain; a temporary reference is
a negative number. An operation that raises `PatchError` refuses the patch
(`RefuseOperation`), a null label or type of a node raises an exception that is no
`PatchError` (`FailOperation`), and `Validate` is the final `model_validate`, which
alone sees the null label of a lane: `update_lane` uses `model_copy`, which does
not validate. The version of the graph, which the result increments, is the
revision number of module `Revisions`.

`WorkingIsValid`, `RefsAreLive` and `OnlyNamedChange` hold after every operation,
so the order of the operations and the point of a failure do not matter. The
last one is the rule of `IMPLEMENTATION.md`, 8.2, that ids and fields of objects
that are not concerned stay. The same section says that edges removed with a
node are written into a normalised patch; the code stores the patch as it came.

### Knowledge

The library is a set of sections with what the filters see of them. `Indexed` is
`KnowledgeIndex.sync` (outside development, only approved and licensed sections),
`SearchResults` any few that match, because scores are abstract. References are
`source#section` and may be shared: `Retrievals` keeps one of the statuses, as
the dictionary in `validate_patch_evidence` does. A graph may already hold
references and verified items, which count as known.

### LocalRules

Each rule of `local_provider.py` as the set of patches it can make for a graph;
which rule applies and which elements the words find is open, so that every
element is tried. Conditions that the rules check themselves are kept: one edge
between two nodes (`Findable`), no edge yet between nodes to connect, the number
of lanes, the edge a new step takes over (`Preferred`). New flows have at most
`MaxSteps` steps between start and end, and the purchase flow `MaxSteps` instead
of five and one lane instead of five; the approval is the second step in both.

### FlowWarnings

The two searches of `validator.py` are written as recursive functions of the state
of the search (`Search` of the queue and the reachable set; `Visit` of the nodes
still to do, the visiting and the visited set), with a turn of the loop or a visit
as the code makes it (`Turn`, `VisitNext`): like `any(...)`, a visit stops at the
first cycle. They stand next to definitions without a search (`Reach`, `IsCyclic`)
that they are compared with. The order of the edges is an arbitrary choice.

### Modification

State: the stage of the request, its three switches (stateless endpoint,
development, external provider chosen and allowed by the project), the status of
the search and what was retrieved, the failed attempts of the provider call, and the variables of
`Patcher`. `AttemptFails` covers the failures after which the loop in
`deepseek_provider.py` goes on, `AttemptIsRefused` those that leave it, and
`TotalTimeout` may strike at any await of an attempt or a pause. What a model
answers is a constant set of patches. Cached and shared results are answers like
others: `ModelCache` shows whose they are, and its keys hold the whole graph and
the evidence. The result is saved by the actions of `Revisions`, or only shown.
The flowchart endpoint exists in development, retrieves nothing and checks
neither evidence nor gaps, so the properties about claims exclude it.

Remarks on what the code does and the model leaves out. The preview reports
`cache_status` as `bypassed` although it goes through the cache
(`routes/projects.py`, end of `preview_process_modification`). `_has_cycle` calls
itself for each node of a chain, so that a chain of nearly `MaxNodes` = 500 nodes
exceeds Python's recursion limit; `Visit` has no such limit. A label of a new
node that is too long for the graph raises an exception that is no `PatchError`;
labels have no length here. Ids of an imported graph have no pattern, so that one
may begin with `@` and be taken for a temporary reference; `PatcherAssumption`
excludes it.

## Runs

| Run | Instance | Shows |
| --- | --- | --- |
| `exports` | 2 jobs, 2 fair executors, 2 faults, every backend | types, `OneHolder`, `CompletedIsServable`, `OrphansBoundedByFaults`, `ImplementsPromise`, `EveryJobSettles`, `DueDocumentsAreSwept` |
| `exports_takeover` | 1 job, 2 executors, 1 fault | **violated**: `HolderFailsOnlyByFault` |
| `export_lease` | beat 6, window 18, claims over 4 and renewals over 1 slow | types, `HeartbeatAge`, `TakeoverNeedsCause` |
| `revisions` | 3 requests, revisions 0 to 3 | types, `CurrentIsNewest`, `HistoryInv`, `ImplementsHistory`, and no deadlock |
| `revisions_counter` | 2 requests, revisions 0 to 2 | **violated**: `NextNumberIsFree` |
| `revisions_publish` | 2 requests, revisions 0 to 2 | **violated**: `PublishOnlyCurrent` |
| `members` | 2 requests, 3 users, 4 changes | types, `AdminRemainsAlone`, `AuditTellsRoles`, `AloneInv` |
| `members_last_admin` | 2 requests, 3 users, 4 changes | **violated**: `AdminRemains` |
| `gap_decisions` | 1 node, 5 revisions, every initial graph | types, `ReleasedGapsWereDecided`, `ResolvedWasConfirmed`, `GapInv` |
| `model_cache` | 3 callers, 2 keys, 1 entry, 4 calls | types, `OneCallPerKey`, `CallsAreWanted`, `CachedIsNewest` |
| `modifications` | 3 graphs, 4 sections, patches of up to 3 operations, 3 attempts | types, `WorkingIsValid`, `RefsAreLive`, `OnlyNamedChange`, `ClaimsAreTraceable`, `AttemptsAreBounded`, `LocalPatchesApply`, `InsertKeepsPaths`, `NewFlowsAreWhole`, `WarningsAreTrue` |
| `modifications_pending` | the same | **violated**: `NewItemsStayPending` |

### Bounds

- Exports: two executors are enough for a takeover, and two faults for the
  takeover of a live executor whose cleanup fails or whose renewal comes late.
  Two jobs share executors and one retention sweep. Jobs interact through nothing
  else. The safety properties are proved for any number of faults.
- Lease: 18 ticks are three beats of six, the tightest window the
  configuration accepts; a claim of 4 and two renewals of 1 fill a beat, so that
  one tick more would break the property.
- Revisions: three requests let a publication and two saves, or two
  publications and a save, overlap. Four revisions leave room for a history of
  three releases; `MaxRevision` only stops new saves, and requests can always be
  given up, so that deadlock stays checked.
- Members: a last administrator, another one and a third user to add or remove.
  Four changes (`MaxTime`) are enough to add a member, to change it twice at once,
  and once more.
- Gaps: nodes meet only in the preflight, which asks the same of each, so one
  node is enough. Five revisions hold a gap that becomes a candidate, is
  confirmed and resolved with an edit in between, or is removed and put back.
- Cache: one entry makes every stored result evict another key's. Four calls
  let a key be called, fail or expire, and be called again while an old
  caller has still not woken.
- Modifications: an empty graph, one with parallel edges and a decision, and one
  with a cycle and two lanes. A model's patch is any one or two of some fifty
  operations, or three of those that interact (references, cascades, duplicate
  edges); every local rule is applied to every element. `MaxNodes`, `MaxEdges`,
  `MaxLanes` and `MaxOperations` are small enough to be reached, so that results
  beyond a limit occur. The library has an approved, a pending, a foreign and an
  unlicensed section, and a search returns up to `TopK` = 2.

`CHECK_DEADLOCK FALSE` stands where the system may stop: when every export has
been settled and the faults are spent, when the lease's executor is done, when
a project has no administrator left to make a request or the changes are used up, when the bounded
revisions are used up, when the bounded provider calls have been
made, and when a request has ended.

### Findings

1. `exports_takeover`: an executor whose lease was taken over deletes its own
   object after its result is refused, and with it the job's directory if that
   is empty. If the new holder has just made that directory and not yet its
   temporary file, its `put` raises and its job is recorded as failed.
   `deploy/OPERATIONS.md:119` says that a worker whose job was taken over cannot
   overwrite the new result. It cannot, but it can keep it from coming about.
2. `revisions_counter`: `publish_release` computes the number from the
   `latest_release_no` it read and writes it back. A stale publication of a
   revision that was released in the meantime sets the counter back. From then
   on every publication of the process fails on `uq_process_release` with the
   answer to try again later.
3. `revisions_publish`: a publication commits although a save has replaced its
   base revision, without the 409 that `IMPLEMENTATION.md:796` prescribes.
   The process is then `APPROVED` while its current revision is a draft.
4. `members_last_admin`: two requests each take the role from one of the last
   two administrators. `USER_MANUAL.md:256` says this is prevented.
5. `modifications_pending`: after a search without results new professional fields
   can only be pending, say `IMPLEMENTATION.md:664` and the warning the user gets
   (`orchestrator.py:236`). A new item may be verified all the same, by a reference
   that is verified elsewhere in the graph (`evidence.py:44`): the branch adds the
   warning and nothing else. `ClaimsAreTraceable` states what the check does
   guarantee.

## Fairness

Only `FairSpec` of `ExportJobs` states fairness. Executors are threads that
always take their next step (`Progress`) and loops that poll for work
(`run_forever`), so each is weakly fair. A lease whose executor is gone becomes
stale because time passes; retention ends by itself or not, which is left
unfair. Every worker round sweeps, so expiry, the delete of a listed row and
the clear after it are weakly fair, and an interrupted sweep starts again. With
the inline mode of development there is no worker loop: the same steps run when
clients poll or request exports, and the liveness results hold only as long as
they do. Crashes, failed calls and takeovers of live executors have no fairness
and are bounded by `MaxFaults`; without such a bound a job whose rendering
always kills its executor is never settled, as nothing limits `attempt_count`.

## Proofs

All proofs are checked by TLAPS for every value of the constants that satisfies
the named assumptions (`FaultBound`, `NoKeyIsNotAKey`, `LeaseWindow`,
`SlowMeans`, `CallersAreFinite`, `RevisionBounds`, `OwnerIsAUser`, `TimeBound`, `RevisionBound`,
`PatcherAssumption`, `LocalAssumption`, `LibraryAssumption`,
`ModificationAssumption`, and `StatusAssumption` and `ErrorAssumption`, which say
that JSON null is no status and no error code). Every invariant of a passing run
is stated by a theorem.

- `ExportJobs_proofs`: `TypeCorrect`; `LeasesHold`, the inductive invariant;
  `OneHolderAlways`, `CompletedAlwaysServable`, `PromiseKept`,
  `OrphansAlwaysBounded`. `OneHolder` is
  not inductive: that two executors cannot both match a row needs that their
  attempt numbers differ (`KeysDistinct`), which needs that every key was granted
  (`KeysGranted`) and that a running row's token is its last attempt
  (`RowsConsistent`). `CompletedIsServable` needs that the object is stored before
  the completing UPDATE (`UploadedIsStored`), that nobody but a cleanup after an
  unacknowledged commit still works for the winning attempt (`WinnerIsDone`) and
  that a sweep only clears expired rows (`SweptAreExpired`). `PromiseKept` maps
  each action to a step of `ExportPromise` or a stutter. `OrphansAlwaysBounded`
  counts with `FiniteSetTheorems`: a step without a fault adds no orphan and a
  fault at most one (`OrphansExplained`), because the object of a swept row is
  gone before the row is cleared and an executor that is done holds no object
  (`StoreInv`).
- `ExportLease_proofs`: `LeaseTyped`; `HeartbeatAgeBounded` bounds the age of the heartbeat for
  each number of failed renewals and each state of the thread, as long as no call
  was slow; `SlowRenderingIsSafe` follows because two beats, a claim and two
  renewals fit the window. No theorem assumes that calls are prompt: that a call
  was slow is one of the two causes the conclusion names.
- `Revisions_proofs`: `RevisionsTyped`, `NoRevisionIsLost`, `ReleasesAreNumbered`,
  `HistoryKept`. That a release gets the next number although `latest` may be
  stale needs that every number up to the one a request read is taken, and taken by
  other revisions once the request found its base unreleased
  (`RequestsReadHistory`): then the unique constraint admits only the next number.
- `ProjectMembers_proofs`: `MembersTyped`, `AuditAgrees`, `AloneIsSafe`,
  `AdminsOutlastLoneRequests`. The inductive part is that what the one request in
  flight has read still holds when it commits (`ReadStillHolds`). `AuditAgrees`
  needs that a request whose entry was overtaken by one with a later `created_at`
  is about a member that has crossed (`OvertakenHaveCrossed`), and that the next
  entry is newer than all others (`TimesArePast`).
- `GapDecisions_proofs`: `GapsTyped`; `GapsAreDecided`, the inductive invariant;
  `ReleasesShowDecisions`, `ResolvedAfterConfirmed`. A decided gap either has a
  decision that stands or has kept its status since the initial graph. The
  preflight excludes the second: it finds a decision to that status, a decision
  is a change of status (`DecisionsAreSteps`), and so the status has not always
  been the same. The same argument, one revision before the gap was resolved,
  shows that it was confirmed by a decision and not imported as confirmed.
- `ModelCache_proofs`: `CallsAreShared`, `NoCallIsAbandoned`. A call that runs is
  in the map (`RunningIsCurrent`), under its key (`MapIsKeyed`), and a call in the
  map counts exactly the callers that wait for it (`CurrentCountsCallers`): a
  caller that finds its call replaced or settled counts nothing. A finished call
  is no longer counted once its first caller has taken it out of the map, and a
  cancelled one is left by its only caller (`CancelledIsLeft`).
  `CacheIsBounded` is the type invariant with the limit of the entries, and
  `NoOldResultReturns` states `CachedIsNewest`. They need what `Keep` returns for
  every sequence: elements of it that are to be kept, each at most as often
  (`PicksFrom`), and fewer if one is not (`KeepPicks`). That is an induction over
  the sequence, done with a set of naturals in the place of the property
  (`SetInduction`) because the library's theorem takes an operator. The
  strengthening `RInv` says of every entry that it is the result of the last call
  made for its key, that none is in flight for it and that no other entry has its
  key (`EntryRight`), and that a call in the map is the newest of its key
  (`CurrentIsNewest`): a caller that wakes late finds its call replaced and stores
  nothing.
- `Patcher_proofs`: `PatchTyped`, `PatchKeepsGraphsValid`, `PatchKeepsRefsLive`,
  `PatchChangesOnlyNamed`, for every graph and every sequence of operations. The
  invariant `CoreInv` adds to validity that all ids are at most the last one drawn
  (`Whole`), and that what a reference names was drawn (`RefsAreDrawn`): an
  operation can name neither, so nothing it removes is referred to. Each
  operation has a lemma that it keeps the graph whole. `NamedInv` follows the ids
  named so far; that a removed node does not come back needs that new ids are new.
  `SoundPatchesApply` gives a condition that can be read off a patch and a graph
  (`Sound`) under which no operation is ever refused: either the patch only makes
  nodes, lanes and edges, each from what is there or what it has made before,
  with distinct edges that touch something new, and removes edges (`Builds`), or it
  is one operation that the graph admits (`FitsAlone`). The invariant `ApplyInv`
  says what such a patch has made so far and that everything new was made by it
  (`Built`). `AppliedAsAWhole`: an applied patch was applied to its last operation.
- `Modification_proofs`: `RequestsApplyPatches` shows that a request does to the
  variables of `Patcher` only what `PatchSpec` allows, a refinement with the
  identity as mapping; the local rules' patches are shown to be sequences of
  operations. `ResultsAreValid`, `RequestRefsAreLive` and `RequestsChangeOnlyNamed`
  follow from it. `RequestsTyped` and `AttemptsStayBounded` rest on
  `RequestTypeOK` and `AttemptsInv` (nothing has been answered before the
  provider is asked; an error is final). `ClaimsStayTraceable` rests on
  `ClaimsInv`: what was retrieved stands for sections of the library, the patch
  applied has passed the check, and the metadata of every node is that of the
  same node before or a claim of an operation applied so far (`SapIsKnown`).
- About the local rules, in the same module: `LocalRulesApply` shows that each
  patch they make is `Sound` for the graph it was made for (`RulesAreSound`, one
  lemma for each rule, by the place of each operation in the patch) and claims
  nothing but what was retrieved (`Quiet`), so that only a limit of the document can
  refuse it; `LocalInv` carries this through a request. `InsertionsKeepPaths`: an
  inserted step leads on only where an edge from what leads to it did, and every
  edge removed leads past it (`KeepsWays`, read off the patch); from that and
  `Built`, closed sets of the old graph and the new one correspond
  (`ReachIsKept`). `NewFlowsStayWhole`: a chain of operations in an empty graph
  makes a line of nodes from a start to an end (`IsLine`); a line is reached as a
  whole, by induction along it, a circle in it would have a last node
  (`LinesHaveAnEnd`), and no node has two edges out.
- About the warnings: `WarningsStayTrue`. `SearchFinds` says that the breadth-first
  search of any finite graph returns `Reach`: a turn changes nothing about what
  the search will find (`Finds`), and the nodes not yet reachable with the length of
  the queue get fewer (`Size`). `CyclesAreFound` says that the depth-first search
  returns true if and only if `IsCyclic`: what has been visited is closed and without
  a cycle (`Settled`), and what is being visited leads on (`OnTheWay`), by
  induction over the nodes not being visited and those to do (`Weight`). That the
  recursive functions exist is part of both proofs.
- The assumptions of these modules:
  `PatcherAssumption` asks that the graphs at the start are documents and that the
  special values differ from the others; `LocalAssumption` that there are enough
  references for a new flow; `ModificationAssumption` that a model's patches are
  patches, that one attempt is made, and that the sections of the seed share a
  review status, which is a field of their one file.

Only model-checked: the two liveness properties `EveryJobSettles` and
`DueDocumentsAreSwept` (fairness and ENABLED are beyond the prover), and of course
the five properties that the code violates.

The searches and `Keep` are recursive functions of one argument and no RECURSIVE
operators, because the prover can reason about the former.

## What is left

1. Theorems about the abstract specifications themselves: what a client may derive
   from `ExportPromise` and a reader from `ProcessHistory`, which the systems then
   inherit through their refinements.
2. The web workspace: the loaded process, base revision, pending preview and undo
   stacks against an abstract server, with late answers.
3. The state of a pending sign-in and of token renewal in `oidc.ts`.

## Not modelled

The web client (`App.tsx`, `flowStore.ts`, `client.ts`, `oidc.ts`) is not modelled:
its state is that of one browser tab, and a save it sends is one of the requests
of `Revisions`, whatever the client believes. Two hazards of it are listed without
a property, because the server cannot tell a graph edited by hand from a preview
that was computed for another process. The Draw.io editor and the canvas layout
convert and draw.

Document rendering, text matching, scoring of knowledge, token verification,
redaction and layout are pure functions over text and drawings without protocol;
the gap analysis reports a candidate and changes nothing. Creating a project and
switching its external model on or off write one row. Logging, metrics, health
checks and the alert receiver only observe. Scripts, acceptance programs,
deployment files and the vendored Draw.io skill are not the program.
