# jj-lab, formally

TLA+ models of jj-lab's server core, TLC runs that check them on small
instances, and TLAPS proofs for every value of the constants. Paths below are
relative to the repository (`src/` here is its root).

## 1. The system

jj-lab is a git forge whose truth is a jj repository: a Rust server
(`src/crates/server`) translates HTTP, git smart HTTP and package protocols to
a native core (`src/crates/git`), with metadata in SQLite (`src/crates/core`),
a package registry (`src/crates/pkglab`) and CI on Kubernetes.

| Part | Code | State | Operations | Interacts with |
|---|---|---|---|---|
| CI pipeline | `git/src/actions.rs`, `scheduler.rs`, `runtime.rs` | tables `runs` and `jobs`; the scheduler's batch and current run; a task and a log writer per job; pods | enqueue (push, pull request, cron), claim, execute, watch a pod, write status | handlers and the loop share rows; tasks, writers and pods share the cluster |
| Merge requests | `server/src/handlers/mr.rs`, `git/src/mr_anchor.rs`, `mr_reconcile.rs`, `core/src/db.rs` | rows with a number per repository and a state; hidden refs that keep reviewed commits | create, close, reopen, update head, reconcile | the reconciler runs in the scheduler loop and reads rows handlers write |
| Repository view | `git/src/mutation.rs`, `project.rs`, `sync.rs`, `server/src/handlers/git_http.rs`, `write.rs` | jj view (bookmarks, last seen refs), git refs, HEAD, an import lock per repository | write API, push and import, export | jj transactions merge; git and jj both write refs |
| Metadata heads | `git/src/project.rs` | bookmark, change and merge request rows | projection after each request | reads the view, writes rows merge requests use |
| Repository lifecycle | `git/src/mutation.rs`, `sync.rs`, `server/src/handlers/write.rs`, `core/src/db.rs` | a directory, a row, and the bookmark, change and conflict rows filed under it; organization rows | create, clone, fetch, rename and delete a repository; create, rename and delete an organization | every other part opens the directory |
| Mirrors | `sync.rs`, `handlers/mirror.rs` | remotes | clone, fetch, pull, push | import and export without the import lock |
| Package storage | `pkglab-core` (`blob.rs`, `store.rs`, `gc.rs`) | a table of artifact rows, a directory of blobs named by digest | put, get, list and delete; mark and sweep | every package protocol |
| Package protocols, pull-through | `pkglab-*`, one crate each, `pkglab-common`, `pkglab-api` | none of their own | 15 protocols translate routes to storage calls | the stores, upstreams |
| OCI images | `pkglab-oci` | a row per tag and per digest of a manifest | put, get, delete manifests and layers | the stores |
| OCI uploads | `pkglab-oci/src/uploads.rs` | sessions: an entry in a map, a file behind a lock, a counter, a record | start, status, patch, put, delete, restore | the blob directory |
| Background tasks | `git/src/task.rs`, `handlers/ops.rs` | a task with a bounded log and a broadcast channel | start, push a line, end, stream | streams of clients |
| Services | `git/src/service.rs`, `handlers/ops.rs`, `git/src/sync.rs` | Kubernetes objects; two caches in memory | ensure, delete, scale, restart, roll back, synchronize | Kubernetes, a worker in the pod |
| Reading, releases, authentication, metadata tables, wiring, frontend | `read.rs`, `lib.rs`, `db.rs`, `main.rs`, `src/frontend` | single rows or none | queries | |

What is hard here is never one function. Rows are written one statement at a
time while the scheduler reads them; the scheduler loop waits for tasks that
wait for pods; blocking closures go on after their handler is dropped; jj
transactions start from a snapshot and merge later; git refs have two writers;
many errors are dropped (`let _ = ...`); a package is rows and blobs that no
transaction ties together, and blobs are shared; a repository is a directory
and rows in the same way; a handler is a future that a lost client drops at any
await. PROJECT.json lists each place under
`hazards`, with the properties that watch it.

What makes each part correct:

* **CI**: a run is successful only if its jobs are; the oldest queued run goes
  first; verdicts are final; a job is executed once unless something failed;
  no pod is left behind; every queued run is decided; every running job settles.
* **Merge requests**: numbers are 1, 2, ... n however creations overlap; a
  reviewed commit stays anchored while its request is open; anchors of requests
  that are not open do not accumulate.
* **Repository view**: an acknowledged edit is never lost to a concurrent
  request; without overlap, the view, the refs and HEAD agree; imports are
  serialized; one bookmark always remains.
* **Repository lifecycle**: a name has a whole repository and its row, with no
  bookmarks but its own, or neither; nothing but a deletion loses a repository
  or its bookmarks, whatever overlaps, fails or dies. (The rows of changes are
  shared: see RepoLifecycle below.)
* **Package storage**: a row names stored blobs; a handler leaves exactly the
  rows it promises and answers with the rows there are; a tag resolves; the
  collector never overlooks a row; a cached copy never replaces a pushed one.
* **OCI uploads**: the file of a session is what was acknowledged, as long as no
  body broke off; a session is all there or all gone; a chunk lands at the
  offset it names.
* **Services and tasks**: who ensured a service has it; no edit undoes another;
  the caches tell the truth; a stream shows the lines in order and the end.
* **Metadata heads**: an open request follows its branch and no other's.

## 2. Modules

| Module | Models | Runs | Proofs |
|---|---|---|---|
| `CiRuns` | abstract run queue: enqueue, claim a batch, execute, decide | through refinement | |
| `CiScheduler` | the CI pipeline as it is built | `ci_safety`, `ci_liveness`, `ci_late_job`, `ci_job_timeout` | `CiScheduler_proofs` |
| `MergeRequests` | numbering, state, anchors, reconciler | `mr_safety`, `mr_liveness`, `mr_read_fails` | `MergeRequests_proofs` |
| `RepoView` | bookmarks and refs, their two kinds of writers | `rv_safety`, `rv_import_overlap`, `rv_last_bookmark` | `RepoView_proofs` |
| `Registry` | rows, blobs, the flows of storage calls that handlers are made of, the collector | through `RegistryServer` | `Registry_proofs` |
| `PackageProtocols` | the routes of the other 14 protocols, as flows of `Registry` | through `RegistryServer` | `Registry_proofs` |
| `OciImages` | manifests, tags and layers, on `Registry` | through `RegistryServer` | `Registry_proofs` |
| `OciUploads` | upload sessions, on `Registry` | through `RegistryServer` | `OciUploads_proofs` |
| `RegistryServer` | composes these four; restart and restore | `registry` | `Registry_proofs`, `OciUploads_proofs` |
| `ServerCalls` | the clients and bounds the next three share | | |
| `RepoLifecycle` | directories and rows of repositories and organizations | through `ServerProcess` | `RepoLifecycle_proofs` |
| `Services` | one service of `/ops`, its objects, caches and requests | through `ServerProcess` | `Services_proofs` |
| `Tasks` | one background task and its streams | through `ServerProcess` | `ServerProcess_proofs` |
| `ServerProcess` | composes these three; one crash ends them all | `server` | `ServerProcess_proofs` |

`MCCiScheduler`, `MCMergeRequests`, `MCRepoView`, `MCRegistry` and
`MCServerProcess` hold what only TLC needs: symmetry, state constraints and the
bounds of the behaviours to explore. Operators named *mutant* in a module are
versions of the definition after them with a plausible bug; they take no part
in the specification, and each shows that a property can fail. No module uses
a RECURSIVE operator.

### CiScheduler

| Code | Model |
|---|---|
| `enqueue_run` (`actions.rs`) | `CreateRun`, then `InsertJob` per step, or `MarkSkipped` when there is none: one action per statement |
| `tick`, `execute_run` (`scheduler.rs`) | `PendingRuns`, `BeginRun` (the only read of the jobs), `Prepare`, `PrepareFails`, `SpawnJob`, `JoinJob`, `JoinPanicked`, `FinishRun` |
| `run_pod_streaming` (`runtime.rs`) | `CreatePod`, `WaitTerminal`, `Deadline`, `AwaitWriter`, `ReadPhase`, `ReadExitCode`, `DeletePod` on `task[j]` |
| its log writer | `OpenLog`, `EndLog` on `writer[j]` |
| `run_build_step` | `RunBuildStep` |
| `let _ = db.set_...` | `SetRunStatus`, `SetJobStatus` with `LoseWrite` |
| the cluster (external) | `StartPod`, `FinishPod`, `BreakPod` |
| the process dies | `Restart`: rows and pods stay |

Time is abstract: a deadline may pass at any moment. `enqueue_run` is one
handler whatever called it; scheduled dispatch, which runs in the loop itself,
is a handler that runs at any moment, which is more than it can do. A
Kubernetes connection that cannot be opened makes a tick not happen. When a job
task panics, its detached log writer is dropped from the model: it only appends
to a file.

`CiRuns` keeps the runs only. The refinement maps `barren` (runs a handler has
still to mark skipped) to the handlers' positions and every other variable to
itself; a step of jobs, pods, tasks or writers is a stutter.

### MergeRequests

| Code | Model |
|---|---|
| `create_mr_handler` | `ResolveHead`, `ReadMax`, `InsertRow`, `Pin` |
| `Db::create_mr` | `ReadMax` and `InsertRow`: two statements; UNIQUE refuses the second of two equal numbers |
| `update_mr_handler` | `SetState`, `Unpin` |
| `update_mr_head_handler` | `UpdateHead`, `Pin` |
| `prune_stale_mr_anchors`, `prune_stale_mr_heads` | `ListRepos`, `ListRefs`, `CheckRef`, `DeleteRef` |
| disconnects, failing statements | `Abandon` |

States other than open, merged and closed are stored as they come; `"other"`
stands for them and `"closed"` for both terminal ones. Which commit an anchor
names is left out. Deleting the repository is left to the lifecycle module.

### RepoView

A commit is the sequence of changes from the root to it, and a change the
sequence of edits that went into it, so that an amend is visible and a
descendant is an extension. A bookmark is a set of sides: one when it is
normal, several in conflict, `{Absent}` when it does not exist.

| Code | Model |
|---|---|
| `set_bookmark`, `delete_bookmark`, `commit_edits`, `rebase_bookmark` | an action that computes the new view on the snapshot, then `CommitTx` |
| `project_repo`, the git part | `OpenProject`, `ExportRefs`, `CloseExport` |
| `smart_http_rpc` for receive-pack | `Receive` (git moves the ref), `TakeLock`, `ReadRefs`, `CommitTx` |
| `run_jj` | a request goes on without its client; `Fail` for errors and panics |
| a dropped handler | `Disconnect` |
| jj-lib (external) | `Merge3` (`merge_ref_targets`), `Rewrite` (`rebase_descendants`), `Imported` (`import_refs`), `Exports` (`export_refs`) |

Simplifications: jj merges divergent operations when the repository is next
loaded, the model when the second one commits; `Merge3` keeps the sides and
not the removed terms of a conflict; commits are not rebased onto a rewritten
parent of a concurrent transaction; the compare-and-set of `export_refs` is one
step for all bookmarks; a rebase of an ancestor onto its descendant is left
out. `rebase_bookmark` moves the last change of the source and no earlier one
(its comment says "commits"); the model does as the code does and counts the
others as replaced. Default names other than `Main` for HEAD are covered by a
nondeterministic choice of an existing bookmark.

The observer `dropped` collects the edits that requests answer for. A request
that saw an edit may replace it (`Forgets`, `Move`). There is one subtler case,
which the proof of `NoLostEdit` brought up: a bookmark has two sides, a rebase
replaces the one, and another rebase, concurrently, the other. Each leaves the
edits that both sides have to the side that the other takes away, and they are
lost, although no single request dropped them. `Relinquished` notes those edits: what a
transaction takes away with a side (of a bookmark that has moved since, or of a
git target that is itself in conflict), and brings back in none. The case needs
four bookmarks and about seven requests, more than `rv_safety` has; without
`Relinquished` the property holds there and is false in general.

### Registry and PackageProtocols

The fifteen protocols differ in their wire format; their handlers are made of
few sequences of storage calls. `Registry` has one action per storage call and
runs a request as a *flow* through them; a route of `PackageProtocols` says
which flow it is and with which parameters. One package is modelled, of the
protocol the initial state chooses: two packages share blobs only, and two
versions of one package share them as well. The stores are those of an earlier
run: every set of rows with one pushed file each.

| Code | Model |
|---|---|
| `ArtifactStore` (`get`, `put`, `delete`, `list_versions`, `list_packages`, `list_oci_images`, `delete_repo`) | `Got`, `SetRow`, `ListVersions`, `ListPackages`, `ListOciImages`, `Wipe` |
| `BlobStore` (`put_if_absent`, `open`, `delete`) | `PutBlob`, `Open`, `Cull` |
| `store_version`, `store_version_src` of each adapter | `Overwrite` (cargo, npm, pypi, ...) or `Merge` (maven, generic, conan) |
| `remove_version`, removal of one file, of a whole package | `Remove`, `Prune`, `RemoveAll` |
| documents under the empty version (owners, yanks, dist-tags, revisions) | flows `edit`, `tag`, `amend`, `mark` on `Doc` |
| a download, with its upstream | flow `serve`: `LoadToServe`, `Open`, `Fetch`, and what the adapter stores of it; flow `head` of those that do not open the blob |
| index pages, listings | flows `index` and `list`: `List`, `Read` |
| `gc.rs`, `run` | `GcStart`, `GcMark`, `GcList`, `GcSweep`, `GcDone` |
| a failing storage call, whose error handlers drop | `ok = FALSE` in each step, bounded by `faults` |
| a client that hangs up; a restart | `HangUp`, `Restart`, bounded by `crashes` |

Archives, forms and paths come down to the version, file name and bytes the
handler goes on with; digests are the contents.

`AnswersExact` says of a download what it must answer (`Served`): the named file
when the row it found has it (`Wanted`), otherwise what the upstream gave, or
nothing. It speaks of requests that met no writer and no failure, and whose
named blob was there when they opened it: a blob that the collector or another
version's removal has taken is looked for upstream, and such a request is not
`clean`.

### OciImages and OciUploads

| Code | Model |
|---|---|
| `put_manifest` (a row per reference) | `PutManifest`, `PutImage`, one put per step |
| `get_manifest`, `list_tags`, `list_referrers` | `GetManifest`, `Resolve`, `FetchManifest`, `ListTags`, `ListReferrers` |
| blobs: get, head, mount, single-shot, delete | `GetBlob`, `CheckBlob`, `MountBlob`, `PostBlob`, `DeleteBlob`, with `StatBlob`, `StoreBlob` |
| `uploads_dispatch` | `StartUpload`, `StatusUpload`, `PatchUpload`, `PutUpload`, `DeleteUpload` |
| the statements of `patch`, `commit`, `cancel` | `CheckUpload`, `WriteChunk`, `BumpSize`, `SaveRecord`, `SeekStart`, `ReadBack`, `StoreUpload`, `ForgetRecord`, `UnlinkFile` |
| a body that breaks off, a file that cannot be written or read | `WriteChunk` with `ok = FALSE`, `ReadFails` |
| a dropped handler | `DropUpload` |
| `restore` | `RestoreUploads`, with `Restart` |

A chunk is its place in the layer, an offset a number of chunks. `io::copy` moves
the body as it arrives: when it returns an error, part of the chunk (in the
model nothing or all of it) is in the file and the cursor behind it, but it is
not in the counter or the record, the lock is free again, and the session stays
in the map. A PUT without an offset goes on to commit even then; a retry that
names the counted offset is accepted, and appended behind those bytes. The
observer `spilt` notes that a session has such bytes (a task dropped between
copy and count leaves them too), `torn` that its cursor was left away from the
end (a reader that was dropped or failed, a restart), `hurt` that its record or
file fell behind. `UploadIntact` claims that the file is exactly the acknowledged
chunks without `spilt`, and that the cursor is at its end, and the counter the
length of what was acknowledged, even with it. Left out: requests during
`restore` (which the server starts without waiting for it). A manifest names all
layers.

### RepoLifecycle

A directory holds the identity of a repository and how much of it is there
(nothing, scraps, a half-made, whole or torn `.jj`); what is inside is
`RepoView`'s.

| Code | Model |
|---|---|
| `create_repo`, `project_repo` | `CreateRepo`, `UpsertRepo`, `OpenOrInit`, `StartInit`, `FinishInit`, `Load`, `OpenView`, `Record` |
| `clone_remote` | `CloneRemote`, `MakeDirs`, `StartGit`, `GitFails`, `InitClone`, `CommitClone`, `Promote` |
| `delete_repo`, `Db::delete_repo` | `DeleteRepo`, `StartRemove`, `EndRemove`, `DeleteDependents`, `DeleteRow` |
| `rename_repo`, `Db::rename_repo` and the roll-back | `RenameRepo`, `LookOld`, `LookNew`, `UpdateRow`, `RenameDir`, `Undo` |
| `create_org`, `delete_org`, `rename_org` | `CreateOrg`, `DeleteOrg`, `RenameOrg` |
| errors, a rename whose client left, a crash | `FailCall`, `QuitRename`, `LifeCrash` |

What is filed under a row is in three variables, by the keys of the schema
(`db.rs`, `SCHEMA`). `meta` is the bookmarks, whose key begins with the
repository: of each name, the identities of the repositories that wrote them.
`change` is the table of changes, whose key is the change id *alone*: one row
among all repositories, filed under the one that recorded it first, because
`upsert_change` updates a row and leaves its `repo_id`. Every projection records
every reachable commit, jj's root commit among them, so two repositories always
share rows. `conflict` is the conflicts, which refer to a change and are filed
likewise. Two consequences are in the model as in the code, and need neither
overlap nor failure:

* deleting the repository under which a change is filed deletes its row, though
  another repository has the change (it comes back, filed under that one, when
  that one is projected next);
* when a conflict of another repository refers to such a change, the foreign key
  refuses the deletion *after* the directory is gone, and the row of the
  repository stays behind (mark `"held"`).

So no property says that a repository has its changes' rows. `Agree` says that a
name has a whole repository, a row and no bookmarks but its own, or neither, but
for names at which a deletion was held back; `MetadataKept` says that bookmarks go only by
a deletion of their name, and the row of a change only by a deletion of the
repository it is *filed under*.

What a projection finds is a member of `Histories`: which changes are reachable,
which of them have conflicts, whether there are bookmarks. The statements of one
projection are one step, and so are those of a deletion up to that of the row; a
repository with merge requests or runs is deleted in the same way (their rows
cascade), and those tables are their own modules'.

The observer `marks` notes at each name what the code does not answer for: an
overlap, a failure, a renamed organization, leftovers, a deletion held back.
`upsert_org` and `upsert_repo` are one step. A staging path is taken to be no repository's name
(`Repos \cap Stems = {}`); in the code a clone of `a` removes a repository
called `a.clone-staging`. Names with one stem (`foo.js`, `foo.ts`) share a
staging directory, in the model as in the code.

### Services and Tasks

| Code | Model |
|---|---|
| `ensure_bare`, `ensure_deployment`, `upsert_service`, `derive_sandbox_image` | `Ensure`, `Derive`, `Build`, `GetObject`, `AwaitGone`, `CreatePod`, `CreateDeployment`, `DeleteService`, `CreateService`, `AwaitReady` |
| delete, scale, restart, roll back | `Delete`, `DeleteObject`; `Scale`, `Restart`, `Rollback`, `ReadDeployment`, `ReplaceDeployment` |
| `ops_service_sync` and `SyncCache` | `Sync`, `CheckCache`, `CheckStatus`, `Archive`, `Send`, `InsertCache`, and their failures |
| Kubernetes, the worker, the branch (external) | `BecomeReady`, `EndDying`, `RestartWorker`, `MoveTip` |
| `TaskRegistry::create`, `Task::log`, `Task::finish`, `run_cli_stream` | `StartTask`, `PushLine`, `SendLine`, `SetState`, `SendState`, `AbandonTask` |
| `ops_task_stream` | `OpenStream`, `ShowLogs`, `SayStatus`, `Subscribe`, `Receive`, `CloseStream` |

Kubernetes is objects with versions (a replace of an old version is refused),
life and readiness. Left out: the reuse of a pod's address, a call or POST
still in flight after its handler was dropped, a synchronization into a
deployment that has a bare pod of the same name (any other one into a
deployment fails, its port being 0), more than one task.

## 3. Runs

Every passing run explores its instance completely. Deadlock is not checked:
each system may stop when it has no work and no row, request or fault left in
its bounds.

| Run | Instance | Shows |
|---|---|---|
| `ci_safety` | 2 runs, 3 jobs, up to 2 steps, batches of one, one `build` job, at most two faults in all of a crash, a lost write, a failing call and a panic, a cluster that breaks pods | `VerdictOfSuccess`, `OldestFirst`, `SkippedHasNoJobs`, `NoPodLeak`, `NoReexecution`, `VerdictFinal`, refinement of `CiRuns` |
| `ci_liveness` | 2 runs, 2 jobs, batches of two, one crash, one failing call | `QueueDrains`, `JobsSettle` |
| `ci_late_job` | 1 run of up to 2 steps, no fault | counterexample to `EveryJobExecuted` |
| `ci_job_timeout` | 1 run, 1 job, no fault | counterexample to `TimeoutEnforced` |
| `mr_safety` | 2 repositories, 2 clients, 2 rows, one failure of each sort | `NumbersDense`, `AnchorKept` |
| `mr_liveness` | 1 repository, 2 clients, 2 rows, one failure of each sort | `StaleAnchorsPruned` |
| `mr_read_fails` | 1 repository, 1 client, 1 row, one failing read | counterexample to `OpenAnchorsSurvive` |
| `rv_safety` | 2 bookmarks, 2 clients, 3 requests, 3 edits, any number of failures | `NoLostEdit`, `InSync`, `ImportsSerialized` |
| `rv_import_overlap` | the same | counterexample to `OneImportAtATime` |
| `rv_last_bookmark` | the same | counterexample to `LastBookmarkStays` |
| `registry` | 2 clients, 2 versions, 3 references (2 of them digests), 2 files, 2 contents, one upload session, layers of 2 chunks; for each protocol two requests on every initial content (of one stored version for npm, pypi, maven and conan, two for the others); one failing call with cargo, npm, conan, generic, hex and images, one hang-up or restart with composer, one collection with hex and images; four upload requests, or three with a fault (a failing call, a body that breaks off, a file that cannot be read) and a crash | `NoDanglingRow`, `ExactWhenAlone`, `AnswersExact`, `TagsResolve`, `UploadIntact`, `SessionWhole`, `ChunkInPlace`, `GcSafe`, `PullKeepsPush` |
| `server` | 2 clients, 2 organizations, 2 repositories with one staging directory, 3 identities, 2 changes (the root and one that may have a conflict); three requests on repositories with one error or with two projections of more than a first commit, two with an error and a crash, or three on a service with an error, or with an outside event and a crash, or a task of three lines, a log of 2 and a channel of 2, with three streams, an error and a crash | `Agree`, `CloneAllOrNothing`, `ContentKept`, `MetadataKept`, `EnsuredServes`, `NoLostUpdate`, `CacheTrue`, `DerivedBuilt`, `LinesInOrder`, `EndTold` |

Why the bounds suffice: the interesting CI cases are two runs in the queue (a
batch, and one that arrives late), two jobs of one run in different stages, and
a third that is inserted late or built; each fault is handled where it occurs,
and pairs of faults cover a failure followed by the restart that should repair
it. Two merge requests created by two clients are the least that can share a
number, and the reconciler works through one repository at a time. A view needs
two bookmarks (a move, a deletion, a rebase), two overlapping requests, and a
third begun after one of them, to bring out an import, an export and a write
that interleave; three edits leave one to be lost beside the initial one.

Two requests of any two routes on any initial content show what a handler can
do to what another has read; the history that a third would add is mostly in
the initial contents. Failures, hang-ups and collections are bounded to
protocols that between them run the flows a failure splits (a row and a blob,
two rows, a row and the document): the steps are `Registry`'s for all. A blob shared by two
versions, an upstream that answers with other bytes than were pushed, and a
collector that starts anywhere in a request all fit in two versions and two
contents. A session is worked on by two clients: a chunk that arrives while
another is written, a PUT against a PATCH, a DELETE against either, and with
four requests one that comes before or after them; two chunks have an order, a
repetition and a hole. In `server` the parts meet only in a crash (they share
clients and the process), so a behaviour keeps one of them busy; three requests
are a rename that meets a creation at its target and a deletion of what it
moved, a clone into a name whose first clone left a directory, or two
repositories that share changes and the deletion of one of them. After a crash
one more request meets what an interrupted one left; in the behaviours of three
a request that fails at a step leaves what a crash there would, except where
the code cleans up (a failed `git clone`, a directory that cannot be moved). The instance clones no empty remote
(a history without bookmarks, which the theorems include). The run has 0.7
million states, as has `registry`. A log of two lines is trimmed by a third, and
a channel of two lags by a third event.

### Fairness

* `CiScheduler!ProcessFairness`: the loop and its tasks are polled by tokio, so
  weak fairness of `Tick`, of each task and of each log writer. Handlers have
  none: a client may go away. `ClusterFairness` is added for `ci_liveness`
  only: pods start and commands end. A writer of a container that never starts
  retries for ever, so this run takes a cluster that does not break pods.
  `ci_job_timeout` assumes nothing of pods, which is what a timeout is for.
* `MergeRequests!FairSpec`: weak fairness of the reconciler, which is called in
  every round of the loop. This assumes each tick of the loop ends (which
  `ci_job_timeout` shows to depend on the pods).
* `RepoView` states no liveness: nothing retries an import that never began.
  Nor do `RegistryServer` and `ServerProcess`: their requests may be dropped at
  any await, and nothing takes up what they left.

### Findings

1. `ci_late_job`: a tick that takes a run and lists its jobs before a job is
   inserted reports success without it, and the job is never executed. TLC's
   trace is the shortest case: a run with one step, whose jobs are listed while
   there is none. (With two steps the tick may as well come between the two.)
2. `ci_job_timeout`: after its deadline a job task still waits for the log,
   which ends with the pod, which the task would delete only afterwards.
3. `mr_read_fails`: a failed read in the reconciler deletes an open request's
   anchor.
4. `rv_import_overlap`: a disconnect releases the import lock of an import that
   is still running.
5. `rv_last_bookmark`: the guard of the last bookmark looks at a snapshot and
   does not count conflicted bookmarks.

PROJECT.json quotes the comment each contradicts.

The passing runs state their properties up to named situations, and these
situations are themselves worth knowing. Each is in the history variables or
the premises of a property.

*Package storage.*
* A download serves what the upstream gives when the blob of a stored file is
  gone (`AnswersExact` is about blobs that are there).
* `NoDanglingRow` excepts `blamed`: removing or replacing a version deletes its
  blobs by digest, though another version, package or protocol has the same
  bytes; nothing counts the users. The read-modify-write of maven, generic and
  conan can write back a row whose blobs a concurrent removal has deleted, or
  lose a concurrent upload.
* `ExactWhenAlone` says *what is promised*, which is not always what one
  expects: a pypi sdist replaces the row of the wheel of that version; setting an
  npm dist-tag first pins `latest`; the npm clean-up of versions also removes the
  document with all dist-tags; deleting one conan package deletes the recipe
  version; a put that fails is answered with success.
* A collection passes over rows with an empty version and the blobs of requests
  under way; `GcSafe` leaves those out.
* Listings of cargo and npm show the document as a version; the tags of an image
  include its digests; a cached version hides the upstream's list.
* Uploads: a body that breaks off leaves bytes in the file which nothing counts, and
  the retry is appended behind them, so that the layer can no longer be
  committed (`spilt`); after a restart the cursor is at 0 while the size is that
  of the file, and the next chunk overwrites the beginning (`torn`); a PATCH that is late saves
  the record of a session that has ended (`hurt`); two chunks with one offset are
  both accepted (`met`).

*Lifecycle, services, tasks.*
* The rows of changes are keyed by change id among all repositories: a deletion
  takes rows that other repositories share (`MetadataKept` says only of the
  repository they are filed under that its deletion removes them), or fails by
  foreign key after the directory is gone (mark `"held"`).
* `rename_org` renames rows and leaves the directories (mark `"org"`); two
  overlapping creations are both acknowledged; a failed clone leaves an empty
  final directory that refuses the next one; a roll-back that fails leaves row
  and directory apart (mark `"overlap"` or the failed operation).
* The synchronization cache outlives a worker's restart (`drift`); the list of
  derived images is written before the build, and a failed or dropped build
  leaves it there (`poisoned`); two restarts within a second are one.
* A stream that subscribes after the last event waits for ever (`late`), and one
  that lags ends without a word (`lost`). A body that
  panics, or waits past its timeout for pipes that a grandchild holds, leaves a
  task that says it runs (`AbandonTask`).

## 4. Proofs

Each proof module extends its component, states the inductive invariant's
preservation action by action, and ends in theorems about `Spec` for all
constants that meet the named assumptions of the module: natural numbers for
bounds, distinct model values, and for the registry a finite set of versions
(`VersionsAssumption`: a handler takes the least or the greatest of a list) and
null values that are no row, no note and no request (`NullAssumption`). An image
repository starts without rows there (`ScenarioAssumption`: a version that was pushed
before is no image); every other package starts with any versions.

* **CiScheduler** (`Invariance`): `IInv` adds to the properties where handlers
  stand (`EnqInv`: rows appear in order, a run with steps left is not skipped),
  what the loop holds (`TickInv`: batch and current run are undecided and in
  order), and what each task implies of its job, pod and writer. The
  properties alone are not inductive: `VerdictFinal`, for instance, needs that a
  run being executed was not decided, and `SkippedHasNoJobs` that a handler which
  still inserts is not one that marks. Theorems: `TypeCorrect`, `SuccessIsTrue`,
  `Fifo`, `SkippedIsEmpty`, `PodsAreDeleted`, `AtMostOnce`, `VerdictIsFinal`, and
  `Refinement` (every step is a step of `CiRuns` or a stutter).
* **MergeRequests** (`Invariance`): `ReqInv` (a number about to be inserted
  extends its repository's), `HistoryInv`, `AnchorInv` (what the reconciler
  holds is about rows that exist, and what it will delete has left open).
  Theorems: `TypeCorrect`, `NumbersAreDense`, `AnchorsAreKept`.
* **RepoView** (`Invariance`): `StageInv` (only a push waits or imports) and
  `LockInv` (who imports holds the lock, without faults). Theorems:
  `TypeCorrect`, on lemmas about what rewriting, amending and merging return,
  and `ImportsAreSerialized`.

  `EditInvariance` adds two invariants. `EditInv` follows one edit on one bookmark
  that nobody dropped: what the view has seen of git it shows and git still has
  (`Covered`); what a request remembers of either door is still there
  (`Remembered`); a transaction commits what it found, imported or adds, and an
  export says of git only what the view it opened had (`Carried`). The property
  alone is not inductive: it speaks of the view and the ref, and the next merge
  takes its sides from snapshots that are several steps old. That a merge keeps
  an edit (`MergeHolds`) needs a longest side among those that have it, which no
  other can push out as its ancestor; sides are sequences of any length, so
  `BoundInv` says that their lengths are bounded and `Topmost` finds the longest.
  `SoloInv` says, of requests that never overlap and never fail, how far the one
  in progress has brought either door (`InStep`), and that they agree when there
  is none. Theorems: `NoEditIsLost`, `DoorsInSync`.

* **OciUploads** (`UploadsInvariance`, about the `Spec` of `RegistryServer`):
  `UploadInv` says of each session what its parts are to one another at every
  step of the task that has the lock (`FileInv`: between write and count the file
  is longer by the chunk, and by what was spilt before), that a task has the lock exactly in its locked steps
  (`LockInv`), that whoever took the session out of the map still owes it the
  unlink and the end of its record (`EndInv`), and that a task which met no other
  finds the size it compared (`PlaceInv`). None of the properties is inductive by
  itself: a crash reads the record, which must be 0 when the file is empty.
  Most of the work is one lemma per action, on two facts: a step of a task
  changes one session (`OneSession`), and what is said of another stays
  (`Elsewhere`). Theorems: `UploadTypes`, `UploadsAreIntact`,
  `SessionsAreWhole`, `ChunksAreInPlace`.
* **Registry** (`StoreInvariance`, about the `Spec` of `RegistryServer`, so for every
  route of the fourteen protocols, the images, the uploads, the collector, faults,
  hang-ups and restarts at once). `StoreInv` is a conjunction:
  * `RequestInv`: of each running request, how its parameters and locals fit
    together (`Formed`), and, if it met nobody, where it stands (`Progress`).
    Its rows are as it found them or as promised, according to what it has still
    to write (`Exact`, over `Pending`); the row it is about to put is the promised
    one (`Built`); it turned to the upstream because the store lacks the file
    (`Missing`); what it has collected is what it found (`Answers`).
  * `CleanInv`: of two requests that can disturb each other neither counts as
    alone. Without it a write by one would break `Exact` of the other.
  * `GcInv`: in the mark phase the live set has what every row names that was
    passed and not written since; in the sweep no such row names a digest that is
    still to be deleted. `DocInv` (the document has no files) is what makes it
    right that the collector lists only rows with a version.
  * `ImageRows`, `TagsInv`: a row of an image holds one manifest, under a digest that
    manifest; and a put that is under way has put the row of the digest or still
    will.
  * `DangInv`: the digest that a row misses belongs to a request that is past the
    deletion and before the write (`RowsHeld`), and a row that is about to be
    written has its blobs (`Held`).

  None of the properties is inductive: `ExactWhenAlone` speaks of the end of a
  request, `GcSafe` of the end of a collection. The proof has one lemma per action on
  what it does (`SaveDoes`, ...), one on why the invariant stays (`SaveKeeps`, ...), and
  one per route on why the request that it starts satisfies `RequestInv`
  (`OverwriteAsked`, ... and `CargoAsks`, ...). What a flow promises is computed flow by
  flow (`PromisedMerge`, ...). Theorems: `StoreTypes`, `RowsDoNotDangle`,
  `RequestsAreExact`, `ReadsAreExact`, `TagsLead`, and of steps
  `CollectionIsSafe` and `PushesAreKept`.
* **RepoLifecycle** (`LifeInvariance`): identities are fresh (`Fresh`), a
  repository is at one path (`OneHome`), what a deletion has begun is never whole
  again (`RemovedTorn`), and the foreign keys hold (`RowInv`): bookmarks, changes
  and conflicts are filed under rows, a conflict is of a change with a row, and a
  row belongs to an organization. `RepositoriesKept` needs the first three: a rename or a promotion
  could otherwise cover another whole repository. `MetadataIsKept` needs the
  last: an update could otherwise meet bookmarks without a row. It has two
  halves, one about bookmarks and one about the rows of changes; the second
  rests on `Refiled` (a cascade moves a change to another row and never drops
  it).

  `CareInvariance` is about names. `Apart`: requests whose names meet have marked
  them; `Right`: of every other request, the directory, the row and what is
  filed under it (no bookmarks but its own; for a deletion, nothing at all) are
  as its next step expects (`OnTrack`), and even after failures
  what a clone, a fetch or a rename works at is whole or absent (`InOrder`);
  `Good`: a name that nobody works at is settled. `Agree` speaks of names at rest,
  so it is not inductive: the last step of a flow settles a name only if all the
  steps before it, and the roll-back of a rename, left what `OnTrack` says. The
  proof has one lemma per step of each flow. Theorems: `RepositoriesAgree`,
  `ClonesAllOrNothing`. It assumes that the value of a client without a call is
  no call (`IdleAssumption`).
* **Services** (`ServicesInvariance`): `EditInv` (a version stands for one content
  of the deployment, so a replace that is accepted was based on the current one),
  `CacheInv`, `AloneInv`, `AskInv`. Theorems: `EnsuredIsThere`, `EditsAreKept`,
  `CacheIsTrue`, `DerivedIsBuilt`.
* **Tasks** (`TasksInvariance`): one line at most is pushed and not yet broadcast
  (`HandInv`), and what a stream has been told ends with the last event
  broadcast (`StreamsOK`). Theorems: `LinesAreInOrder`, `EndIsTold`, for any depth
  of log and channel.
* **ServerProcess**: the three invariants are kept by the composed steps and the
  common crash, so the theorems hold of the process (`ServerTypes`,
  `ServerServes`, `ServerKeeps`, and `ServerAgrees` for `Agree` and
  `CloneAllOrNothing`).

Every safety invariant and every action property that a passing run checks is
stated by a theorem. Only model-checked: the liveness properties (fairness and
ENABLED are beyond the prover). TLC checked the parts of `EditInv`, `SoloInv`
and `CareInv` on the instances of the runs before they were proved.

## 5. Plan

What is left, in this order:

1. `HeadTracking`: the rows of `project_repo`; composes the branch tips of
   `RepoView` with the open requests of `MergeRequests`. It matches requests by the
   name of their branch (`list_open_mrs_for_reassoc` reads those of all
   repositories), and a request closed and reopened has no anchor until its next
   head.
2. Abstract specifications: a repository as one atomic map of branches, which
   requests that do not overlap implement; a package as a map of versions.
3. `LogStream`: the log of a running job, whose reader looks at the status once;
   scheduled dispatch with its minutes.

## 6. Not modelled

* Reading (`read.rs`), releases, ingestion, metadata rows written by one
  statement: functions of data or single writes with no interleaving of their
  own.
* Authentication and validation: they end a request before it has an effect.
* Cron matching, workflow parsing and triggers, log contents, file contents.
* Tags, and what a fetch brings; merge request reviews and comments.
* Of the registry: wire formats, the parsing of archives, tokens, the cache of
  upstream index pages (it is lost or refreshed without a trace in the stores),
  the gateway builder (used by tests only).
* Of operations: helm, the listings, the contents of commands.
* The frontend, generated protocol types, deployment charts.

## 7. Running

    tlc -workers 2 -config CiSafety.cfg MCCiScheduler.tla
    tlapm CiScheduler_proofs.tla

The other runs are named in PROJECT.json with their module and configuration.
