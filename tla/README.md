# A verification development of store-everything

store-everything is a self-hosted file store: a FastAPI server over PostgreSQL and a
filesystem it does not own alone, background workers that take their work from a table, and
extractor processes that take theirs over HTTP. What makes it hard is stated in
`specs/12-reliability.md`: nothing lives in memory, everything may be killed at any
instant, everything may happen twice. This directory models the parts that carry those
promises as TLA+ modules, checks them with TLC on small instances, and proves the central
ones with TLAPS for instances of every size.

Paths below are relative to `server/src/store_everything/` unless they say otherwise.

## 1. Inventory

| Component | State it keeps | Operations | What is hard about it | What makes it correct | Modules |
|---|---|---|---|---|---|
| Operation queue (`operations.py`, table `operation`) | one row per unit of work: state, attempt, lease, next_due_at, cancel_requested, idempotency key | enqueue, claim, heartbeat, succeed, fail, release, request_cancel, mark_cancelled, ensure_scheduled, expedite | every statement is its own race; convergence on a key is three statements | attempts fence, terminal rows are final, a key has one queued row | Operations, OperationLifecycle, Convergence, OperationsProofs |
| Worker runner (`runner.py`, `handlers.py`) | claim loops, a lease-keeper per execution, the handler's open transaction | run_once, _execute, _keep_lease, _on_stopped, _release | two transactions and a keeper beside each other; cancellation by three causes; kill -9 | effects committed exactly once with the success; everything queued settles; schedules re-arm | Runner, RunnerProofs |
| Extraction jobs (`extraction.py`, `api/extractor_api/jobs.py`) | `extraction_run` mirrored onto the operation with its id | claim, heartbeat, result, error, supersede, reconcile | unlocked reads before writes, at-least-once delivery, two records of one fact | one envelope per job, late results refused, the run follows its job | ExtractionJobs, OperationsProofs |
| Routing, envelopes (`extraction.py`, `results.py`) | runs, assets, metadata, tag claims of a version | route, reuse, request, complete, apply | decided from a survey that others change; two routings of one version; partial application | no work is forgotten, none is queued twice | Routing, RoutingProofs |
| Extractor registry (`extractors.py`, `api/extractor_api/registration.py`) | manifests, the switch, exclusive output claims | provision, register, enable | check-then-write over several claims | one producer per kind of output | Routing, RoutingProofs |
| Extractor client (`extractors/src/se_extractor/loop.py`, `client.py`) | the job in hand | claim, heartbeat, report | silence, retries, late answers | covered by the properties of the jobs | ExtractionJobs |
| Uploads (`uploads.py`, `api/v1/uploads.py`, `resumable.py`) | `upload_session` rows, staging files, the destination | create, append, finalize, cancel, expire | database and filesystem cannot commit together; concurrent appends, finalizes and cancellations; power cuts | published files are whole, acknowledged bytes are durable, nothing is overwritten unkept | Uploads, UploadsProofs |
| Folders, files, trash (`folders.py`, `files.py`, `trash.py`) | the tree and its closure, files with their versions | create, ensure, move, register, add a version, trash, reactivate | what is read first is old when it is written; directory and row move apart | closure = tree, one workspace per subtree | Closure, Tree, TreeProofs |
| Folder aggregates (`aggregates.py`) | stored totals, queued deltas | record, drain, shift, inherit, verify | deltas are expanded over a tree that moves meanwhile | stored + queued = truth; drift is repaired | Tree, TreeProofs |
| Reconciliation (`reconcile.py`) | files, versions, folder identities | register, change, move, disappear, identity of directories | who is the same file after it moved; a pass that runs beside requests | nothing present is trashed; a folder keeps its id | Scan, ScanProofs, Tree, TreeProofs |
| Scanning (`scanning.py`, `scans.py`) | scan run, frontier, blocked directories | start, walk a directory, sweep, finish, refuse, supersede | resumes after a crash; a worker without a lease keeps committing; mounts vanish | trashed means absent; an undisturbed scan is exact | Scan, ScanProofs |
| Watcher (`watcher.py`) | pending paths of a burst | observe, coalesce, expedite | events are lost, coalesced or come while a scan runs | every event is answered by a scan that covers it | Scan, ScanProofs |
| Tags, tagging (`tags.py`, `tagging.py`) | names, a DAG with closure; words of people, claims of machines | create, rename, alias, reparent, merge, delete, review, apply, confirm, remove | no operation takes a lock; machines and people write the same tag | closure exact and acyclic; a person has the last word | Tags, TagsProofs |
| Workspaces (`workspaces.py`, `workspacefs.py`) | name, root, state; the marker on the storage | create, adopt, provision | two trees that overlap; provisioning is retried | roots stand apart; active means marked | Workspaces, WorkspacesProofs |
| Identity (`identity.py`, `api/v1/auth.py`, `api/v1/users.py`, `bootstrap.py`) | accounts, sessions, tokens | log in and out, change account or password, revoke, bootstrap | check-then-act on the last admin; a log-in that overlaps a password change | somebody administers; a changed password leaves no session | Accounts, WorkspacesProofs |
| Filestore, blobs (`filestore.py`, `blobs.py`, `derived.py`) | files | staged writes, fsync, rename, content-addressed put | durability ordering; freshening a blob beside its collection | bytes outlive the rows that reference them | Uploads, Tree, Workspaces in part; VersionBlobs planned |
| Janitor (`janitor.py`) | none of its own | expire sessions, sweep staging, collect blobs, arm schedules | decides on one snapshot, deletes files, then commits | live data is never debris | Uploads in part; VersionBlobs planned |
| Rate limiting (`ratelimit.py`) | counters per address | check, count | none that a request's outcome depends on | - | not modelled |
| Events (`events.py`) | append-only rows | record | none: rides each transaction | - | not modelled |
| Previews, verification, media types | none | read | none: read-mostly | - | not modelled |
| Requests and transactions (`db.py`, `middleware.py`, ...) | one connection per request | commit or roll back | the grain of every action | - | in every module |
| Migrations, web UI, generated client, bundled extractors | - | - | DDL; client code; pure functions over third-party parsers | - | not modelled |

How they interact. The API writes domain rows and enqueues operations *in the same
transaction*. Workers claim operations and run a handler (scan, rollup, janitor, provisioning,
heartbeat) in a transaction that also records success; a scan and a rollup commit batches
of their own before. Extraction jobs are operations that are claimed over HTTP instead; each has an
`extraction_run` with the same id, and the result of one routes the next. Uploads
and scans register files, which routes extraction jobs and records aggregate deltas; a move
of a folder carries its closure, its totals and its queued deltas along. The watcher
asks for scans by moving the due time of an operation. The
janitor expires upload sessions and removes files nobody claims. PostgreSQL runs at READ
COMMITTED, so a transaction is atomic when it commits and *each statement* sees the
commits of others; modules split a transaction wherever another's commit can matter
between two of its statements.

`PROJECT.json` lists every hazard at its line with the properties that would notice it, or
why none does yet.

## 2. Modules

**Operations** declares the table of the queue, and gives a row its shape and each SQL
statement its meaning, as an operator from a table to a table: `Claimable` is the WHERE of `_claimable`, `Taken` is
`claim` with the dead letter of the attempt that is one too many, `AfterFinish`,
`AfterRetry`, `AfterDeadLetter`, `AfterFail`, `AfterRelease`, `AfterHeartbeat` and
`AfterRequestCancel` are the guarded UPDATEs, `UniqueViolation` the partial unique index.
Database time appears as the two comparisons a statement makes: `due` and `lease_live`,
which actions of the using modules flip. Priorities and back-off lengths are left out
(claims take *any* claimable row, which includes the one the ORDER BY would choose).

**Runner** is `runner.py`. A slot is one claim loop, its `pc` is where it is in
`run_once`/`_execute`; `Claim` is the first transaction; `Rearm`, `HandlerReturns`,
`HandlerRaises`, `HandlerCancelled` are the handler in its own; `Beat` and `WindowElapsed`
the lease-keeper; `RecordSuccess`, `RecordFailure`, `RecordCancelled`, `HandBack` the ways
an execution is recorded; `RecordingLost` the database not answering; `Crash` kill -9 of a
whole process. `armed` is the successor row an open handler transaction has inserted, which
others can only notice by waiting for its key (`KeyIsLocked`). `effects` is history.

**OperationLifecycle** is what the queue promises with all of that hidden, and `Runner`
refines it: a row that is queued or running is "pending", and every claim, lease, retry,
hand-back and crash is a stuttering step.

**ExtractionJobs** is the same queue over HTTP. `FencedRead` is the unlocked
`_fenced_claim`, `SubmitResult` and `ReportError` the later statements of the same request,
so two requests overtake each other; `calls` is a set from which any call can arrive again
or late; `ReconcileRead`/`ReconcileWrite` split `reconcile_runs` where READ COMMITTED does.

**Convergence** is one call of `enqueue` with a key, statement by statement, against
workers: the check for a running row, the conflicting insert, the look-up, three turns. Its
specification is `EnqueueSpec`, so that its theorems and those of ExtractionJobs share a module.

**Uploads** is the upload protocol for one destination, over a database that commits and
rolls back and a filesystem that does neither. A request is a process whose `pc` follows
`append_to_upload` and `_finalize`; `Locked` is the row lock, `TargetFree` the advisory
lock; `Receive` appends a chunk, `Store` is fsync and the believed size, `Assemble` the
rename, `Publish` the commit; `Die` is any early end, `PowerCut` everything at once with
unsynced bytes lost; `ExpireDue`, `Sweep`, `CommitSweep`, `SweepLost` are the janitor's
transaction around its deletions.

**Closure** is the closure table of a tree: the statements that insert, detach and attach a
subtree as operators on a set of links `<<ancestor, descendant, depth>>`, and `ClosureOf`, what
such a table has to be.

**Tree** (EXTENDS Closure) keeps three records of one tree apart: the directories on the
storage, the rows with their closure, the totals with their queue. A request reads in one
step (`CreateBegin`, `MoveBegin`, `FileMoveBegin`, `VersionBegin`, `TrashBegin`), touches the
storage in a second and commits in a third, and `Lost` is any end in between. `DrainBatch`,
`ChooseFolders`, `Correct` are the commits of `roll_up` and its verification under the
workspace's lock. `ExternalMove` and `ExternalDelete` are people at the storage,
`TraversalEnds` what a walk found missing, `TransferIdentity` the pass of `reconcile.py`
that gives a moved directory its folder back: `Claim` is its majority test, `Absorbed` what it
does to the closure, `LeftQueued` and `Repointed` the queued deltas. What the code does not ask
and a constraint of the tables refuses - a move below the folder itself once two moves have crossed,
a delta of a folder whose row is gone, an identity given to a folder that lies in the
directory it came from - is a guard, as the transaction rolls back. A workspace is its root; a file's size
stands for its count and its bytes.

**Scan** is one walk as `scanning.py` commits it: `Start` (with the refusals of
`StartRefused` and the runs it supersedes), then per directory `Inspect` outside the transaction
and `Apply`, `Block` or `Skip` in it, then `Sweep` and `CommitSweep`, then `Finish`;
`Claim`, `Stop`, `Overtaken` give the worker a lease it can lose. `Reconciled` is what one
listing makes of the rows. `Expedite` and `Note` are the watcher. Outside,
files, directories and mounts come and go and an upload is under way. Time is
the number of runs begun, as a stamp is only compared with the beginning of a run.

**Tags** is the vocabulary and what carries it. Every handler is a read and a write step, `Rollback`
the refusal by a key or a check. `closure` is written by the rebuild of the transaction that
changes edges, over the edges it reads. `said` is history: what a person last said of a
tag on a file; `raced` the words that were written over a row changed since it was read.

**Routing** is the registry and routing together, because a registration changes what a survey
reads. A transaction begins with its survey (`Survey`: candidates, existing runs, assets)
and ends with its writes, applied in order to a record `db` that is the transaction's own view
(`RoutedOriginal`, `RoutedAssets`, `Reused`, `Created`), committed as one. `Taken` is the
unique constraint of `extraction_run` with NULLS NOT DISTINCT. `lapsed` (extractors that were not
routable for a while) is history.

**Accounts** is people: accounts, sessions, tokens, the first administrator. A handler that
authenticates and then acts is two steps: what it read, and its commit, between which
others commit. A change of an account is three: in between, `WriteUser` is its UPDATE, which locks the row
(`RowLocked`), and the UPDATE that revokes the sessions, which sees those committed by then (`snapshot`);
`CommitUpdate` makes both visible. `Upgrade` is a release with other hashing parameters, after which a log-in rehashes.
`late`, `raced` and `undone` are history.

**Workspaces** (EXTENDS Accounts, as a workspace is created by, and belongs to, an account) adds
workspaces, their directories, a share that leaves and returns, and the provisioning operation
with its lease and attempts. Whether a root is there and what is then made in it are separate steps, in the
request (`CreateWorkspace`, `Preflight`), in the probe of a worker (`SeeRoot`, `ProbeRoot`) and in the planting of the
marker (`FindRoot`, `Plant`). Each of them makes every directory that is missing (`MakeMissing`), so a share that
leaves in between has the root made anew where it was: `beneath` are the directories that exist
while the share is gone, `adrift` (history) those of them made by somebody who had just found the root on the share.

A definition marked *Fault* is a plausible mistake, kept beside the definition it would
replace to show that a property notices it. No specification uses one.

## 3. Runs

| Run | Instance | What it shows |
|---|---|---|
| `runner_work` | one process, two loops, two rows of a self-arming schedule, two attempts, fairness | effects agree with recorded states; fencing tokens are unique; zombies touch nothing; everything queued settles |
| `runner_schedule` | two processes, three rows, one attempt | types; a schedule never ends silently; refinement of OperationLifecycle |
| `extraction` | two replicas, two requests at once, one job, two attempts, fairness | one envelope per job, none late; every job and its run come to an end |
| `convergence` | one converging and two re-arming calls, three rows, the code's three turns | the answer was pending work; no error without churn in every turn; running work is not duplicated |
| `uploads` | two sessions of two chunks for one path, two requests at once | published files are whole; acknowledged bytes durable; `completed` is true; overwritten content is kept |
| `tree` | two workspaces, two folders, one file, two requests at once, two changes | the closure is the tree; a subtree is in one workspace; stored and queued amounts are the truth |
| `tree_identity` | one workspace of three folders, two files of one size, two changes, fairness | whatever was left wrong in a total is put right once things are calm |
| `scan` | a root and a mount point in it, one file, two workers, two scans at a time, two changes outside | only what was absent is trashed; a scan nobody disturbed ends exact; every event is answered |
| `scan_mount` | a directory below a mount below the root, one worker, one change | *violation*: a mount that leaves after its point was listed has what lies below it taken for deleted |
| `tags` | three tags, three names, one file with two versions, one folder, two requests at once, three in all | the closure is what the edges reach, without a cycle; a person has the last word |
| `routing` | two extractors with two manifests each, two versions of one content, two requests at once, four runs, two changes | no work is forgotten; a kind has one producer; a run per version, extractor, input and variant |
| `workspaces` | two accounts, two nested directories on a share, two requests at once, three in all, two sessions, two attempts, one workspace in workers' hands at a time | somebody administers; a changed password leaves no session but those that raced with the change; roots stand apart and active ones are marked |

The violation is a disagreement between the code and a quoted sentence of its own
documentation; `PROJECT.json` quotes it under "findings". Others of which no run is kept are told in
section 5.

**Why the bounds are enough.** A race over a row needs two holders: two slots, replicas or
requests. Fencing needs an attempt to be overtaken and attempts to run out: two attempts
give a first, an overtaking and an exhausted one; with one attempt the schedule run can
afford the third row, needed for a run, its successor and its successor's successor. An
upload of two chunks has a first, a middle and a last offset, so resumption, truncation and
completion differ; two sessions are an overwriting and an overwritten one. In Convergence a call
inserts at most one row, so three calls never run out of three rows, and a row that is retried
can be taken from under a call in every turn. A tree needs a folder in a folder, or a move
carries no descendants, and a second root, or nothing can cross; a drain of one delta of two
(`BATCH`) splits what was queued together. In Scan a root that holds a mount point tells what
vanished from what is away, two workers make one of them a zombie, and two operations are a scan
and the one that supersedes or follows it; three directories in a row are needed to see a mount
in the middle (`scan_mount`). Three tags make the shortest
chain that a third edge can close to a cycle beside the merge of two. Routing needs one
extractor whose output another takes and a predicate that a result makes true; two versions of
one content make reuse possible, and `MaxRuns = 4` lets both extractors run on both. Two
administrators are enough to demote each other, and of two nested directories either can be first.
Executions of one workspace (a worker and the zombies before it) share its row; those of two workspaces share
only the directories, which are never removed, so with `MaxInHand = 1` what one of them leaves in `beneath` is
still met by the other, later; requests of the other workspace interleave freely.

The bounds in the guards are the number of rows (`Operation`, `Op`; an id is never reused),
`MaxAttempts`, `Turns`, `Length`, `BATCH` and `BATCHES_PER_RUN`, which are the code's own, and
`MaxChanges`, `MaxRequests`, `MaxSessions`, `MaxClaims` and `MaxRuns`, which bound what the world
asks for, never what the program does in answer; `MaxInHand` bounds how many workspaces workers execute at a time. Where rows run out a chain may stop, and `HasRearmed` and
`ChainUnbroken` say so rather than hide it. Symmetry is used for interchangeable requests, workers,
versions, passwords and accounts, in runs without liveness properties.

**Fairness.** `Runner!Fairness`: claim loops keep polling (`_claim_loop` runs until
stopped and survives its own failures), a handler ends in one of three ways, what has ended
is recorded or lost, database time passes. It does not assume that beats arrive, that a
crash ever stops happening, or that recording succeeds: a run that is lost every time is
settled by its attempts running out. A lease is assumed to lapse only when no live
execution still holds the row (`AbandonedLeaseLapse`): a keeper that beats may keep it for
ever, a handler that never ends is not claimed to settle. `ExtractionJobs!Fairness` is the
same for replicas and requests; it does not assume that a call is ever sent or delivered.

`Tree!Fairness` is what verification needs: statements of a request finish or are lost
(`Handling`, `Lost`), and the janitor arms a rollup per workspace every hour
(`janitor.py`), so a drain or a choice of folders, and the correction after it, happen again and again;
strong fairness because a folder move that holds the workspace's lock, or another workspace's
rollup, disables them in between. That the outside keeps still is the bound on changes.

**Deadlock** is checked in the runs of Runner, ExtractionJobs, Convergence and Uploads; in `convergence` the
stuttering disjunct `AllSettled` names where the instance may stop. The other systems rest when
everything asked of them is done: with the budget of changes or requests used up there
is nothing to answer, and their configurations say `CHECK_DEADLOCK FALSE`. That nobody waits on
everybody there is part of the fairness of `tree_identity` and visible in the models: no action
waits for a second lock while it holds one, except a folder move between workspaces, which takes its
two in one order (`aggregates.lock`).

## 4. Proofs

Each theorem is `Spec => []Inv` or `Spec => Property` of a component's specification, for every
value of its constants. Of the properties the runs check, these are proved:

| Module | Theorems | Properties of the runs they state |
|---|---|---|
| `RunnerProofs` | `TypeCorrect`, `Fencing`, `ExactlyOnce`, `ZombieFencing`, `ScheduleSurvives`, `Refinement` | `TypeOK`, `FencingTokenUnique`, `EffectsMatchState`, `ZombieIsFenced`, `ChainUnbroken`, `RefinesLifecycle` |
| `OperationsProofs` | `EnqueueTypeCorrect`, `AnswersArePending`, `NoErrorWithoutChurn`, `NoDuplicateRun` | of Convergence: `EnqueueTypeOK`, `AnswerWasPending`, `RaisesOnlyUnderChurn`, `RunningWorkIsNotDuplicated` |
| | `JobTypeCorrect`, `PersistsOnce`, `LateResultsRefused` | of ExtractionJobs: `TypeOK`, `ResultPersistsOnce`, `LateResultRefused` |
| `UploadsProofs` | `TypeCorrect`, `PublishedWhole`, `DurableOffsets`, `RegisteredOutcome`, `NothingOverwritten` | `TypeOK`, `PublishedIsWhole`, `AcknowledgedIsDurable`, `CompletedIsRegistered`, `OverwrittenIsKept` |
| `WorkspacesProofs` | `TypeCorrect`, `Soundness`, `SomebodyAlwaysAdministers`, `PasswordsEndSessions` | `TypeOK`, `WorkspacesAreSound`, `SomebodyAdministers`, `SessionsFollowThePassword` |
| `RoutingProofs` | `OneProducerAlways`, `NothingIsEverForgotten`, `TypeCorrect` | `OneProducer`, `NothingIsForgotten`, `TypeOK` |
| `ScanProofs` | `ScanTypeCorrect`, `OnlyTheAbsentIsTrashed`, `CalmScansAreExact`, `EventsAreAnswered` | `TypeOK`, `TrashedWasAbsent`, `CalmScanIsExact`, `EventIsAnswered` |
| `TagsProofs` | `PersonDecides`, `TypeCorrect`, `ClosureIsTheGraph` | `UserDecides`, `TypeOK`, `ClosureIsReachability` |
| `TreeProofs` | `TypeCorrect`, `ClosureAlwaysTree`, `AlwaysOneWorkspace`, `TotalsAlwaysAddUp` | `TypeOK`, `ClosureIsTree`, `OneWorkspace`, `TotalsAddUp` |

Beyond the runs, `RunnerProofs` proves `CancelledIsAsked` and `DeadLetterIsExhausted` (only asked-for
cancellations and exhausted attempts are recorded as such) and `Finality` (a terminal row keeps its
state). What the first two modules rest on is a lemma per statement of the queue, saying
which row it may write, under which guard, to which states, and that attempts only grow
(`FinishedRow`, `TakenRow`, `RequeuedRow`, `InsertedRow`; each has its own copy, with the attempts it needs).
An `Invariance` theorem for each component states the inductive invariant; each was run through
TLC before it was proved.

### Runner

`EffectsMatchState` is not inductive. A success is committed under the guard `Holds`
(running, and the attempt is mine), so it suffices that whoever passes the guard is
the only one who can: tokens must be unique (`FencingTokenUnique`). A claim issues attempt
`n + 1` to a row at `n`, so uniqueness needs that no token of the row is larger than its
attempt (`TokenIsIssued`); and a claim that returns to `working` must not exceed the budget
(`WithinBudget`), or tokens would leave their type. A row whose attempt equals a held token
has not been claimed since, so `CurrentIsRunning` ties the holder to it. `StoppedBecauseAsked` carries the
cancel request from the beat that saw it to the transition that records it, since
between them the row can change hands; with it, `CancelledOnlyIfAsked` is preserved.
`IInv` is the conjunction; each action's step proves the conjuncts it can disturb.

`ChainUnbroken` needs a second invariant on top of it, `ChainIInv`. A run that succeeds leaves its
schedule to the row it armed, but it may have armed by converging on a row that is queued, and that one
may itself be taken, re-arm by converging and succeed. `ChainStands` says that this never closes a circle:
as long as a run of the key is over, or is current and counts on a row that is not its own (`Converged`),
another row is alive that does not count on others. `InsertedAlone` is the lock an uncommitted insertion holds
in the partial unique index, without which two slots could believe to have inserted one row;
`ArmedInChain` and `ReturnedHasRearmed` tie what a slot has armed to the row it runs.

For the refinement, each action is mapped to the abstract step it takes, with `IInv`
excluding the cases (a success of a row that is over, a cancellation nobody asked
for) the abstract specification has no step for.

### Convergence and extraction jobs

`RaisesOnlyUnderChurn`: a call that is looking up was refused by the unique index, so a queued row
was there; queued rows leave only by being taken. `TurnsAreChurn` therefore counts: the takings of
queued rows seen by a call are at least its turns, and at the look-up either a queued row still is there or there has been one
more. `SeesPending` and `OvertakenIsRunning` say of what a call has seen that it was pending, and of what
it must not duplicate that it is running since before.

`ResultPersistsOnce`: the envelope is committed by the statement that takes the row from running to
succeeded, so a second one needs a row that is pending again after it. `KeptIsOver` says there is none:
a job with an envelope is succeeded, or a dead letter, as `_dead_letter` does not test the state. `MirrorIsTrue`
carries the claim over to the statements of `reconcile_runs` that hold an old snapshot.

### Uploads

Who may touch a staging file is the argument. `LocksExclude` (the row lock) makes whoever appends to a session
the only one, so what it knows of the file stays true (`RequestOK`: how much there is, how much is synced);
`SweepHoldsItsRows` says the same of the janitor's transaction. `TargetExcludes` (the advisory lock) keeps what a
finalization found at the destination there until it renames, which gives `OverwrittenIsKept`. Staging
is always a prefix of what the client sends, which appends and power cuts preserve;
so what has the full length is whole. `OffsetIsSynced` is the durable part of an
acknowledgement, and `UnusedIsEmpty` lets a new id start from nothing.

### Accounts and workspaces

Requests decide on what they read a step before they commit. `ReadStillHolds` says what of it is
still true: a password that was verified is the account's, unless the history marks the log-in as late or the
account as undone; an update that demotes somebody has another administrator to rely on,
unless it is marked stale; accounts never go. Then each commit preserves `SomebodyAdministers` and
`SessionsFollowThePassword` as one case of it. `AttemptsRemain` bounds what a claim of the provisioning counts.

`RootsStandApart` is not inductive either: an insert rests on a check made a step earlier. So the
invariant says that the request which passed the check is alone (`LockIsExclusive`, from the admission lock)
and that what it checked is still so (`CheckStillHolds`: its name is free, its root overlaps no row).
`ActiveIsMarked` needs that whoever may activate a workspace has marked its root (`PlantedIsMarked`),
zombies included, as marks only accumulate; `RowsOK` ties an execution to a row that exists and
`RequestsOK` tells an admission from every other request. That accounts cannot disturb any of it is a
lemma of its own (`AccountsAdmitNothing`). `RootsAreKnown` is what the tests and the directories made after them
rest on: what exists while the share is gone is a mount point or is written down in `adrift`, and whoever
has found an adopted root found it on the share or already there without it, so that what is made next
off the share was found on it. An active root that is neither has its marker on the share.

### Routing and tags

`OneProducer` speaks of manifests, but what keeps them apart are the claims, which a
registration reads in one step and writes in another. The invariant says that an extractor which does not
race with itself holds a claim on every kind it declares (`DeclaredIsClaimed`) and on every kind that a
registration of it means to keep (`KeptIsClaimed`); a racing one can still take nothing from
others, because the claims that a registration has deleted are locked and are its own until it ends
(`DeletedAreLocked`), and the primary key refuses what is not free. That routing leaves
all of this alone is one lemma (`RoutingRegistersNothing`).

What routing promises is a second invariant, `WorkIInv`. A record is `Sound` as a database is: one row for
a key, pending rows that ask for what their key says, assets and facts only of runs that succeeded; a routing
transaction only lets a record grow (`Grows`). What it commits is a fold over the candidates in any order, which
`FoldExists` and `FoldInduction` unfold by induction on the number of candidates left; no order leaves one
out (`OrderVisitsAll`), so each candidate has what it wants when the transaction commits (`RoutedStep`).
The rest is what a survey may rely on when it writes a step later: nobody works on a version that does not
exist yet (`UploadsOK`), a result has its run to itself and what its survey saw is still there
(`ResultsOK`), and an extractor that never lapsed was routable when the version was made (`RegistryOK`).
`NothingIsForgotten` follows from the conjunct `AllRemembered`, which these preserve.

`UserDecides` speaks of what a file shows; the invariant speaks of the stored word (`WordIsSaid`): unless raced, it
expresses what was last said, whatever machines claim. A merge moves the words of a tag that is deleted by
the same commit, and where both tags carry one, the stronger stands, in the word and in what is held to have been said alike;
that words only refer to tags that exist (`WordsHaveTags`) is the foreign key. `RequestsOK` says what the writing half
of a transaction may rely on in what it has read.

The rest of the vocabulary is a second invariant, `KeysIInv`. `NamesOK` has every name resolve to a tag that is
there and be its own name at most once: what a rename has read may be old when it writes, and it is the unique index that
keeps this. `GraphOK` says that the stored closure is what a rebuild would give now and that no tag reaches itself.
`ClosureIsReachability` follows from lemmas about the recursive query itself, proved by induction on its steps:
it stays between the ends of its edges (`ReachWithin`), is monotone, ends each path with an edge (`ReachLast`), composes
(`ReachTransitive`), and a number of steps equal to the number of tags is enough (`ReachIsClosed`: what is reached from
a tag grows with each step until it stops, and cannot outgrow the tags). The library's induction theorems take a
predicate as a parameter, which the provers cannot instantiate; `SetInduction` says the same of a set of
numbers and follows from the library's theorem about minimal elements.

### Scan

The state has two invariants that say what a state looks like (`Shape`, `Sane`: no stamp is of the future, one
run runs, whoever executes a scan has its run, a sweep holds the rows it is about to trash, the storage is a tree)
and one for each promise. Paths are a recursive function, unfolded by `PathInduction`: what holds
of the root and of whatever lies in a directory of which it holds, holds of all, because `Order` has a path come
after the paths it begins with. From it come the facts about a tree that every proof needs: a path is a chain (`PathIsChain`),
it goes through a child (`PathStep`), any part of it has a deepest directory (`Deepest`), which makes
`Nearest` and `CommonAncestor` what they say.

`TrashedWasAbsent` speaks of the instant at which a sweep commits, but what is trashed is decided by the whole
walk. The invariant (`Walk`) is about the rows that the sweep *would* trash and that have not been out of their place while the
run lasted (`Owed`): for a run that nothing excuses, each of them lies below the frontier or below
a blocked directory (`OwedIsCovered`), what was listed and not yet applied shows it, or the
way to it (`ListingsShow`), and for a mount that is away the filesystem on record tells (`MountsRecorded`);
so when the frontier is empty, what is owed is blocked (`SweepsLast`), and a sweep takes only
what was out of its place (`TrashFounded`). `LackingKept` is the history itself. Calm is lost, never won, so a
step has to be considered only in a run that was calm before it (`CalmBefore`), for rows no step of another run has touched (`OwedRow`).

`CalmScanIsExact` is proved from `Exactly`, about a run around which nothing at all has happened: what was listed
is still to be seen, a file in its place has its row or will be visited (`FilesCovered`, `SweepsIndexed`), a row out
of its place has not been stamped (`MisplacedUnseen`), and what is blocked is hidden, or empty with an
index that is empty too or remembers the filesystem beneath the mount (`BlockedIsHidden`). Only the
workers of the run itself write then (`StrictStays`), one lemma for what each of their turns does.
The last exception is what the proof brought to light, beyond the bounds of the run `scan` at first: `Mistaken` in the
property, told under "Disagreements".

`EventIsAnswered` is inductive with the shape alone: the burst covers what it has collected (`CoveringCovers`,
for a move both directories), a scan that is inserted or hastened covers the burst, and it leaves the queue only by
beginning, by being refused or by its last attempt, which end what was heard below its path.

### Tree

The closure is treated as an order (`Ordered`): a folder covers itself, covering is transitive and
antisymmetric, and what lies above a folder is its parent and what lies above that. Stated so, it needs
no path and no induction over depth; `ClosureIsTree` follows from it. `Moved` rehangs such an order
(`MovedRehangs`, `RehungOrdered`), whichever subtree and destination outside it, and the insertion of a folder
extends it (`NewLinksOrdered`). The identity transfer moves the children of one folder under another by a fold, which
`AdoptedStep` follows child by child, removes the leaf that is left (`LeafGone`), and moves the folder (`TransferReplaces`).

The invariant has three layers, because they hold under different conditions.

- `Shape` holds whatever was stale: what the constraints of the tables enforce of rows, links, deltas and totals, and
  what each transaction in flight knows of them. `TypeOK` follows. Of a move whose links are old it
  says only that those it adds are among existing folders, and that none it removes is a folder's link to itself.
- `TreeOK` holds as long as no write of the closure was stale (`Kept`): the order, one workspace for
  whatever a folder covers (`Homes`), and `MovesKnow`. A move reads the closure, renames the directory and writes
  the closure afterwards; only the locks keep what it read true. A move that holds the locks of the workspaces
  its two folders *are in* knows the subtree, the links to cut and the links to add as they are now: every other move or
  transfer in those workspaces needs one of these locks (`StaysUpToDate`, `MovedWithin`), and a creation, which takes none, adds
  only links to the new folder, which is in the subtree of a move under way only if it was stale (`CommitKnows`).
- `TotalsAddUp` is inductive on top of them. The total of a folder and what is queued beneath it are sums, so
  the module begins with sums over finite sets (`SumsExist`, `SumOfPart`, `SumSplits`), from which a *load* is made: weights
  at places, added up over what a folder covers, for files and for deltas alike (`TruthIsHeld`, `AmountIsLoad`). A move
  shifts the load of its subtree from the old ancestors to the new (`MoveShifts`), for the files and for
  the deltas that are queued; the two deltas it records carry what is *stored*, which is the difference, and so the
  balance stays (`ShiftsBalance`). A drain takes from the queue what it adds to the totals, whichever batch it claims (`DrainLeaves`).
  An identity transfer moves a folder whose files have all been found elsewhere: nothing live lies beneath it, so
  only what is queued there has to be compensated (`TransferShifts`).

That a workspace that has been used satisfies all this (`Starts`) has to be proved too, as `Init` builds the closure by climbing
the parents (`Above`): the climb of a folder in the table reaches its root at one depth (`DepthOf`) and climbs
compose (`ClimbsCompose`), so the links it leaves are an order. No recursion over data is left to the provers: they are given
the climb step by step (`IsClimb`), for the depths up to the number of folders.

The attempt changed two statements, each of which held on the instance of the run `tree` and is false on a larger one.
`TotalsAddUp` used to except a stale move or file and not a stale creation; with five folders and four changes TLC
finds a creation that copies an old chain, after which the closure a second move shifts by is wrong.
`ClosureIsTree` used to except stale creations alone; with six folders, two of them roots, and four changes TLC finds two moves of
one folder, the first of which takes it into another workspace, so that the second holds the lock of a workspace
that the folder has left. It and `OneWorkspace` now except exactly these two (`"create"`, `"lock"`), and `TotalsAddUp` every stale write. It showed, too, that the constraints of
`folder_closure` are load-bearing: without the guards that stand for them, two moves that cross would make a folder its own
ancestor. And `ClosureOf` now says that a folder is not its own parent's ancestor, which implies what it said before.

### Assumptions

Those the modules declare: `MaxAttempts`, `Turns` and `Length` are positive numbers (the first by the
table's CHECK), the other bounds numbers; `NoHolder` is no holder, `NoOperation` no row id, `None` no row, no account,
no manifest, no version and no word, tags and names finite in number (for the recursive query ends), extractors and kinds too (for the folds end), a path comes after the paths it begins with (`Order`), the root is in no directory and `None` is no row of a scan, `Managed` no directory to adopt, the origins of content no sessions; each slot belongs to a
holder; converging calls are calls; changes of an account, manifests and envelopes have the shape the
API gives them, and `Within` is a relation on directories. In Tree a table holds finitely many rows, so that sums are of
finite sets; roots are folders and there is one; no id is shared between tables, and `None` is no row. TLC evaluates all of them.

### Not proved, only model-checked

- Liveness, which needs fairness and ENABLED: `EveryOperationSettles`, `EveryJobSettles`, `RunCatchesUp`,
  `DriftIsRepaired`.
- `MountIsNotDeletion` is false, as its run shows.

## 5. What is abstracted, and what that leaves out

- *Wall-clock time.* Only comparisons appear. The keeper's monotonic window is assumed to
  close no earlier than the lease it mirrors: it opens after the UPDATE that wrote the lease.
- *The grace window.* The janitor's sweep takes a staging file only when no request on it is
  in flight: a request silent for longer than `janitor_grace_hours` is not considered.
- *The destination of an upload* is one path. Its content is the app's, except that it may
  differ from the record from the start (`Init`: unregistered, edited, deleted); an edit
  from outside in the instant between the check and the rename is a race the code itself
  declares open (`api/v1/uploads.py:291-297`).
- *Power cuts* keep a prefix of a file that is at least what was synced; renames are
  durable when `commit_staged` returns, as it syncs the directory.
- *`AcknowledgedIsDurable`* excepts sessions past their deadline and sessions whose own
  bytes already are at the destination although the row was not committed. The first is
  the janitor's early unlink, told under "Disagreements" below; of the second, the next append
  reports the staging as lost.
- *Blob collection* is not in Uploads: kept content stays kept.
- *Expiry* beyond the janitor: an overdue session that no sweep has expired is still
  accepted, as in the code.
- *Handlers that commit in between.* Runner's `effects` are those of a handler that leaves the
  commit to the runner. A scan and a rollup also commit batches of their own
  (`scanning.py:528`, `aggregates.py:651`), which the attempt does not fence; these are
  Scan's `Apply` and Tree's `DrainBatch`.
- *ExtractionJobs and Routing* each leave out what the other has: attempts, leases and the drift of
  a run from its job there, which runs there are here.
- *Tree*: every candidate of a verification is checked, as the batches that `VERIFY_BATCH` takes by least recently
  checked reach each of them in turn; one rollup runs at a time; the merge of
  two folders of one name is left out; an identity transfer waits for a request that names
  either folder (`Busy`), as both write its row; a file's id is its name.
- *Scan*: the folders are fixed (Tree moves them) and a file's content is its name; a crash of a worker
  looks like being overtaken; an upload counts as two changes; counters and findings are left out.
- *Convergence*: a cancellation that takes a queued row (`operations.py:484`) is no action of its own; to a call that
  is looking for the row it is a worker's taking it and ending it at once, one more churn of the key.
- *Tags*: an answer for a version that is no longer current is in the model and the proofs; in the run `tags` the one
  extraction of the first version has answered before the second appears. One label per envelope; a PATCH of several things is a sequence of them; one generation;
  confidences and depths are left out; confirming or applying what already stands ends at its read.
- *Routing*: one generation, as nothing asks for a second; extractor and model version are one
  number; facts only become true; the oldest donor is the one with the lowest id; one asset per
  kind and run; a server whose `MaxRuns` are used up rolls back.
- *Accounts and Workspaces*: a refused request (limits, lock-out, scope, wrong password) is not a
  step; idle expiry and last use are left out; a handler of one statement (log out, revoke) is one
  step; a workspace is its owner and name; the root folder and the first scan are part of the
  commit that activates it.
- *Exceptions in properties.* Where the code itself loses a race, a property excepts exactly
  that and says so: `stale` (Tree), `shaken` (Scan), `raced`, `late`, `undone` (Tags, Routing, Accounts), `adrift` (Workspaces)
  mark what rested on a stale read - `late` is a session the last change of its password could not
  see, `adrift` a directory made where another had just been found - and section "Disagreements" tells what happens then.

### Disagreements seen while modelling that no run shows

Queue, jobs and uploads:

- `operations.py:220` orders the look-up of a converging call by `state DESC`, which prefers `running` to
  `queued`; the comment above (218) says "Queued before running".
- `operations.py:226` raises after three conflicts; `specs/12-reliability.md:53`: "the read-back finding
  nothing must never surface as an error".
- `operations.py:308` buries a success of the same attempt as a dead letter, as its WHERE does not test
  the state; `operations.py:12`: "Every transition is a compare-and-swap on (id, state, attempt)".
- `operations.py:471` leaves attempts counted that graceful stops handed back;
  `tests/test_operations.py:361`: "a graceful stop must not push work towards the dead-letter state".
- `operations.py:444` cannot requeue a recurring run whose successor is queued (unique index), and the
  failure is not recorded; `operations.py:413`: "Record a failure, and either schedule a retry or give up".
- `extraction.py:1008`: `abandon` writes the state `fail` returned even when `fail` matched no row,
  against the module docstring that the run mirrors the job; `runner.py:428`: a worker that lost its lease hands
  the claim back, where `specs/12-reliability.md:50` says it "writes nothing"; a permanent error ends a
  job as `failed`, where the comment at `api/extractor_api/jobs.py:187` speaks of the dead letter.
- `janitor.py:181` unlinks staging before the expiry it rests on is committed;
  `specs/12-reliability.md:83`: "Deleting: rows first, bytes second".
- `api/v1/uploads.py:828` answers 204 to a cancellation although the file was published in
  between; line 816 promises a 404, "No such upload, or it already completed".

Tree:

- Two moves of one folder at a time, of which one crosses workspaces, decide on the same old row
  (`folders.py:564`): the second holds the lock of a workspace that the folder has left. A creation beside the move of an ancestor
  inserts the closure of the old place (`folders.py:402`): `stale` in ClosureIsTree and OneWorkspace.
- A file whose move a scan recognises while the request that made it has not committed is subtracted
  twice (`files.py:713`); the CHECK of `folder_aggregate` then refuses the whole drain for ever,
  though `aggregates.py` says of the queue that it "needs no cursor, no ordering".
  A batch boundary between two deltas can do the same. `Refused` in DriftIsRepaired.
- Verification chooses its folders and computes the truth in two statements (`aggregates.py:555`, `650-665`).
- A majority in a destination that lies in its source fails the identity pass (`reconcile.py:527-580`).

Scan:

- A mount below the root that vanishes after its point was listed is not told from a deletion: the directory listed
  next is missing and not blocked (`scanning.py:330-333`), as `_mount_vanished` (`341`, `405-436`) looks at a mount point
  that is there, and the sweep trashes what lies below (`scan_mount`). So it is for a mount above the directory of a rescan; nor is a share that leaves and returns during a walk.
- A mount that is back can stay blocked, where `scanning.py:427` says of a block that it "lets it recover by itself the
  moment the mount is back". A scan that finds the bare directory while nothing is indexed there puts the filesystem
  beneath the mount on record; the mount returns, a file is uploaded and removed again from outside. The scan then finds
  another filesystem, an empty listing and a row (`scanning.py:430-436`), blocks, and the row stays until something
  is put into the directory: `Mistaken` in CalmScanIsExact. TLC finds this with `MaxChanges = 5` and the property
  without that exception; the proof had asked for it.
- A worker that lost its lease goes on stamping `last_seen_at` with the start of its own, older run
  (`files.py:443-471`), so that the sweep of the newer run trashes files it has listed; the comment at
  `files.py:206-209` rests on stamps that only grow.
- The comment at `files.py:370-372` takes `func.now()` for the moment of the statement; in PostgreSQL
  it is the start of the transaction.
- A watcher's event that converges on a run that is queued again after an interruption never looks at the
  directories this run has walked already.

Tags:

- A rename deletes by key what another request may have written since (`tags.py:576`, `624`), and a tag can be left
  without a name, for which `tags.py` has "pragma: no cover - a tag always has a canonical name".
- A merge drops the words added to the merged tag since it read them (`tags.py:818`, by CASCADE); a
  removal or confirmation of a row deleted meanwhile is acknowledged (`tagging.py:293`, `342`).

Routing and registry:

- A reused run lends its rows without routing on them (`extraction.py:225-268`, `543`), against
  "chaining needs no separate pass and cannot be forgotten".
- An asset asked for after its run ended without it, or after an upgrade of its extractor, is a
  violated constraint and not, as `extraction.py:513-540` says, "a no-op rather than a constraint
  violation".
- Two registrations of one extractor at a time leave claims that are not what its manifest declares
  (`extractors.py:636`: "Make this extractor's claims exactly `declared`"), and registering again is a no-op.
- `results.apply` does not ask whether the extractor claims the kind it produces; a claimed run is stamped
  with the registered version, not with the version of the container that took it.

People and workspaces:

- Two administrators who demote each other at a time both pass the test for the last one
  (`api/v1/users.py:147`: "Locking yourself out is a mistake no confirmation dialog can undo").
- A log-in that verified the old password before a change may open a session after it, and its rehash may
  put the old password back (`identity.py:283`; 248: "A new password invalidates every session: that is
  the point of changing it"). So may one that commits between the statement that revokes (`identity.py:249`, `439-447`) and
  the commit of the change (`db.py:102`): the statement does not see its session.
- The name of a revoked token stays taken, by the table and not by the check: 500 instead of 409
  (`api/v1/auth.py:357-390`).
- Two start-ups with different addresses can both create the first administrator, as INSERT ... WHERE NOT EXISTS
  takes no lock at READ COMMITTED, though `bootstrap.py` says it "makes two racing containers safe
  without a lock".
- An adopted root that is a mount point can be marked beneath the mount while its share is gone. One that lies below
  the mount point can too: the test (`workspacefs.py:89`, `fscheck.py:99`) and the mkdir that makes every missing parent
  (`workspacefs.py:95` with `filestore.py:131-143`, `fscheck.py:104`) are apart, so when the share leaves in between, the root is made
  anew beneath it, marked there and activated; `workspacefs.py:85-87`: "creating an empty directory in its place
  would look like an empty workspace instead of a missing one".
  A workspace whose provisioning is a dead letter keeps its name and its root.

## 6. Not modelled

Rate limiting (counters that only refuse), events (append-only, never read by a decision),
previews, integrity verification and media types (read-mostly), migrations (DDL), the web UI and the
generated client (outside the server's state), the bundled extractors (pure functions over
third-party parsers). In modelled components: the staging of asset bytes and input reads, tokens of
extractors, text segments and validation of envelopes, purging, downloads and the name policy, the
merge of namesakes in `reconcile.py`, subscriptions of the watcher, idle expiry of sessions. The
collection of blobs and the arming of schedules by the janitor are planned.

## 7. Plan

Done: Operations, Runner, Convergence, ExtractionJobs, Uploads, Closure, Tree, Scan, Tags, Routing, Accounts,
Workspaces; the proofs of section 4. Next:

1. **Proofs**: every invariant and every step property that a passing run checks is proved. What is left is liveness, which is out of
   the prover's reach, and the facts it would rest on: that a drain shortens the queue, that a sweep is reached.
2. **VersionBlobs**: `blobs.py`, the version writers of `files.py` and the janitor's
   collection. Abstract promise: every restorable version has its bytes. The hazard is
   the unlink after the stat (`janitor.py:126`) beside a writer that freshens.
3. An abstract specification of a tree with totals, refined by Tree where nothing is stale.

To check everything by hand: `tlc -config <cfg> <module>` for each run, and `tlapm` for each of
`RunnerProofs.tla`, `OperationsProofs.tla`, `UploadsProofs.tla`, `WorkspacesProofs.tla`,
`RoutingProofs.tla`, `TagsProofs.tla`, `ScanProofs.tla` and `TreeProofs.tla` (the last takes about ten minutes).
