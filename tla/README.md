# TLA+ verification of nanoAuralRuntime

This directory holds TLA+ modules that model nanoAuralRuntime, the TLC
configurations that check them on small instances, and proofs that TLAPS checks
for every value of the constants. `PROJECT.json` maps every definition to the
lines it models, and lists the runs, the mutants (a plausible bug for each
property, which TLC must find), the hazards and the theorems. Paths of the
durable package are relative to `src/src/nano_aural_runtime/`.

Check a run with `tlc -config <file>.cfg <module>` (the module and the file of
each run are in `PROJECT.json`) and a proof with `tlapm <Module>.tla`.

## 1. The system

nanoAuralRuntime runs audio models behind one runtime interface, embedded in a
host or, in its `durable` package, as jobs that survive crashes. A client uploads
inputs and submits a job through the HTTP API; a worker process claims it under a
lease, copies its inputs, runs the model, publishes the output through a ledger
and an object store, and the client downloads the winning attempt's artifacts.
PostgreSQL rows are the only truth shared between processes; local file systems
hold bytes.

| Component | State | Operations | Talks to |
|---|---|---|---|
| Lease queue (`durable/queue.py`) | rows of `jobs`, `job_attempts`, `workers`, `job_events` | `claim_next`, `heartbeat`, `request_cancel`, `cancel_current`, `fail_retryable`, `reap_expired`, `assert_current` | schema triggers; called by workers, API, operator |
| Repository (`durable/postgres_repository.py`) | jobs, inputs, blobs, idempotency keys | `create_job`, `request_cancel`, registration | same tables as the queue |
| Publication ledger (`durable/publication.py`) | `artifact_publications`, `blobs`, `artifacts` | `reserve`, `record_object`, `record_validated`, `reject`, `finalize`, `abandon`, `record_cleanup`, queries of the sweeper and of the API | locks the same lease rows as the queue |
| Publication service (`durable/artifact_publication.py`) | a process walking through `publish` | write, record, validate, promote, record, verify, finalize, cleanup; sweep | ledger, attempt store, canonical store |
| Attempt store (`durable/artifact_storage.py`) | objects, inventory journal, two persistent cursors | `put_stream`, `open`, `delete`, `inventory_page_before` | file system |
| Runtime worker (`durable/runtime_worker.py`, `durable/materialization.py`) | one claimed lease, a workspace, a session, an invocation thread | `run_once`, fenced copy of the inputs, monitored invocation, failure paths | queue, runtime core |
| Publishing worker (`durable/publishing_worker.py`) | the lease, a monitor thread and its recorded outcome | `run_once`, monitor, `_finish_failure` | runtime worker, publication service, queue |
| Reference worker (`durable/reference_worker.py`) | process loop | registration, reaping, deliveries, exit on an exception | all of the above |
| Uploads (`durable/uploads.py`, `durable/postgres_uploads.py`) | sessions, staging and canonical objects, cleanup evidence | initiate, write, claim, verify, reject, expire, janitor | API, object stores |
| HTTP API and application (`durable/api.py`, `durable/application.py`) | none | submit, get, events, cancel, list, download, upload | repository, ledger, uploads |
| Remote client and nodes (`nano_aural_runtime_remote`, `integrations/comfyui_remote`) | job, event cursor, download target | submit, wait, cancel, list, download | HTTP API |
| Migrations (`durable/migrations.py`) | `schema_migrations` and its seal | apply, verify, adopt, grant, under an advisory lock | database |
| Recovery sets (`durable/release_recovery.py`) | state file, stage, target | backup, restore | database, canonical store |
| Runtime core and embedded host (`runtime.py`, `session.py`, `integrations/comfyui/embedded.py`) | session state, locks, leases, cancellation token | load, invoke, unload, teardown | adapters |
| ControlFoley caches (`nano_aural_runtime_controlfoley`) | L0/L1 entries, L2 files, fuse markers, generations | begin, stage, commit, roll back, invalidate | file system |

`PROJECT.json` lists every component with its status.

### What is hard

* **Leases against time.** A lease may expire, be cancelled or be reaped between
  any two steps of its owner, who learns of it late. What the owner does next
  must be refused by the epoch, the state and the expiry, in every operation.
* **Three tables per transition.** Claim, failure, reaping and finalization each
  move job, attempt and worker together; a missed one strands a row for good,
  because only the end of a lease makes a worker ready again.
* **Two stores and a ledger without a common transaction.** A crash may fall
  between the object, the promotion, the ledger row and the cleanup evidence,
  for artifacts as for uploads.
* **Sweepers against publishers.** A sweep works on records it read earlier,
  next to live publishers, slow writers and other sweeps.
* **Monitor threads** renew the lease while the main thread publishes, or cancel
  an invocation for the host; the failure path has to tell cancellation, lost
  lease and lost connection apart, and nobody may be left waiting.
* **Skipped locks.** `SKIP LOCKED` makes contention look like a lost lease.
* **Requests and answers that get lost** around a commit, and clients that go on
  from a cursor or a file name they had before.
* **Commands that are run again** after a crash, on what the crash left.
* **Inputs read at several moments** of one invocation, under keys that were
  computed at others.

### What makes it correct

* Queue: one executor per job and worker, no stranded row, bounded retries, a
  fencing epoch, cancellation that is never lost, an audit trail that tells the
  truth, a lost lease that stays lost, cancellation that terminates.
* Ledger: only a complete set of artifacts of one winning attempt is visible,
  nothing of a loser ever is, what was shown does not change, and work in
  progress is never condemned.
* Store and sweeper: needed objects stay, evidence of deletion is true, garbage
  goes away in the end.
* Worker: what is shown is what the winning attempt produced, a delivery that
  ends does not keep its lease, and every job ends.
* Uploads: what is verified is what was declared and is in the canonical store,
  every session ends, and its staging object is processed once it is not needed.
* Client: one job per idempotency key, its own; no event missed or repeated; the
  whole artifact or nothing; an acknowledged cancellation is kept.
* Migrations and recovery sets: the ledger is the history of the schema, success
  is only reported for a true copy, and a crashed command can be run again.
* Embedded runtime: nobody loses a session under a lease, no child outlives its
  invocation, one owner has a model, every call returns.
* Caches: nothing that was invalidated is served, and a payload is that of its key.

## 2. Modules

```
JobLifecycle      what a client is promised (abstract)
   ^  refined by
LeaseQueue  <---- Publication <---- OrphanSweep ----> SequenceFilter
                      ^------------ PublishingWorker

Migrations <---- RecoverySet
Uploads ----> SequenceFilter
InvocationCache ----> SequenceFilter
RemoteJobs     EmbeddedRuntime

Publication_proofs <---- LedgerClients_proofs (OrphanSweep, PublishingWorker)
SequenceFilter_proofs <---- LedgerClients_proofs, Uploads_proofs, InvocationCache_proofs
RecoverySet_proofs     EmbeddedRuntime_proofs     RemoteJobs_proofs
```

An arrow points to the module that is extended. `<Module>_proofs.tla` extends the
module it is about (`Publication_proofs` is about `LeaseQueue` too); the inductive invariant of a proof is the last section of
the module itself, so that TLC can check it. `MC<Module>.tla` gives the function-valued
constants and the symmetry sets of a run.

### LeaseQueue

State: `jobs`, `attempts`, `workers`, `events` are the four tables. A lease is
named by job and attempt number; worker and epoch are immutable columns of the
attempt. Columns that hold instants are kept as the time left until them (`ttl`,
`retry`), and `Tick` is PostgreSQL's clock, the only clock the code uses.

Each transaction of the code is one action, because it locks the worker, job
and attempt rows it reads before it writes: `CreateJob`, `RegisterWorker`,
`ClaimNext` (a set of rows held by other transactions is chosen, which is what
`SKIP LOCKED` leaves out), `Heartbeat`, `RequestCancel` (queue) and
`ApiRequestCancel` (repository), `CancelCurrent`, `FailRetryable` and
`ReapExpired`. `Outcome` is the decision table that `_finish_lease` and
`reap_expired` share: cancellation first, then the retry budget. Every lease
operation is enabled for **every lease ever granted**, so a caller may be a
process that lost its lease long ago.

### JobLifecycle

The promise without leases, clocks or tables: status, number of starts, the
worker that executes, whether a cancellation was requested. Terminal states are
final, starts are bounded, a worker executes one job, and a job that was asked
to cancel ends cancelled and nothing else. `LeaseQueue` instantiates it with the
mapping `Lifecycle`.

### Publication

One row per attempt and artifact kind, with state, version, digest, blob, stale
grace and cleanup evidence. Every transaction of the ledger is an action with
the row version its caller passes. `LockLease` is the lock-and-assert prologue
of the owner's operations; `abandon` is `BeginGrace` (its first call only starts
the grace period) and `Abandon`. The guards that 0004's triggers add are part of
the action they guard. `Finalize` is the transaction that makes the artifacts
visible and ends the lease at once; `VisibleWinner` is the API's join.

### OrphanSweep

The attempt store and any number of concurrent sweeps. A sweep is a process: its
ledger reads, its CAS updates, its object deletions and its evidence are separate
steps, with publishers, slow writers, other sweeps and a crash between them. The
three stages (cleanup candidates, orphan keys, inventory page), the budget
shared by them, the order of `updated_at` and the persistent cursor are those of
the code. Age cutoffs only delay a sweep: every row is taken to be old enough,
which is the harsher case for a live publisher.

### PublishingWorker

Worker processes from `reference_worker.main` down: restart, claim, the fenced
loading of deployment and input evidence and the materialization of the inputs,
the invocation with heartbeats, the exception paths of the runtime worker, then
the publication monitor and the stages of `publish`, with the checkpoint of each
streaming stage as two steps (assert the lease, then ask the monitor), lost
answers of committed transactions, I/O errors, skipped locks and crashes
everywhere. Reads that follow each other under one fence are one step, because a
lease that is stale stays stale (`StaleStaysStale`). The workspace is private to
the process and its bytes are not modelled; a result whose workspace cannot be
removed is lost (`RemovalFails`). The planner yields one candidate of
kind `Output`, as the reference worker does. `Results` says what an attempt may
produce; `made` is a history variable: what the runtime produced for a lease.

### Uploads

Upload sessions with their states, versions and expiry, the staging and the
canonical store, and the evidence of staging cleanup. A handler is one request of
the upload workflow or one call of the verifier, a process whose accesses are
separate steps: it writes the staging object *before* the version CAS, claims or
joins the verification, reads a snapshot, and then rejects or promotes, finalizes
and deletes. A cleaner is a run of the recovery command: it expires overdue rows,
lists a bounded page of ended sessions, deletes their staging objects and records
it. Every access may fail and everybody may die. `Past` are sessions that expired
before the run starts. The probe may reject a good file (it is a command with a
time limit), never accept one that is not `Playable`.

### RemoteJobs

A client (`RemoteClient` and its nodes) that submits with an idempotency key,
follows the events with a cursor, polls, cancels, lists and downloads, and the
handlers of the API on the rows. Handlers are atomic: the server is a
single-threaded WSGI server and each request is a transaction. The queue is
`Outcomes` in a transaction of two steps (`Begin`, `Commit`), because event ids
are taken from a sequence before they become visible; one event stands for all
that a transaction inserts. A transport failure loses a request, loses its answer
or leaves it under way to arrive late; a body may be damaged; a client may die
after it published its file. `PollBound` stands for the iteration and the time
limit of a wait. A client may use a token that grants another namespace than the
one it names, or none.

### Migrations and RecoverySet

`Migrations`: a database has the files it executed (a history of its schema), the
digests in its ledger and the seal. Operators with any release apply, adopt,
verify and grant in any order; each command is one transaction under the advisory
lock, so a crash is a command that did not happen. An owner may break the seal or
take a row out. A legacy ledger is one whose files were the trusted ones.

`RecoverySet`: backup and restore, step by step from one durable change to the
next, with the state file, the stage, the rename and the syncs. A stopped command
leaves its `pg_restore` running; power loss takes unsynced directory entries;
files decay between attempts; the service file may point to another database at
any time. The documented preconditions are kept: one command at a time, and
nobody else on the database of a restore. Limits, which only refuse, and file
modes are left out.

### EmbeddedRuntime

Host threads that generate and tear down, the owner with its condition variable,
leases and closing handover, `Runtime` and `ModelSession` with the execution lock,
the cancellation monitor and the upstream child process with its escalation from
TERM to KILL. `Loaded`, `Acquire`, `FinishInvocation` and `BeginUnloading` are
those of the runtime core.

### InvocationCache

The staged invocation of the ControlFoley adapter, step by step, and its two
caches: `mem` is the L0/L1 store with its LRU order, `files` the two files of
each L2 entry, `fuses` the markers that survive a restart, `off1` and `off2` what
this process has disabled. A generation is kept as a flag of the transactions
that began before it moved. An entry names the content it was computed from, so
that it can be compared with its key, and its `era`: the number of invalidations that
had returned when the L2 transaction that stored it began. One process owns a cache
root.

Every file operation may fail, where the code handles it: a put between its two files,
a deletion after any of its unlinks, a cleanup, the lookup of a marker (`Blind`), and
the writing of a marker. `FuseDeployment` falls back to the global marker, and
`FuseAll` swallows the failure of that one, so a fuse may be known to this process
only. The history variable `lost` follows such a fuse: `unmarked` while the process
lives, `forgotten` after its restart.

## 3. Runs

| Run | Instance | Checks |
|---|---|---|
| `lease_queue` | 2 jobs, 2 workers, 3 attempts, leases of 2 ticks, batches of 2 | the safety of the queue, `StaleStaysStale`, refinement of `JobLifecycle` |
| `publication` | 1 job that requires two kinds, 2 attempts | the ledger for arbitrary callers: complete, exclusive, permanent winners; nothing live condemned |
| `orphan_sweep` | 1 repeated sweep of limit 1, 1 crash, 2 attempts, 1 cancellation | objects and evidence; `OrphansAreSwept`, `CancelTerminates` |
| `orphan_starvation` | the same without crash and cancellation | `LaterOrphansReached` is **violated** (Findings) |
| `publishing_worker` | 2 processes, 1 job, 2 attempts with different results, 1 cancellation | own output wins, leases released on exit, `JobEnds` |
| `uploads` | 1 new and 1 expired session, 2 handlers, recovery runs of limit 1, 2 contents | verified is declared and stored, staging kept while needed, sessions end, cleanup is not starved and deletes what is staged |
| `remote_jobs` | 2 clients, 2 namespaces, 2 requests, 2 connections, 1 loss, 1 restart, 6 event ids | one job per key and only for a token that grants its namespace, no event missed, own artifact whole, cancellation kept |
| `remote_retry` | 1 client, 1 loss, 1 restart | `RetryIsAnswered` is **violated** (Findings) |
| `recovery_set` | 2 databases, 5 releases, 2 crashes or power failures, 1 damage, 1 switch | `LedgerIsHistory`, `SuccessIsReal`, `RetriesFinish` |
| `embedded_runtime` | 3 threads, 2 owners, 3 calls, 1 fault, 1 stuck child | leased is loaded, child of its invocation, one owner, `CallsReturn` |
| `invocation_cache` | 2 sessions, 2 contents, 2 invocations, 1 step with faults, 1 invalidation, 1 restart | nothing invalidated is served unless a fuse was lost, payload of its key |
| `invocation_drift` | the same without fault and restart | `DriftCommitsNothing` is **violated** (Findings) |

Bounds and why they are enough to see the interesting cases:

* Two jobs and two workers let a worker hold a stale lease of one job while it or
  another worker holds a current lease of the same or of the other job. A batch
  of two reaps jobs with different outcomes in one transaction.
* `MaxAttempts` 3 gives a first, a middle and a last attempt; 2 gives a loser and
  a winner, which is what the ledger and the worker need. The ledger and the
  sweeper use one job, because none of their operations reads rows of another
  job except the shared blob rows.
* `LeaseSeconds` 2 separates a fresh, an ageing and an expired lease; 1 is used
  where the age does not matter.
* `CancelBound` caps the API's repeated requests, each of which appends an event;
  2 distinguishes the first from a repeated one.
* `Results` gives each attempt a digest of its own in `publishing_worker`: equal
  results could not be confused.
* `SweepLimit` 1 is less than the two rows of `orphan_sweep`, so every query and
  every inventory page of a sweep leaves the other attempt to later runs, and one
  cleaned row uses the limit up. `CrashBound` caps the sweeps that die; workers may
  crash in every attempt. Concurrent sweeps are beyond TLC with two rows: that they
  delete nothing that is needed and record nothing false is proved for any number of
  them (`ObjectsPresent`, `EvidenceTrue`); their liveness is not checked.
* Uploads: two handlers are two verifiers of one session, or a late PUT next to a
  verifier; `CallBound` 2 lets each be used; `CleanLimit` 1 with the session of
  `Past` is the case in which a processed row could use the limit up.
* Remote jobs: `PageLimit` 1 makes every page a part of the log, `PollBound` 2 a
  wait that goes on and one that gives up, `EventBound` 6 two jobs with their life
  to the end, with an aborted id or a repeated submission in between.
* Recovery: two crashes are one in the command and one in its retry; five releases
  are the one in use, its predecessor, its successor, one with an altered file and
  an empty one, which is refused.
* Embedded: three threads are a lease holder, a closer and another closer or a
  call that comes in between.
* Caches: `MaxEntries` and `MaxRecords` 1 force eviction; one role, because roles
  only share the parent key; one fault is one step in which file operations fail (or
  payloads are refused): the operation itself, the marker of the deployment and the
  global one may fail in the same step. The consequences are followed through a restart.

Workers, digests, clients, namespaces, requests, connections and cache sessions are
symmetric where symmetry is declared; no run with a liveness property uses it.
Deadlock is not checked where the system may rest: when every job, session or
command has ended and its bounds are used up.

Type invariants are not checked by runs of their own: `LQTypeOK` is a theorem
(`TypeCorrect`), and `LedgerTypeOK`, `SweepTypeOK`, `WorkerTypeOK`, `UploadTypeOK`,
`EmbeddedTypeOK` and `RemoteTypeOK` are parts of the inductive invariants that are
proved (section 4).

### Fairness

* The clock runs (`WF` of the tick).
* The reaper runs: every worker loop calls `reap_expired` before each delivery
  (`reference_worker.py:328`), and the operator's recovery command does the same.
* A worker thread takes its steps or is restarted by its container. That an
  invocation and a transfer end is an assumption about the adapter and the
  store: the code sets no time limit of its own on either. **No heartbeat is ever
  assumed**, so every lease may be lost.
* Sweeps are repeated for ever, as the operations manual asks.
* Uploads: the recovery command is repeated and some of its runs get through each
  of its steps (strong fairness, because a step may fail and an overdue row may be
  locked again and again). Nothing is assumed of handlers.
* Recovery sets: a running command goes on, a `pg_restore` ends, and an operator
  runs a crashed command again.
* Embedded runtime: threads are scheduled, and a killed child exits or is given up
  after the bounded wait. Nothing is assumed of a model that runs or of the host;
  `CallsReturn` exempts a model that runs for ever and is never cancelled.

No fairness constrains crashes.

## 4. Proofs

Every theorem holds for all values of the constants that satisfy the named
assumptions of its module, which TLC evaluates in the runs: any finite set of jobs
and of threads, any workers, clients, sessions, handlers and sweeps, any retry
budget, lease time, page and batch limit, and any bound on crashes and losses. The
finiteness of `Threads` is needed because a lease count is compared with the number
of its holders, that of `Roles` because `PutAll` and `DeleteAll` go through the roles
of a request one by one. `ReleaseAssumption` says that a release does not ship the
same bytes under two numbers; a release that did would execute them twice, and the
ledger would truly say so. `CacheAssumption` numbers the contents of the input file
in the order in which they are written.

| Module | Inductive invariant | Theorems |
|---|---|---|
| `Publication_proofs` | `LQInv` (`Invariance`) | `TypeCorrect`: the types of the tables; `Exclusive`, `NothingStranded`, `BudgetKept`, `EpochsFence`, `CancelKept`: the invariants of the run; `AuditTrailKept`: the event log; `LostForEver`: a lost lease stays lost; `QueueImplementsLifecycle`: refinement of `JobLifecycle` |
| | `LedgerInv` (`LedgerInvariance`) | `WinnersComplete`, `LosersHidden`, `CondemnedStale`, `RowsHaveEvidence`; `ShownForEver`: what was shown stays; `QueueSafeUnderLedger`, `AuditUnderLedger`, `LostUnderLedger`, `LedgerImplementsLifecycle`: what the queue promised still holds when finalization ends leases |
| `LedgerClients_proofs` | `SweepInv` (`SweepInvariance`) | `ObjectsPresent`, `EvidenceTrue`; `SweepImplementsLedger`: `SweepSpec => LedgerSpec`; `ShownUnderSweeps`, `LifecycleUnderSweeps` |
| | `WorkInv` (`WorkInvariance`) | `WinnersOwnOutput`, `LeasesReleased`; `WorkImplementsLedger`: `WorkSpec => LedgerSpec`; `ShownUnderWork`, `WorkImplementsLifecycle` |
| `Uploads_proofs` | `UploadInv` (`UploadInvariance`) | `VerifiedSessionsHaveBytes`, `VerifiedSessionsAreDeclared`, `StagingIsKept`, `EndedForEver` |
| `RemoteJobs_proofs` | `RemoteInv` (`RemoteInvariance`), `EventInv` | `AcceptedJobsAreMine`, `DownloadsAreMine`, `CancellationsKept`; `EventsSeenOnce`: no event missed or repeated |
| `EmbeddedRuntime_proofs` | `EmbeddedInv` (`EmbeddedInvariance`) | `LeasesAreLoaded`, `ChildrenOfInvocations`, `OneOwnerOnly` |
| `RecoverySet_proofs` | `RecoveryInv` (`RecoveryInvariance`) | `LedgersAreHistory`: the migration ledger; `SuccessesAreReal`: what a backup or restore reports |
| `InvocationCache_proofs` | `CacheInv` (`CacheInvariance`) | `InvalidatedAreGone`, `CachedUnderTheirKeys` |
| `SequenceFilter_proofs` | | `KeepType`: what an ordered query returns |

### The queue

The invariants are not inductive as they stand. `ExclusiveLease` speaks of active
attempts, but whether a claim may add one depends on what a *ready* worker and a
*queued* job can still have; so `LQInv` relates the tables in both directions:
an active attempt is current and its worker busy (`ActiveIsCurrent`), a running
job has its last attempt active (`RunningHasLease`), a busy worker holds a job
(`BusyHolds`) and at most one (`OneJobEach`). `EpochCounts` (the epoch is the
number of grants) replaces `EpochFences`, which would not tell what the next
grant may use. `AbsentIsFresh` says that a row that does not exist has no
attempts, so that creating it starts at zero tries.

The step proof has one lemma per action. `EndLeases` carries the weight: failure,
cancellation and reaping are the same update of a set of jobs, so one lemma
about it serves three actions. `LostForEver` follows from `EpochCounts` and from
the fact that `ttl` of a lease only grows in `Heartbeat`, whose guard is the
lease being current. The refinement maps create, claim, cancel and the end of
leases to the steps of `JobLifecycle`, and shows that heartbeats, the clock and
the registration of a worker change nothing that is mapped. `AuditTrail` needs
`EventsOfGranted` beside it: no event speaks of an attempt that is still to come,
else a claim could find its start in the log already.

### The ledger, the sweeps and the worker

`LedgerInv` adds to `LQInv` that a row exists only under a granted attempt
(`RowHasLease`), that an artifact row names the blob of a publication of a required
kind (`ArtifactOfRow`) and that the winner has finalized rows and artifacts of every
kind (`WinnerRows`); `WinnerComplete` follows. `Finalize` is the one action that
moves both levels; the lemma about its effect on the queue's tables is used for the
invariant, for the log and for the two specifications above.

A sweep acts on what it read long ago. `HandIsSound` says what survives: an item
whose deletion is due is terminal for ever, and one that is to be judged has landed,
so that no writer brings it back. `StoreMatchesRows` connects objects, writes and
rows. For a worker the argument is the other way round: `KnowsLeaseEnd` says that
what it *believes* of the end of its lease is true, which `StaleStaysStale` keeps,
and `CarriesOutput` and `RowIsOwnOutput` follow an output from the invocation to the
artifact row.

Both specifications extend the variables of `Publication`, and each is proved to
imply `LedgerSpec`: every step is a step of the ledger or leaves its variables alone.
So the temporal theorems of the ledger hold of them without another proof
(`ShownUnderSweeps`, `ShownUnderWork`). In the queue alone no job succeeds; with
`FinalizeRefines`, which shows that `finalize` is the end of one job that nobody asked
to cancel, the ledger implements `JobLifecycle`, and with it the sweeps and the
workers: `WorkSpec => LedgerSpec => JobLifecycle`.

### Uploads, remote jobs, embedded runtime

`UploadInv`: `HandSound` is what a handler knows between two accesses. A verifier
that is to promote holds a snapshot that fits the declaration, whatever the staging
key holds by now; whoever is about to delete a staging object has an ended session.
`CleanSound` says the same of the page of a recovery run, whose members come from an
ordered query (`KeepType`).

`RemoteInv`: `TxSound` says that an open transaction is alone with its job and that
its outcome is still allowed by the row, which is what the row lock is for: a
cancellation that flags the job under an open transaction would make it end as a
success. `FlagsSound` says that a flagged job is running or cancelled. `ClientSound`
ties what a client remembers to the rows. One lemma (`HandleStep`) states what a
request may do to the tables, whoever sent it; it serves requests that are answered,
requests whose answer is lost and requests that arrive late.

`EventInv` stands on `RemoteInv`. Ids come from one sequence before they become
visible, so an event with a smaller id may become visible after one with a larger
id; what saves the cursor is that this never happens within one job. An open
transaction has taken an id that is newer than every event of its job, which it has
locked, and a cursor is the id of an event of the client's job. So whatever is added
to a job is newer than every cursor into it (`LogStep`, `ReadKept`). That a page
continues what was read (`PageContinues`) is a fact about `Ascending`, which puts
at place n the member of rank n: every rank is taken exactly once (`RankGrows`,
`RankReached`), and the ranks of what is newer than the cursor begin where those of
what was read end.

`EmbeddedInv`: the count `active` of an owner is the number of threads that hold a
lease (`LeaseHolders`), at most one thread closes an owner and at most one executes
in its session (`Exclude`), and `PlaceSound` says what a thread relies on at each
place of its call.

### Recovery sets and caches

`RecoveryInv` follows a command through its crashes. `HistorySound` is what every
command of `Migrations` keeps of a database: `LedgerIsHistory` alone says nothing of a
ledger without a seal, which `adopt` is going to seal, so a ledger that was never
sealed is known to speak of the first files of the release in use; one whose seal was
broken is never sealed again. The rest ties what a command leaves on disk to what it
has done: a manifest, staged or published, is that of a whole set whose dump holds the
sealed ledger of the release (`SetSound`, `DumpSound`), and `BackupSound` and
`RestoreSound` say what is true at each step of a command. The database that the state
file of a restore names is empty, holds exactly the dump or was spoilt by hand
(`Restoring`), also while the `pg_restore` of a stopped command is still writing,
because that child can only write the dump of the same set. Only `Unlink` adds to
`finished` (`OnlyUnlinkFinishes`), and at that step all holds that `SuccessIsReal`
asks for.

`CacheInv`: entries older than the last invalidation are in the L2 directory only under
a fuse (`L2Sound`). A fuse with a marker survives the restart, which forgets what the
process knew. One whose markers could not be written (`lost`) holds as long as the
process lives, because then the process itself is disabled; after the restart
`InvalidatedAreGone` claims nothing of that directory until the next fuse with a marker
or the next invalidation. `InvocationSound` says what an invocation in flight still knows: its keys
are contents that were written before now, its L1 hit is that of its key, and a
L2 transaction that no invalidation made old began after the last one. `ValueSound` is
the order of the moments: a preprocess value is that of the L1 key, or was computed
after both caches had hashed the input, so that a commit which still finds the hash
unchanged stores a value of exactly that content; the one other case is the entry that
`apart` marks.

### Induction

`Keep` is a recursive function. What it returns is proved by the least
counterexample (`LeastNatural`), because the induction theorems of the library take
an operator as a parameter, which the installed provers cannot instantiate.
`PutAll` and `DeleteAll` are folds over a finite set. The function on the subsets that
a fold computes exists (`FoldExists`), and its values stay in every set that each step
stays in (`FoldStays`); both are shown by the smallest subset for which they fail.

### Only model-checked

* Liveness under fairness, which is out of the prover's reach: `CancelTerminates`,
  `OrphansAreSwept`, `JobEnds`, `SessionsEnd`, `CleanupNotStarved`,
  `EndedStagingDeleted`, `RetriesFinish`, `CallsReturn`.

Every invariant and every action property that a passing run checks is also stated
by a theorem.

## 5. Findings and observations

**Sweeps starve behind rows they already cleaned** (`orphan_starvation`).
`orphan_keys_before` (`durable/publication.py:613`) selects every rejected or
abandoned row that has a key, oldest first, and does not leave out the rows that
carry cleanup evidence. Each of them uses up the budget of every later sweep. As
soon as there are `limit` such rows, which nothing removes, newer orphans are
never abandoned and the inventory stage is never reached, while
`docs/durable-operations.md:82` says that repeated bounded runs reach later
objects. `OrphansAreSwept` names this as its one exception, for rows that are still to
be abandoned; objects of rows that are finalized, rejected or abandoned are reached in
any case, because `cleanup_candidates` does leave cleaned rows out (`orphan_sweep`).

**A moved generation hides input drift** (`invocation_drift`). The L0/L1 and the
L2 cache hash the inputs at their own beginning. When the input is rewritten
between the two and the preprocess value comes from L1, L2 stores features of the
old content under the key of the new one. Only the L0/L1 commit could notice, and
it compares generations before it hashes (`cache.py:795`): after the unload of
another session, or an invalidation, it returns without looking and the L2 entry
stays, although `docs/controlfoley-4090-cache-runbook.md:29` says that drift
commits nothing. A crash between the L2 commit and the L0/L1 commit leaves the same
entry. `CachedIsOfItsKey` therefore speaks of the entries whose two keys agreed.

**A retried submission is refused when the deployment was retired**
(`remote_retry`). `create_job` asks for a READY deployment before it looks the
idempotency key up, so the repetition of a committed submission gets a 409, while
`docs/durable-operations.md:90` promises one job id, or a conflict for different
content.

Observations that differ from what a document or a comment says, and that no run
checks because a property exempts them:

* A fuse may be forgotten. `_fuse_deployment` and `_fuse_all` swallow the failure of
  `fuse_all` (`condition_cache.py:1203` and `1209`) and keep only a flag of the
  process. When an invalidation fails half way and neither marker can be written, the
  next process serves the entries it left, although `_PersistentFuseAuthority` calls
  itself the durable authority preventing stale-entry resurrection
  (`condition_cache.py:248`). `InvalidatedIsGone` exempts exactly this (`lost`).
* Power loss after the manifest of a stage is durable and before the stage is
  synced leaves a stage that every later backup refuses and none discards
  (`Disturbed` exempts it from `RetriesFinish`).
  `docs/release-migration-recovery.md:103` says that the next command discards and
  rebuilds an incomplete build, and that an interrupted sync is repeated.

Observations that no document contradicts:

* The two caches are fenced apart. An invocation that read L1 before an invalidation
  and begins its L2 transaction after it stores features of the invalidated L1 payload
  in L2, as an entry of the new generation. They are of the content of their key all
  the same (`CachedIsOfItsKey`), so this matters only to an operator who invalidates
  because the payloads themselves are wrong.
* A cancellation during `publish` usually ends the delivery through the lease
  assertion of the checkpoint, before the monitor's outcome is asked for: the
  process exits without `cancel_current` and the job stays running until the
  lease expires and is reaped. `CancelTerminates` still holds.
* `_finish_lease` and `load_ready_deployment` lock with `SKIP LOCKED`; a row that
  a heartbeat or the API holds at that moment is taken for a lost lease. The
  lease is then left to expire. `ReleasedOnExit` names this as its one exception.
* `abandon` under a current lease is refused by a trigger, and that database
  error ends the sweep.
* A PUT that comes after the staging object of an ended session was deleted
  creates it again, and nothing deletes that one. `CleanupNotStarved` is about the
  evidence rows only; `EndedStagingDeleted` says that what is staged before the deletion
  does go.
* A backup does not compare the canonical root with the rows of its dump: a blob
  that vanished from the root is not noticed.
* A child that outlives its KILL leaves the session READY; the next invocation
  starts another one beside it.
* `_enforce_limits` of the L2 store compares access times of the monotonic clock
  with creation times of the wall clock, so after a restart a new entry may be the
  first victim. The victims are a free choice in the model.
* An input that is rewritten and then restored to its old bytes within one
  invocation cannot be told from an unchanged one by any hash.

## 6. What is not modelled

Tensor computation, codecs, media probing, metrics, command-line parsing, benchmark
and audit tools and deployment wiring hold no shared state worth a model. The
Stable Audio 3 and Woosh adapters are computations behind the adapter interface of
`EmbeddedRuntime`. Requests are taken to be well formed:
validation refuses without a change of state. File-system checks (permissions,
symbolic links) are below the level of the models, and so is syncing except in
`RecoverySet`. Hashes are ideal: two digests are equal exactly when the bytes are.
PostgreSQL is taken to be serializable for the transactions above, which hold row
locks for what they read; `RemoteJobs` opens one of them up where that matters.

## 7. Plan

The safety of every module is proved; the liveness properties stay with TLC. What
could come next is modelling: the registration of deployments in the repository, the
fenced recheck of a worker's deployment when its configuration changes, and the
client's upload as a process of its own beside `Uploads`.
