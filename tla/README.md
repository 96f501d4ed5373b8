# Verification of My Patreon Manager

My Patreon Manager turns Git repositories into Patreon posts. A `process` run
generates a draft article per repository, a person reviews the drafts in the
preview UI, and a `publish` run pushes the approved ones to Patreon and watches
for edits made there. `scan` and `generate` discover the repositories, webhooks
announce pushes to the server, a migrator brings the schema up whenever a command
or the server starts. This directory
holds TLA+ models of these parts, the TLC configurations that check them and
the TLAPS proofs about them. `PROJECT.json` lists runs, mutants, findings,
hazards, theorems and, for every definition, the source lines it stands for.

## Inventory

| Component | State | Operations | Talks to |
|---|---|---|---|
| process lock (`process/runner.go`, `database/process_runs.go`) | rows of `process_runs` | ReclaimStale, Acquire, Heartbeat, Release | cron, other invocations |
| stores (`database/revisions.go`, `sqlite_stores.go`, `postgres.go`) | `content_revisions`, workflow columns of `repositories` | one SQL statement each | all of the below |
| process pipeline (`process/queue.go`, `pipeline.go`, `pruner.go`) | a run's queue and position | BuildQueue, ProcessRepo, Prune | stores, LLM |
| first-run import (`process/import.go`, `import_match.go`) | `content_revisions`, `unmatched_patreon_posts` | ImportFirstRun | stores, Patreon |
| publisher (`process/publish.go`, `providers/patreon/client.go`) | Patreon posts | PublishPending, drift check, push | stores, Patreon |
| preview server (`handlers/preview.go`) | a request in flight | approve, reject, edit, resolve-drift | stores |
| webhook intake (`handlers/webhook*.go`, `sync/dedup.go`, `cmd/server/main.go`) | seen ids, two bounded queues | deliver, track, enqueue, drain | orchestrator |
| sync orchestrator (`sync/orchestrator.go`, `lock.go`, `cmd/cli/scan.go`, `generate.go`) | lock file, row of `sync_locks` | ScanOnly, GenerateOnly | git services, generation |
| git providers (`providers/git/*`) | current token and breaker per service | list, metadata, fail over | GitHub, GitLab, GitFlic, GitVerse |
| generation (`content/generator.go`, `budget.go`, `providers/llm/*`) | token budget, permits, breakers, `generated_contents` | reserve, walk the chain, retry, refund, store | LLM services |
| illustrations (`illustration/generator.go`, `providers/image/*`) | `illustrations` rows and files | reuse, generate, clean up | image services |
| merge-history (`cmd/cli/merge_history.go`) | revisions and pointers of two repositories | check, re-parent, delete, unlink | stores, process runs |
| migrator (`database/migrator.go`, `bootstrap.go`, `cmd/cli/migrate.go`) | `schema_migrations`, the schema | bootstrap, up, down | every command's start |
| HTTP server (`cmd/server/main.go`, `middleware/*`, `concurrency/lifecycle.go`) | limiters, goroutines, phase | routes, authentication, sweep, shutdown | clients, operator |
| audit log (`services/audit/*`) | entries kept | write, list | admin and download routes |

What is hard. `process`, `publish` and the preview server are separate processes
on one database. Only `process` runs exclude each other, by a row whose
heartbeat may go stale. Every other sequence of statements can be interleaved or
cut off at any point, and Patreon is edited by people meanwhile. The migrator and
`merge-history` take no lock at all and may meet any of these. Inside one process
the server's requests, sweeper and drain, and the generator's calls, share
limiters, rings, a semaphore, a budget and breakers. `hazards` in
`PROJECT.json` lists the places.

At this commit no command inserts rows of `repositories`: `ScanOnly` returns what
it finds and `runProcess`, which imports before it scans, discards it. New rows
therefore appear in `RepoHistory`, and new commits and archived flags in
`ContentSystem`, as actions from without that may happen at any time (`AddRepo`,
`Rescan`).

## Modules

| Module | Models |
|---|---|
| `ProcessLock` | the lock: `runs` is `process_runs` (status and heartbeat age), `pc`, `held`, `cancelled` one invocation of `runProcess` each |
| `ExclusiveRun` | abstract: those at work take turns, one begins when nobody is left |
| `ContentStore` | the two tables (`revs`, `deleted`, `repos`, `fair`) and each SQL statement as an operator |
| `ProcessPipeline` | workers: queue, `ProcessRepo` statement by statement, pruner |
| `PatreonPublisher` | publishers and the Patreon site (`posts`) |
| `PreviewReview` | requests of the preview UI |
| `ContentSystem` | the composition of the four, and their properties |
| `WebhookIngest` | handlers, deduplicator, queue, drain goroutine, work channel |
| `HttpServer` | the server around them: boot, routes with limiter (`limiters`, `bucket`, `age`), admin key, signatures, two audit rings (`ring`), supervised goroutines, shutdown (`phase`) |
| `AuditLog` | abstract: the latest entries in order, and a listing of their end |
| `SchemaMigrator` | `rows` is `schema_migrations`, `schema` what is really there per version; each command is one of `Procs`, statement by statement; `gap` and `seeded` are histories of what a stop or the bootstrap left behind |
| `RepoHistory` | revisions, pointers, unmatched posts, illustration rows and files; import, process run with pruner, and merge as interleaved actors |
| `GitProviders` | pure: token manager and breaker as a record, listing and metadata of each service as functions of what upstream holds and how each request ends |
| `SyncOrchestrator` | extends it: commands with their lock file and lock row, discovery, filters, loop, release |
| `ContentGenerator` | calls of `GenerateForRepository`: budget, permits, breakers with generations, providers' answers, store, audit |
| `MC*` | the structured constants of an instance (files, upstream repositories, pages, chain) or its symmetry |
| `ProcessLockProofs`, `ContentProofs`, `WebhookProofs`, `ServerProofs`, `SyncProofs`, `GeneratorProofs`, `MigratorProofs`, `HistoryProofs` | theorems about the module of that name (`HttpServer` for `ServerProofs`, `RepoHistory` for `HistoryProofs`) |

The modules meet where one leaves the other open: `ContentSystem` composes the
stores, pipeline, publisher and preview; `SyncOrchestrator` extends
`GitProviders` and takes the result of `ContentGenerator` as ok or error;
`RepoHistory` sees review as "a draft is at some time rejected"; `HttpServer`
passes accepted webhooks on as counts, `WebhookIngest` says which.

Conventions. Each SQL statement and each HTTP call is one step; the revision
transaction of `ProcessRepo` is one step. What a process has read lives in its
record (`wk`, `pub`, `req`) until it is used, so stale reads are stale in the
model too. A body stands for its fingerprint; a commit sha for its position in
the history; deleted rows keep their contents for the properties. Reads of which
the result cannot change (the repository of a revision) are merged with the next
read; `BuildQueue`'s reads are one step; the order in which a publisher visits
repositories is left open. `UpdateStatus` inside the keep_theirs sweep is one
step (a lost compare-and-set there is `RequestFails`). SQLite keeps the revision
pointers as plain text, Postgres as foreign keys: in `ContentSystem` and its parts
`ForeignKeys` selects. `RepoHistory` is SQLite only: there the transaction of
`merge-history` begins with an UPDATE and so has the database to itself, and is
one step. What Postgres does otherwise is described below.

In the modules of commands (`SchemaMigrator`, `RepoHistory`, `SyncOrchestrator`)
a failed statement, an expired context and the death of the process look the same
to everybody else and are one action (`Stop`, `StopRun`, `StopMerge`), unless the
code does something on the way out: then the error path is an action of its own
(`MergeRollback`, `AcquireRefused`, `Revert`). A provider is modelled by the set of
answers its code can produce from what the service may send (`GatewayReplies`,
`VerifierReplies`, `DALLE`, `GitFlicRepository`), not by the text of requests.
An illustration stands for its fingerprint; a matching layer for the
repositories its test accepts; a `.repoignore` pattern for the repositories it
fits; a migration file for what its SQL does: can it run again (`again`), only
once (`once`) or is it empty, and is it one transaction (`atomic`).

## Runs

Passing runs; the properties are listed in `PROJECT.json` and stated, with the
code behaviour they are about, above their definitions.

| Run | Asks | Bounds, and why they suffice |
|---|---|---|
| `ProcessLockRuns` | do the runners the lock has not evicted take turns (`ExclusiveRun`), and is a dead runner's row reclaimed | 2 invocations repeated, 3 rows, threshold 2 ticks, lag up to 4: a stalled runner is evicted, comes back late, starts anew |
| `ContentReview` | review gate, one post, retention, database = Patreon; does an approved revision go live | 3 revisions of 3 commits, 2 posts, 2 bodies, up to 2 drafts pending, 2 concurrent reviewers, failing fetches: a live revision, its successor and one that is pruned; two decisions on one draft; an older draft approved after a newer one went live |
| `ContentOverlap` | version numbers, draft cap, retention and append-only history when an evicted run, its successor and a manual edit interleave | 2 workers, 3 revisions, a cap of 1, foreign keys, crashes and failures of the workers. A number that a stale edit uses again (below) takes a fourth revision and a second reviewer: beyond this bound, within theorem `NumbersNameOneRevision` |
| `ContentFaults` | is a pending draft ever buried when the publisher fails anywhere | 3 revisions, up to 2 drafts pending, 1 edit on the site and its resolution either way, all publisher faults. A sweep beside a fourth, pending revision is beyond this bound and within theorem `NoDraftIsBuried` |
| `WebhookIntake` | is an accepted event conserved, in order, and does it arrive | 3 events, 2 deliveries each, 2 concurrent requests, capacities 1 and 2 so that both queues overflow |
| `ServerRequests` | does the limiter admit at most one bucket per address, do the rings implement `AuditLog`, does the process exit after a signal | 2 requests in flight of 1 address (entries of two addresses share nothing), burst 2, eviction after 2 ticks, a request may stall 1 tick between lookup and use; rings of 2 entries wrap, listings of 1; queues of 1 |
| `SchemaMigration` | where do bookkeeping and schema disagree, do restarts complete the schema | 3 versions of the kinds that exist (repeatable, once only, transactional without a way back), a new or a pre-refactor database, 2 starters at once or rollbacks one at a time, 2 stops at any statement, 1 rollback, files edited between releases |
| `HistoryMerge` | are posts recorded once and in the end, do merges keep histories whole, has every illustration row its file | 2 repositories, either of which may come later, 2 posts on 2 pages (each fits some repository, one fits both in different layers, and either is unmatched as long as those are missing), 2 revisions, 1 process run and 1 merge repeated, 1 stop, dropped errors of the pruner without bound. The theorems have no such bounds |
| `SyncRuns` | does one command work at a time, is everything accounted for, does the lock come free | `scan` and `generate` at once, 4 services, 8 repositories (ignored, re-included, stale, archived, mirrored, on a second page), 2 faults (a failed or refused request, a busy database), 1 cancellation or crash |
| `GenerationRuns` | does the budget cover what was spent, does the log match the store, does every call return | 2 concurrent calls, 1 or 2 permits, a chain of gateway and verifier, breakers that open at 2, 1 retry, 1 midnight, cancellation and a failing store |

Eviction gives an address a new, full bucket. That is sound only if a bucket
refills while its entry is idle: `ServerAssumption` states it,
`(TTL + 1 - MaxStall) * Rate >= Burst`. The defaults (100/s, burst 200, 10
minutes) satisfy it by far; a rate under burst / 600 s would not.

Two runs end in a counterexample and have an entry under `findings`:

| Run | What the code does |
|---|---|
| `SyncPrivate` | GitFlic's `isPrivate` is decoded and dropped, so the private filter never sees it |
| `ContentEdits` | what a creator saves on Patreon between a publisher's drift check and its push is overwritten, and no revision has it (one publisher, no fault, one edit) |

Further disagreements between text and code that the models show, without a run
of their own.

Content workflow:

* A runner evicted as stale is never told (`runner.go:82` ignores that its UPDATE
  matched no row) and goes on beside its successor; `docs/guides/configuration.md:170`
  says "so two concurrent invocations never overlap". `TimelyNoOverlap` has the
  condition under which they do not.
* A `process` run overwrites `patreon_drift_detected` (`pipeline.go:96`; the queue
  does not skip halted repositories): the halt is lifted without an operator,
  where `publish.go:82` says "Halted until an operator resolves the drift".
* `keep_ours` only sets the state to idle (`preview.go:467`). The approved import
  stays the newest revision and the external text is what `publish` keeps;
  `preview.go:408` says "operator re-publishes our last-approved revision".
* A crash between push and bookkeeping leaves the published pointer unset, so the
  next run skips the drift check and creates a second post (`publish.go:121` says
  it will reconcile).
* A draft approved after a newer revision went live is never pushed and never
  superseded: `publish` takes the newest approved revision and returns when that one
  is live (`publish.go:98`). Two pending drafts of a repository, from a cap above 1
  or a manual edit, suffice. `ApprovedGoesLive` excepts it.
* A late `keep_theirs` moves the pointers of a repository that is no longer
  drifted (`preview.go:459` checks, `:516` writes; the comment at `:429` excludes
  it).
* After a crash behind the insert a repository stays in `processing` (design
  document, line 154: back to idle).
* A 4xx answer of Patreon to a write is recorded as a publication
  (`client.go:254`, `:303`; `publish.go:78` says otherwise).
* A revision that reached Patreon but was not marked (crash after the push) can
  be superseded and pruned (`pruner.go:20` says it is pinned).
* A manual edit can collide on `UNIQUE(repository_id, version)` (`preview.go:316`;
  design, line 191, says it cannot). The database refuses it only while the other
  row is there: if a newer draft takes the number, is rejected and pruned behind
  `MAX_REVISIONS` newer rows before the edit's INSERT comes, the edit gets the
  number of a row that is gone. The drift import reads and inserts in two
  statements too (`publish.go`). `VersionsNeverReused` therefore excepts these two
  sources, and only against deleted rows; the pipeline's own insert never hands a
  number out again.
* With `MAX_ARTICLES_PER_RUN` a repository whose article is always a duplicate
  keeps the head of the queue, because the dedup path does not stamp
  `last_processed_at` (`pipeline.go:201`).
* `runProcess` can return with its row still running, when Release itself fails
  on the cancelled context (`process.go:52` says it cannot); the row is reclaimed
  later (`OrphanReclaimed`).

Webhooks and server:

* The event id is tracked before the enqueue, so the redelivery of an event
  refused with 429 is answered `duplicate_ignored` and lost (`webhook.go:88`;
  `:37` says overflow does not silently drop).
* Two simultaneous deliveries of one event are both accepted (`webhook.go:84`).
* All GitLab events share the `X-Gitlab-Token` header as event id
  (`webhook.go:150`): within the window only the first is accepted.
* Nothing calls `DrainRepoWork`. Once the work channel is full, the drain
  goroutine ends and accepted events stay in the queue (`main.go:204`); this is
  the exception in `AcceptedReachesOrchestrator`.
* `GenericWebhook` (GitFlic, GitVerse) answers "queued" and audits
  `webhook.enqueue` ok, and enqueues nothing (`webhook.go:217`).
* An event accepted while the server shuts down, or still queued when the drain
  ends, is lost with the process.
* A listen failure does not end the server: `runServer` waits for a signal.
* With `AUDIT_STORE=sqlite` every write fails: `sqlite_store.go:28` inserts into
  columns that `audit_entries` of migration 0001 does not have (the comment cites
  a 0002 that does not exist), and callers drop the error.

Schema, import, merge, illustrations:

* Bootstrap records every discovered migration as applied on the strength of one
  table being there (`bootstrap.go:20` "The schema is already in place"); what a
  pre-refactor database lacks is never created. A stop half way through the
  seeding makes the next start run the missing ones on tables that exist.
* A migration that can run only once, stopped between its SQL and its row, blocks
  every later start (`Wedged`).
* An import that stops after its first revision is never resumed: the table is no
  longer empty (`import.go:31` "pulls every post ... exactly once"). Unmatched
  posts are recorded and nothing reads or resolves them.
* An import that matches nothing leaves the table empty, so every later run imports
  again (`import.go:64`). A post recorded as unmatched then becomes a revision as
  well once a repository it fits has been inserted, and the unmatched row stays
  (`import.go:31` "exactly once"). `PostRecordedOnce` allows this for repositories
  that were not listed when the post was found unmatched, and for no other.
* The pruner drops the error of its DELETE of an illustration and unlinks the file
  anyway (`pruner.go:54`): a busy database, or on Postgres a row that is still
  referenced, leaves a row without a file, which later drafts reuse. `RowHasFile`
  says that no other step parts the two.
* On Postgres (READ COMMITTED) `merge-history` is several statements
  (`merge_history.go:128-166`): a draft inserted for the old repository between the
  re-parenting and the DELETE is removed by the cascade, whatever its status. A merge
  there of revisions with illustrations is refused by a foreign key; on SQLite
  the merged revisions lose their illustration rows to the cascade. `RepoHistory` and
  its theorems are about SQLite.
* An image answer without data (a URL or base64 field the code does not read)
  becomes a row whose path names a file that is never written.
* `merge-history` checks outside its transaction. What protects it is
  `UNIQUE(repository_id, version)`, not the checks.
* Two merges of the same old repository at once, into different new ones, both pass
  their checks; the second finds no revisions left to move and deletes a repository
  that is gone, but its pointer copy still names revisions that went to the first
  (three repositories and two invocations show it). `HistoryMerge` has one
  invocation; the theorem names the condition.

Discovery and generation:

* GitVerse lists its first page only; GitLab's client is built without a token;
  the failover of GitHub changes a token its client no longer reads.
* Deduplication by owner/name comes before the filters, so a private, ignored or
  stale repository listed first hides its public mirror. An unreadable
  `.repoignore` ignores nothing.
* A refused command removes the holder's lock file (`lock.go:73`); `expires_at` is
  never consulted (`docs/architecture/sql-schema.md:220`); after a cancellation the
  release fails on the cancelled context and the row stays until somebody deletes
  it, so every later command is refused; so does a release that meets a busy
  database, whose error `defer` drops (`lock.go:90`). On Postgres the advisory lock is keyed by
  a fresh UUID and excludes nobody.
* A scan cancelled half way returns what it has as success.
* Failed generations keep their reservation; tokens above it are not charged; a
  refund after midnight is credited to the new day (`UsageCoversSpend` excludes
  that). A 4xx of the verifier other than 429 decodes to an empty completion of
  score 0 that the chain takes for an answer.

Design document:

* The design's self-abort on a stale own heartbeat (line 309) does not exist.

Reading the properties. `LiveMatches` compares bodies, because a restored edit
may make two revisions equal. `ApprovedGoesLive` excepts a repository halted by
drift and an approved revision of which a newer one is live (above); it is checked
without edits on the site, because each one may consume a revision id of the bound.
`OnePostPerRepo`
and `ShownNeverPruned` hold as long as no `publish` dies, loses its database or
loses an answer of Patreon after it has written there; `LiveMatches` if,
besides, Patreon refuses no write and nobody answers `keep_theirs`. `ContentReview` is such an
instance, and the theorems name the conditions. `DraftCap` counts
generated drafts, as manual edits are not capped by the code, and its bound is the
cap plus one for each run beside the first: a successor counts before the draft of
the run it evicted is inserted. `WebhookIntake`
switches deadlock checking off because deliveries are bounded: the server is idle
once all have been made. `ServerRequests` does because the process exits.
`BookkeepingAgrees` and `SchemaCompletes` name their exceptions (`gap`, `seeded`,
`Wedged`): each is a stop at one particular statement, so the properties say that
no other stop and no interleaving does harm. `LockComesFree` excludes a holder that
was killed or whose DELETE was refused (cancelled context, busy database), see above.
`AllAccountedFor` accepts as an account of a repository that another of its
owner/name was listed before it, in the order in which the command heard them: what
deduplication drops, and nothing else. `SchemaMigrator!TypeOK` documents its state.

Refinement. `WorkersTakeTurns` is `ExclusiveRun!Spec` with those at work whose row
still says running: every step of the lock lets one in when there is none, lets one
go (return, crash, eviction) or changes neither. The same module is the
specification of the locks of `scan` and `generate` (`CommandsTakeTurns`).
`RingIsLog` is `AdminLog!Spec /\ AccessLog!Spec`: with `log` mapped to
`List(ring, 0)`, every step of the server is a `Record`, a `Show` of the last page
or a stutter of `AuditLog`, through the wrap of the ring. The download ring is never
listed, so its `page` stays empty.

Fairness. `ProcessLock`: cron starts `process` again and again, so an invocation
that has ended begins anew and one past the reclaim goes on; nothing is assumed
of a stalled or killed runner. `ContentSystem`: weak fairness of the statements
of workers and publishers (the scheduler, or cron, repeats the commands);
reviewers, the site and the scan owe nothing. `WebhookIngest`: Go schedules the
request and drain goroutines. `HttpServer`: only the shutdown sequence, whose waits
have deadlines; clients may stay for ever. `SchemaMigrator` and `RepoHistory`:
commands are started again and each goes on unless it is stopped, and stops are
bounded; strong fairness of `Migrate` because a rollback may disable it in between.
`SyncOrchestrator`, `ContentGenerator`: a command or call that has begun goes on;
waiting is bounded by timeouts in the providers' clients.

## Proofs

Theorems hold for every value of the constants under the named assumptions, which
TLC evaluates on each instance. Those in the modules say that sets of actors,
addresses and repositories are finite, that limits are natural numbers and that
special values are not members of the sets they are told apart from;
`ProvidersAssumption` and `SyncAssumption` that what is upstream and what is
configured are finite lists of repositories, services and organisations, and that a
repository's id is its own;
`ServerAssumption` also has the refill condition above. Conditions of a single
theorem are part of its statement and named below. Most of them state a property some run checks
on a small instance; `PROJECT.json` says which.

* `ProcessLockProofs`. `SingleActive` alone is not inductive: a late Finish or
  Heartbeat writes a row by id. `LockInv` adds `HoldersOwnTheirRow` (a working
  runner's row is its own, running or evicted) and gives `SingleActive` and
  `EndedStaysEnded`. `RunsTakeTurns` is the refinement of `ExclusiveRun`: only
  `Acquire` lets a runner in, and the index refuses it while a row is running; every other
  statement can only make the set of those that have the lock smaller.
  `TimelyNoOverlap` is the documented guarantee with the condition it needs: if
  `MaxLag <= StaleAfter`, no working row is ever stale, hence no two invocations
  overlap and all of them implement `ExclusiveRun` (`TimelyRunsTakeTurns`).
* `ContentProofs`. `GateInv` says what a stale read still guarantees: a
  publisher's target was approved when it was read and approval is never taken
  back; a decision in flight was read on a pending draft and only takes effect if
  it still is one; a sweep asks only rows it saw approved to be superseded. From
  it: `TypeOK`, `ReviewGate` (nothing unreviewed goes live, with all faults,
  any number of actors, with or without foreign keys), `AppendOnly`,
  `DraftsNeverBuried`. More invariants rest on it.
  * `RetentionInv`: every deleted row, and every row in any pruner's stale list, is
    *backed*, i.e. has `KeepTop` newer rows in the table. Deleting a row takes a
    newer row away from another one only if the latter is older than all that back
    the deleted row, and these remain; inserts only add. It gives `NewestAreKept` and, if
    `KeepTop # 0`, `VersionsNeverReused`: the newest row is never deleted, so
    MAX(version) covers every version there ever was. With `MAX_REVISIONS=0` the
    newest row may be pruned and its number comes back.
  * `CapInv`: drafts under review and runs that still may insert one are together
    within the bound of `DraftCap`, for any finite number of runs beside each other.
    For one, which is what the process lock is for, the bound is the cap.
  * `ShownInv`, for one publisher (`OnePublisher`) that is not cut off between the site
    and its bookkeeping (`Reliable`; runs, reviewers and the site are free, and
    Patreon may refuse). A retention list holds no row that is live, approved or
    pending, and statuses are final, so stale pointers and stale lists never lead to a
    row that is shown. The newest approved target has a version no lower than any
    import's, so no sweep asks for it to be superseded before `Mark` makes it live. A
    publisher finds the live post if and only if there is a post. It gives
    `ShownNeverPruned` and `OnePostPerRepo`.
  * `MatchInv` and `GoneInv` add what the post shows and which posts were removed on
    the site; they need `NeverRefused` (a refused write is booked as a publication)
    and `NeverTheirs` (a late keep_theirs moves the pointer back to an import). They
    give `LiveMatches`.
* `WebhookProofs`. `WebhookInv` is the type invariant with conservation: accepted
  = taken ∘ work ∘ (lost or in hand) ∘ queue, in this order.
* `ServerProofs`. `LimiterInv` compares an address's entry with the ideal bucket it
  would have had without eviction: the entry never holds more tokens, and one
  that has been idle long enough to be swept finds the ideal bucket full.
  This is where the refill condition is needed. `LimiterConforms` follows. `RingIsLog`: every step
  of the server maps to a `Record`, a `Show` or a stutter of `AuditLog`; the work is in
  the arithmetic of `List` over a ring whose head has wrapped.
* `SyncProofs`. Each step of a command is sorted by what it may do to the lock row
  (`Moved`): take it when there is none, keep it, delete its own. `SyncExclusive` is then
  inductive with the domains of the commands' records (`CommandShape`), and gives
  the refinement of `ExclusiveRun`. `LeftRowBlocks` proves the reverse side: no
  command deletes a row an ended one left behind.

  The rest is about what discovery computes, for any configuration. `At` picks each
  of the given places once (`AtIs`), `FlattenSeq` keeps every member (`FlattenIs`), hence
  the pages of a listing show every public repository of the service and
  organisation (`PagesOfShow`; of GitVerse the first page), deduplication keeps the
  first of every owner/name (`DedupedIs`), so that one it drops has another listed
  before it (`ListedBefore`), and the filters what passes them (`FilteredIs`). The invariant `SyncInv` says of a command that discovers that each
  listing heard is held or its service reported (`Heard`), and of one that works that log and
  list together settle every expected repository (`Settles`); the loop moves one entry
  from list to log. It gives `TypeOK` and `AllAccountedFor`. `Discreet`, its part
  about private repositories, gives `FilterKeepsCandidPrivateOut`: what `SyncPrivate`
  finds is confined to services that do not pass visibility on.

  Induction over numbers is done on sets: a nonempty set of numbers has a least member
  (`Least`, from the well-foundedness of < in the library), hence `UpTo` (what holds of 0 and
  passes on holds up to n) and `Iterates` (a function with a given start and step
  exists, which `Metadata` takes for granted).
* `GeneratorProofs`. `GeneratorInv` ties the permits in use to the calls inside the
  chain, over every way in and out of it, and dates the reservations. `LogIsTrue`: log
  and store have the same verdict per call. `BudgetCoversSpend`: usage is compared
  with a sum over the calls; each step changes one summand, so the proof writes
  the sum over a finite set (`MapThenSumSet`) as one summand plus the rest.
* `MigratorProofs`. `MigratorInv` adds to `BookkeepingAgrees` what a command that
  is between a migration's SQL and its row has done to the schema; where starters exclude each
  other, that nobody else has.
* `HistoryProofs`. `HistoryInv` (types, versions within the number of revisions,
  pruning lists of rejected revisions only) gives `UndecidedSurvives`. `OwnInv` adds
  what a merge read before its transaction: its pointers name revisions of its old
  repository. `OneHistory` follows as long as no two merges of one old repository
  overlap (`OldsDiffer`, false in the case described under merges above); with one
  merge at a time nothing is assumed. `FilesInv` gives `RowHasFile`: a row
  with data is without a file only where the pruner's DELETE was refused.
  `PostsInv` follows the import's position through stops and restarts, and which
  repositories were known when a post was found unmatched; it gives
  `PostRecordedOnce`. Both are action properties and hold with one run at a time, as
  the process lock has it.

Every invariant and every action or refinement property of the passing runs is a
theorem, some under the conditions named. Only model-checked: the liveness properties
(`OrphanReclaimed`, `ApprovedGoesLive`, `AcceptedReachesOrchestrator`,
`ServerStops`, `SchemaCompletes`, `ImportCompletes`, `LockComesFree`,
`EveryCallReturns`). They rest on fairness, whose definition contains ENABLED, which
the provers cannot expand.

## Not modelled, and plan

Left out for good: formatting, rendering (a renderer's error is skipped by its
caller), prompts, metrics, logging, the text of HTTP answers, environment parsing
and the wizard, the read-only `verify` and `llm` commands.

Left out because no command or route reaches it at this commit: access gating and
signed URLs (the download route is wired to stubs that refuse), `checkpoint.go`,
`conflict.go`, `scheduler.go`, mirror and rename detection, score cache, health
monitor and strategy, review queue and tier mapper, repository Create and Update.

Within modelled components: webhook payloads without a repository, the no-op
orchestrator, OAuth2 tokens (refreshed tokens live in memory only), the Postgres
lock of the sync orchestrator, the SQLite audit store, the illustration id the
publish adapters drop.

Next:

1. `RepoHistory` composed with `ExclusiveRun` in place of the lock, so that the
   one-run conditions of `HistoryProofs` become conclusions from
   `TimelyRunsTakeTurns`.
2. Which refused writes and which late decisions `LiveMatches` survives: its theorem
   excludes them all.
3. The expected number of requests of a discovery as a theorem on `GitProviders`, for the
   rate limits of the services.
