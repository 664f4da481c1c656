# Packbat: a verification project

Packbat keeps an archive of coding-agent sessions. Every hour a command line
tool copies the session files of several harnesses into a local archive,
encrypts what is new, publishes it to remotes (rclone, or Packbat's own cloud)
and pulls the archives of the user's other machines. Sessions are searched in a
derived cache and restored from any of these archives. The cloud is a Cloudflare
Worker over a D1 database and an R2 bucket, paid for through Stripe.

This directory holds TLA+ modules that model the parts of it whose correctness
depends on interleavings, crashes, and lost or late messages, the TLC
configurations that check them on small instances, and TLAPS proofs of the
properties that matter most. Source paths below are relative to `apps/` of the
repository unless they begin with `docs/`.

    tlc -config MCSyncLock_lock.cfg MCSyncLock        # check one configuration
    tlapm RetrievalProofs.tla                         # check the proofs of a module

## 1. The system

### Components

| component | state it keeps | operations | modelled in |
|---|---|---|---|
| Storage broker `cloud/src/storage` | D1: `users` (quota, used and reserved bytes), `machine_remotes`, `upload_reservations`, `object_ledger`; R2 objects | create a machine, reserve, finalize, expire (cron and on every reserve), recount | `StorageBroker` |
| Account deletion `broker.ts:813-913` | deletion times, write fences | request, fence, remove objects, remove rows | `Account` |
| Billing `cloud/src/billing` | customer, subscription, admissions, webhook events, grace periods | checkout, webhook, lifecycle cron | `Account` |
| Credentials `cloud/src/auth`, `cloud/src/db/accounts.ts`, `cli/src/cloud` | access and refresh tokens on both sides, a lock directory | link, refresh (rotation), unlink, recover | `CloudLink` |
| Device flow `cli/src/cloud/device-flow.ts` | the pending device code | start, poll, exchange | `CloudLink` |
| Locks `cli/src/core/lock.ts` | `sync.lock`, `retrieval.lock` | try once, wait, break a dead owner's | `SyncLock` |
| Archive sweep `cli/src/core/{archive,compress,index}.ts` | compressed copies, `index.jsonl` | decide, copy, record, repair | `ArchiveSweep` |
| Doctor `cli/src/doctor` | none | list, walk, read the index, compare; look for the job and the stamps | `Reconcile`, `Scheduler` |
| Database snapshots `archive.ts:100-256` | snapshot payloads and manifests | capture, keep or replace the newest | `Snapshots` |
| Off-box publication `cli/src/offbox/{outbox,remote,rclone}.ts`, `cli/src/cloud/client.ts` | `uploaded.jsonl`, `index.json`, `last-success.json`, `cloud.json` | select, upload with several workers, publish the index, save state | `Publication` |
| Mirror `cli/src/offbox/mirror.ts` | copies of other machines' archives and their indexes | list, pull, verify, replace the index | `Publication` |
| Restore `cli/src/core/restore.ts`, `cli/src/offbox/remote-restore.ts` | the harness's live store | stage, compare times, write back and verify | `Restore`, `Snapshots` |
| Retrieval cache `cli/src/retrieval/{database,catalog}.ts` | an SQLite file and its log | refresh, rebuild, read fresh or stale | `Retrieval` |
| Retrieval queries `cli/src/retrieval` | none | search, query, pages of a session | `Retrieval` |
| Session readers `cli/src/readers` | none | turns, issues and status of a session's lines | `Readers` |
| Scheduler `cli/src/schedule` | launchd, systemd or cron job, an activation marker | install, activate, deactivate, uninstall | `Scheduler` |
| Configuration, setup, wizard, recovery kit `cli/src/core/{config,setup,init-wizard}.ts` | `config.json`, the age identity, the kit | init, migrate, mint, deliver, link | `Setup` |
| Adapters, destination dialogues, operational log, argument parsing, web site | none, or append-only logs | read and format | no (section 6) |

### How they interact

* `packbat sync` (`commands/sync.ts`) takes the sync lock and, inside it, sweeps
  the harnesses' stores, publishes to each remote, mirrors the other machines,
  and then takes the retrieval lock to refresh the cache. The order of the two
  locks is always the same. Nothing else keeps two syncs apart: the sweep, the
  outbox and the mirror all assume that they run alone.
* The sweep writes `index.jsonl` and the copies; the outbox, the mirror of other
  machines, the cache and the restore read them, the last two without the sync
  lock. The harness writes session files at any moment and knows nothing of
  Packbat.
* The outbox talks to the broker by HTTP (reserve, finalize) and to R2 by a
  presigned PUT. The broker never sees the PUT: it only finds out by `head()`.
* The broker's tables are shared by every Worker request, by the cron job
  (`index.ts`: expire uploads, recount, reconcile billing) and by the webhook.
  A `DB.batch` is a transaction; between two awaits anything may happen.
* `config.json` is written by `init`, the wizard, `cloud link` and the first
  reader that finds version 1, and no lock protects it.

### What is hard

* Requests, cron runs and clients' PUTs interleave between any two awaits of the
  broker, over state that is in two stores, D1 and R2, with no transaction
  across them. Answers are lost, calls are repeated, PUTs arrive late, Stripe's
  events arrive in any order.
* Bytes are accounted for incrementally, by three kinds of statements, against
  a quota.
* Lock files and a lock directory are judged and broken (or never broken) by
  callers that race each other, owners are killed, and pids come back.
* The sweep, the restore, the doctor and the cache compare times and sizes of
  files that change while they read them, and may be killed anywhere.
* A publication writes to a remote and to four local files in turn, and the
  machine that mirrors it reads while it writes.
* A setup is a dozen calls to two schedulers and to the file system, each of
  which a Ctrl-C may be the last of.

`PROJECT.json` lists the hazards line by line, with the properties that would
catch each; every one has at least one.

## 2. How the project is laid out

Modules are written to be proved about as well as checked: parameters are
CONSTANTS with named assumptions, there is one action per await-to-await (or
file operation to file operation) step, and recursion is left to folds and
recursive functions.

| module | extends | checked through | proved in |
|---|---|---|---|
| `IndexPublication` (abstract) | | `StorageBroker`, which refines it | |
| `StorageBroker` | | `MCStorageBroker` (3 configurations) | `StorageBrokerProofs` |
| `SyncLock` | | `MCSyncLock` | `RetrievalProofs` |
| `ArchiveSweep` | | `MCReconcile` | `ArchiveSweepProofs` |
| `Reconcile` | `ArchiveSweep` | `MCReconcile` | `ArchiveSweepProofs` |
| `Snapshots` | | `MCSnapshots` | `RestoreProofs` |
| `Publication` | | `MCPublication` | `PublicationProofs` |
| `Restore` | | `MCRestore` | `RestoreProofs` |
| `Account` | | `MCAccount` | `AccountProofs` |
| `CloudLink` | | `MCCloudLink` | `CloudLinkProofs` |
| `Readers` (operators only) | | `MCRetrieval` | |
| `Retrieval` | `Readers` | `MCRetrieval` | `RetrievalProofs` |
| `Scheduler` | | `MCSetup` | |
| `Setup` | `Scheduler` | `MCSetup` | `SetupProofs` |

`Reconcile` runs the doctor beside the very sweep of `ArchiveSweep`; `Setup` runs
the wizard and the link around the very steps of `Scheduler`; `Retrieval` pages
through what `Readers` makes of the lines in the archive. Where a component is
composed with one that is modelled in detail elsewhere, it sees it at the grain
its properties need: `Restore` knows the sweep as a copy and a record,
`Publication` knows the sweep as the archiving of a version and the broker as a
compare-and-swap of the index, which is what `IndexPublication` promises and
`StorageBroker` is shown to keep. `RestoreProofs` extends both modules that model
`core/restore.ts`, and `RetrievalProofs` the locks and the cache that is kept under
one of them; the definitions of each pair share no name, and the two share no state.

Several configurations choose one of a set of *instances* in the initial state
(an account that is billed or one that uploads; macOS or Linux; a harness): each
instance has its own bounds, and one run covers them all.

## 3. What is modelled

### `StorageBroker` (refines `IndexPublication`)

One account. `reservations`, `ledger`, `indexEtag`, `registered` and `account`
are the D1 tables; `bucket` is what R2 holds under each key; `signed` the
reservations whose presigned URL has been handed out; `requests` the Worker
requests, each with the `now()` its route read before the first await.

| code | in the model |
|---|---|
| the WHERE clause and the batch of `reserveUpload` (577-673) | `Admits`, `IsUnique`, `ReserveBatch` |
| `completeReservation` (259-332), four statements | `MayComplete`, `Record`, `MovesIndex`, `CompleteBatch` |
| `expireReservation` (231-257) | `MayExpire`, `ExpireBatch` |
| `reconcileReservation`, `reconcileExpiredReservations`, `finalizeUpload` | `SelectExpired`, `NoneExpired`, `GetReservation`, `HeadObject`, `Complete`, `Reread`, `RemoveUnexpected`, `Expire` |
| the idempotency lookup and `pendingResult` | `Lookup`, `Insert`, `Sign` |
| `reconcileUsageAccounting` | `ReconcileAccounting` |
| `createMachineRemote` | `CreateMachineRemote` |
| R2 and the client | `Put`: If-Match or If-None-Match is compared when the body is complete; the URL may be used again, and late |
| a Worker request that ends early | `Abort` |

An ETag of a single PUT is a function of the bytes, so one value stands for
ciphertext, checksum and ETag; `Bytes` gives its length. age encrypts every
object of a sweep anew, so two sweeps share no ciphertext
(`CiphertextsAssumption`). `HeadShowsChecksum` says whether `head()` exposes the
SHA-256 of an upload: `matchesReservation` is written for both cases.
`users.subscription_state` belongs to billing: a statement that asks for it may
be refused.

`IndexPublication` is what the broker promises to those who read a machine's
archive: a sweep commits objects, sealing fixes the set, and a compare-and-swap
on the head publishes it. The refinement mapping reads a sweep's stage off the
state of its index reservation.

### `Account`

The rest of the account's life. `user`, `stored`, `admission` and `handled` are
rows of D1, `sessions` and `history` what Stripe holds, `requests` the calls of
`createCheckout` under way, `deleters` the calls of
`deleteAccountDataWithGuard` (two requests of the user's and the cron job, which
may overlap), each at its place between two awaits; a call may end at any of them
(`Abandon`), and fences are written one object at a time, `left` being those still
to write. `refused` remembers the idempotency keys of which Stripe turned down the
request that had the admission. Stripe emits an event at each change of a subscription
(`Pay`, `Change`) and delivers it within `MaxDelay`, in any order (`Webhook`:
`processStripeWebhook` is one batch). `Reserve`, `Put`, `ReadReservation` and
`Settle` are the uploads a deletion meets: URLs still valid, requests that read
their reservation before the fence and settle it after. Grace and its expiry
follow `lifecycle.ts`.

### `CloudLink`

`rows` are the credentials the server has issued, with the generation of their
refresh token; `file`, `lock` and `config` the machine's. Every command (`proc`)
goes through `withCredentialLock` and `refresh` step by step (read the file, make
the directory, reread, send the refresh, save, remove the directory), inside the
operation that needed a token (sync, link with its checkout, unlink, recovery).
`Denied` and `Lost` are answers refused and lost after the server has acted;
`Kill` leaves the lock directory. The device flow (`Poll`) takes every answer of
GitHub, with `interval` as the code computes it and `demanded`, a history
variable, as GitHub asked.

### `SyncLock`

`withLock` operation by operation: `link` of a finished temporary file, read of the
owner's pid, `kill(pid, 0)`, removal of the file by name, second `link`, the polls
and the deadline of the waiting callers, the body, the removal in `finally`.
`waits` and `WaitInstead` are the three entry points and their callers
(`withSyncLock`, `withRetrievalLock`, `tryRetrievalLock` followed by a wait). The
system adds `Exit`, `Crash`, `ReusePid` and `OtherProgramEnds`. `stolen` is a
history variable: has the file of a process inside the lock been removed by another?

### `ArchiveSweep` and `Reconcile`

`sweep` and `archiveSessions` file operation by file operation: read of the index,
enumeration with `stat`, the decision `shouldArchive` (or the repair of a record),
`stat` and read of the source, rename, `utimes`, append of the record. The n-th
version of a session has size n and n stands for its bytes. `Write`, `Vanish` and
`Tick` are the harness and the clock, between any two steps; `Kill` and
`DeleteIndex` are the faults. `tail` is the unterminated last line a kill leaves;
an append after it makes one corrupt line of both. `Stamp` is what the file
system makes of a time given to `utimes`: it may round it down.

`Reconcile` adds one run of `checkReconciled`: it lists the sources, walks the
tree, reads the index and inspects the copies one at a time, all beside the sweep
and the harness, and ends with the status `reconcile.ts` gives.

### `Snapshots`

A database is its main file and the log beside it, its contents the sessions in
it. A sweep captures it (one consistent view: SQLite's online backup), compares
with the newest snapshot, and otherwise makes a directory, writes the payload,
then the manifest, then the record. A restore reads and validates a payload,
looks twice for a live database, removes the files beside it and renames. The
harness commits, checkpoints, removes and makes databases meanwhile; sweeps and
restores are killed between any two of these, and payloads rot.

### `Publication`

`copies` are the archive with its records (the sync lock keeps the sweep from
changing them during a publication), `objects` and `head` the remote, `uploaded`,
`savedIndex`, `succeeded` and `knowsHead` the state files of the remote on the
machine. `run` is `publishRemote`: the choice of what is later than recorded, the
uploads by up to `Workers` workers, of which the first failure stops the rest,
the ledger, the index (refused over an index of another ETag, or of another
installation), and the state files one by one. `pull` is `mirrorMachine` of
another machine: index, listing, one file after another, and the index last. The
faults: a request that fails or whose answer is lost, an upload that rclone does
not report, kills of either side, and a machine set up anew under its name. A
restored or reinstalled machine has no state files, as `Reinstall` says.

### `Restore`

One unit of one harness: Claude Code with a side file, Codex with its two places
(`sessions`, `archived_sessions`), or Gemini. A version is the set of the turns in
it, dated by the clock of the file system. `RunRestore` reads the records of a
place (this machine's archive, a mirror or off-box), chooses the files
(`SelectCodexState`, `AttachGeminiProjectMarkers`) and puts the main one first
(`ToArchivedUnit`); `PullAndDecryptFile` stages what is
off-box; `CheckTarget` compares times; `WriteRestoredFile` verifies and renames,
`StampRestoredFile` dates. Around it the harness writes, moves and prunes, the
sweep copies and then records (or is killed between), and publication and mirror
move objects and indexes separately.

### `Retrieval` and `Readers`

`archive`, `record` and `bad` are what is on disk, `main` and `wal` the SQLite
file and its log (which SQLite applies to whatever main file it finds), `cmds` the
commands, each of which refreshes, rebuilds, waits for another's refresh, answers
from a stale cache as `openStaleRetrieval` does, or pages through the archive.
Refresh and rebuild go through lock, catalog, validation of the schema, one unit
after another, the transaction, and (a rebuild) the rename of the new file.
`during`, `spoiled`, `lost`, `known` and `mixed` are history variables: what each file
held while a command ran, whether its answer came from a database under the log of
another, which files were damaged, and which a finished refresh has seen.

`Readers` gives the turns, issues and status that the three readers make of the
lines of a unit: `ReadUnit` with the rules of Claude Code, Codex and Pi, the merge
by time, the limit on issues. Paging knows of a reader only that it gives a sequence
of turns, whatever it reads (`TurnsAssumption`).

### `Scheduler` and `Setup`

`disk` and `jobs` are the artifacts and what launchd, the systemd user manager and
cron have loaded. Installation, activation and uninstall are the sequences of
`scheduler.ts`, one call to the operating system a step; logins load what is on
disk, an upgrade removes the Node version an artifact names, and `reach` says what
the shell of a command can talk to (no crontab, no user manager). Doctor's
`installed`, `live` and `fresh` facts are operators over this state.

`Setup` adds `config.json`, the identity, the kits and the migration of version 1:
any reader (a command, the scheduled job) may find version 1 and move the ledger,
the stamp and the outbox one by one before it saves version 2; the wizard matches
the resident key, mints, delivers the kit, writes the identity and then the
configuration; `cloud link` saves the configuration it read before the device flow.

## 4. What is checked

Each property below is also shown to depend on the code: `PROJECT.json` pairs it
with a plausible mistake (a *mutant* definition, kept beside the one it replaces)
under which the same configuration finds it violated.

| run, configuration | properties | what it shows, and the bounds |
|---|---|---|
| `broker_race` `MCStorageBroker_race` | `PendingIsCurrent`, `PublishesInOrder` | Two concurrent requests, two sweeps, one archive key and the index, clock 0..1, repeated PUTs. Whatever races, a pending row's captured object and index are the committed ones when it is settled, and the broker implements `IndexPublication`. Two requests are the least that interleave, two sweeps the least that replace. |
| `broker_serial` `MCStorageBroker_serial` | `CommittedIsStored`, `AccountingExact`, `SweepFrozen`, `WithinQuota`, `CommitsWhatWasReserved` | One request at a time, two archives and the index, two sweeps, ciphertexts of one and of three bytes, quota 4, clients that stop uploading at the expiry. Counters equal the rows and stay within the quota but for refunds; once an index is reserved its sweep is complete and stays so; committed objects stay in the bucket and are those reserved. |
| `broker_liveness` `MCStorageBroker_liveness` | `ReservationsAreReleased` | Two requests (the cron job is one of them) over one index, late PUTs, requests aborted at any await: every reservation past its expiry is released. |
| `lock` `MCSyncLock_lock` | `OverlapOnlyByTheft`, `RefusedForAnother`, `EveryCallDecides` | Two callers of all modes, a stale file or none, kills, reused pids, two polls. Two are inside together only after a live owner's file was removed; callers are not all turned away; every call enters or is turned away although owners may hang. |
| `sweep` `MCReconcile_sweep` | `SkipsOnlyArchived`, `DoctorIsRight`, `EverySessionIsArchived`, `ArchiveSettles`, `IndexIsRepaired` | One session of two versions that grows and vanishes between any two steps, clock 0..2, one kill (with a torn line) or deletion of the index, a doctor beside. What the next sweep would skip is archived as it is; every version, or a later one, is archived; a quiet archive is left alone and its record ends up right; beside no sweep and after no fault the doctor neither overlooks a gap nor invents one. Sessions are independent but for the index, so one of them with two versions meets every decision. The file system keeps times exactly here; times rounded down are covered by the theorem `SkipsAreSafe`. |
| `publication` `MCPublication_sync` | `IndexNamesUploaded`, `MirrorIsBacked`, `PublishedIsKept`, `SessionsReachTheMirror` | Two sessions, one of two versions, two workers, rclone or cloud, and one fault of any kind anywhere (359,133 states). The published and the mirrored index never run ahead of the bytes; no session leaves the published index; every version, or a later one, reaches the mirror. The three safety properties also hold with `MaxFaults = 2` (1.38 million states), where the liveness property takes too long. |
| `account` `MCAccount_life` | `AccessFollowsStripe`, `CheckoutIsAdmitted`, `NothingSurvives`, `PaidIsKept` | Two checkouts with four events of their subscriptions, delivered within one unit of time in any order, up to three in one second; a checkout with two requests of one key; and two uploads against two overlapping deletions by the user, each of which may end anywhere (three instances). Access ends as the newest event says; a Checkout Session that can be paid has its admission; nothing is left or comes back in the bucket of a deleted account; the cron job deletes no account that pays. |
| `link` `MCCloudLink_link` | `TokenIsCurrent`, `SlowDownIsHonoured`, `EveryCallEnds` | Two commands that sync, link and unlink while tokens expire (clock 0..4), with two faults; and a device flow with every answer of GitHub (clock 0..8, longer than the code lives). No refresh presents a token another has used up, and every command ends. 118,912 states. |
| `restore` `MCRestore_restore` | `RestoredAsRecorded`, `UnforcedLosesNothing`, `SupersededHoldsNothingMore` | Six instances: Claude Code from this archive (three turns) and from a mirror, Codex with its two places and from a mirror, Gemini from off-box, three of them with two restores one after the other, forced or not, beside the harness, sweep, publication and mirror, with a kill in two of them (4,365,619 states). A finished restore left what was recorded; the first one without `--force` takes nothing away that it could have seen; a Codex state left aside has nothing more. |
| `database` `MCSnapshots_database` | `SweptIsHeld`, `RestoredIsTheSnapshot` | Two sessions, two snapshots, one payload that rots, two kills, one restore. A sweep that succeeds leaves a readable snapshot of what it captured in the index; what the harness opens after a restore is the snapshot. |
| `retrieval` `MCRetrieval_cache` | `AnswerIsCurrent`, `NothingIsForgotten`, `PagesAreWhole` | Two files, of one unit or of two, and two commands, under three bounds: three runs and one change, two runs of the kinds that write the cache and two changes, two runs with one change and one fault (1,221,478 states). An answer is what the archive held while the command ran; a cache is not served half-built; the pages of a session join to the whole. Two assumptions, evaluated in the same run over every session of three lines, check the readers: `GrowthKeepsTurns` (a session that grows, or was cut in a line, keeps its turns' numbers) and `StatusTellsAll` (a file is "ok" exactly when it has no issue). |
| `setup` `MCSetup_setup` | `OneSchedule`, `DoctorSeesTheJob`, `IdentityIsKept`, `LedgerFollowsConfig`, `SilenceIsReported` | Four instances: init and uninstall on macOS (four commands) and on Linux from six kinds of shell (three commands, two changes of shell), each with a kill, a login and a Node upgrade; wizards beside links with two keys and a kill; the migration of version 1 by two readers with two kills (660,098 states). |

No configuration expects a violation. Where the code does not keep what a
document says, the property states what it does keep, with the exception named,
and dropping the exception makes TLC find the case; the list follows. Type
invariants are not among these runs: where a module's is proved it needs none,
and the runs are kept for questions the types do not answer.

### The disagreements

*Cloud*

* *Quota* (`broker.ts:240`). The test "admits concurrent reservations only while
  their total stays under quota" (`cloud/test/storage-api.test.ts:278`) holds at each
  admission, not after the refund of an expiry: `WithinQuota` allows for
  `RefundedBytes`.
* *Deletion by a stale view* (`broker.ts:341`). `removeUnexpectedObject` compares
  what an earlier `head()` returned and then deletes by name; by then the object may
  be the committed one. `CommittedIsStored` is checked for one request at a time.
  With two, as in `broker_race`, it is violated; and so it is without concurrency
  when a PUT may land after its reservation expired (`LatePuts` TRUE, and three
  sweeps with a ciphertext each). The theorem `CommittedStaysStored` says exactly
  when it holds for any number of requests (section 5).
* *Length instead of checksum* (`broker.ts:113`). When `head()` shows no SHA-256 an
  older object of the same length passes for the upload (set `HeadShowsChecksum` to
  FALSE in `MCStorageBroker_serial.cfg`: `CommitsWhatWasReserved` fails).
* *Events of another subscription* (`webhook.ts:120`, `:184`). A late end of a
  replacement subscription is dropped before its older active event is stored, and
  the account keeps its access; an event of an old subscription takes away the
  admission of a checkout that is open.
* *Events of one second* (`webhook.ts:118`). An active event replaces an incomplete
  one of its second, a past_due or canceled one does not: of three in one second,
  delivered in the wrong order, the active one stays. `AccessFollowsStripe` excepts it.
* *An admission released by its key* (`hosted.ts:182`) is also that of an exact retry
  under way, which Stripe may accept: the exception `refused` of `CheckoutIsAdmitted`.
* *Fences that outlive the account* (`broker.ts:862`). Of two overlapping deletions the
  slower one writes its empty fences after the other has removed every object and the
  row; no later call removes them. `NothingSurvives` speaks of data, which a fence has none of.

*Archive and publication*

* *Two syncs at once* (`lock.ts:113`), against `how-it-works.tsx:40`: the exception of
  `OverlapOnlyByTheft`.
* *A skipped change after a kill* (`compress.ts:34`), against `how-it-works.tsx:14`: the
  condition `faults = 0` of `SkipsOnlyArchived`.
* *A doctor beside a sweep* (`reconcile.ts:177`) reports drift that is not there, and so
  does one alone where the file system rounds the times it is given (`ExactTimes`).
* *Same tick* (`outbox.ts:208`). A copy whose size changed at an equal time is
  archived and recorded but never uploaded: the exception `Blurred`.
* *An error of rclone taken for an empty remote* (`rclone.ts:204`): a machine set up
  anew publishes over the archive of its name. The exception is `blinded`.
* *A lost ETag* (`remote.ts:218`). A kill or a lost answer between the upload of the
  index and the save of its ETag locks the machine out of its cloud remote for good.
* *An unindexed snapshot* (`archive.ts:189`) after a kill between manifest and record.

*Restore and retrieval*

* *Two histories* (`restore.ts:415`): times stand for contents, so the other machine's
  branch of a session replaces this machine's without `--force`; and *a turn between
  look and rename* (`restore.ts:426`) is lost. `OneHistory` and `raced` name them.
* *Renamed, then dated* (`restore.ts:297`): between the two an older version has the
  present time, and a sweep, a write, a Codex move or a kill there makes it look newer
  than the fuller one; *only one of Codex's two places is looked at* (`restore.ts:413`).
  A later restore then takes turns away without `--force`: `FirstRestore` names both.
* *The log of the replaced cache* (`database.ts:512`) stays beside the rebuilt one and
  SQLite applies it: `mixed`, and `spoiled` in an answer. *Damage cached as current* (`database.ts:402`): `lost`.

*Setup and link*

* *A credential lock nobody breaks* (`credentials.ts:93`) after a kill.
* *Back-off cut to a minute* (`device-flow.ts:46`): the `MaxBackoff` of `SlowDownIsHonoured`.
* *A job that survives the uninstall* (`scheduler.ts:354`), when an init was killed
  before the marker: `dirty`.
* *Settings reverted by a link* (`manage.ts:32`), which saves the configuration it read
  before the device flow.

`how-it-works.tsx:25` also says that existing archive objects are never rewritten;
`Rename` of `ArchiveSweep` shows that the copy of a session that has grown replaces
the former one. Page cursors are turn numbers, and a turn has no other identity:
`PagesAreWhole` excepts sessions whose turns moved because a file archived later
brought turns that belong between.

### Fairness

* Broker: the clock advances, the cron trigger fires again and again
  (every five minutes, `cloud/wrangler.jsonc:30`), and a request that runs goes on. The runtime may end a
  request at any await, but not every request at the same one forever: hence
  strong fairness on the awaits of the expiry path, which the aborts keep
  disabling. No fairness is assumed of clients.
* Lock: a process that is scheduled takes its next step in `withLock`. What it runs
  inside may hang: `Leave` is not fair. Crashes and pid reuse are not fair either.
* Sweep: the hourly schedule starts the next sweep and a sweep that runs goes on
  (`WF(Step)`). The harness owes nothing. Kills are bounded by `MaxFaults`, without
  which a kill at each rename would prevent anything from being archived.
* Publication: `WF(Publish)` and `WF(MirrorMachine)`: the hourly syncs of both
  machines start and a sync that has started goes on. Faults are bounded.
* Link: `WF(Tick)` and `WF(Step(p))`: time passes and a command that runs goes on.
  Neither the user nor GitHub nor the payment owes anything.
* Setup: `WF(HourPasses)` only: the hours pass, and a job that runs sweeps in them.
* Account, Restore, Snapshots and Retrieval state safety properties only, which need
  no fairness.

`CHECK_DEADLOCK FALSE` stands where the bounded system may stop: when the clock or
the number of commands, events, faults or versions is at its bound and everyone is
idle. The sweep, which always has a next hour, is checked for deadlock.

## 5. What is proved

For any number of machines, keys, sweeps, requests, processes, files, sessions,
workers and commands, and any bounds on clocks and faults, TLAPS checks:

| module | theorem | says | assumes |
|---|---|---|---|
| broker | `TypeCorrect` | the broker's types, and which fields a request in each phase has filled | the module's assumptions |
| | `ArchivesBeforeIndex` | `SweepFrozen` | the same |
| | `CountersAreExact`, `QuotaIsKept` | `AccountingExact`, `WithinQuota` | the same |
| | `CapturesStayCurrent`, `IndexesAgree` | `PendingIsCurrent`, `IndexEtagIsCommitted` | `HeadShowsChecksum` |
| | `CommitsAreOwn` | `CommitsWhatWasReserved`, with concurrent requests too | `HeadShowsChecksum` |
| | `BrokerPublishesInOrder` | the broker implements `IndexPublication` | `HeadShowsChecksum` |
| | `CommittedStaysStored`, `OneRequestKeepsStored` | `CommittedIsStored` | `HeadShowsChecksum`, `~LatePuts`; and `[]Apart`, or one worker |
| account | `AccountTyped` | the types of rows, sessions, requests and deletions | the module's assumptions |
| | `AccountLeavesNothing` | `NothingSurvives` | the same |
| | `CheckoutsAreAdmitted`, `StripeDecidesAccess` | `CheckoutIsAdmitted`, `AccessFollowsStripe` | the same |
| | `PaidAccountsAreKept` | `PaidIsKept`: the cron job begins no deletion of what is paid for | the same |
| lock | `TheftOnly`, `FileIsRemoved` | `OverlapOnlyByTheft`, `LeftOnlyByCrash` | the module's assumptions |
| | `NeverAllRefused` | `RefusedForAnother` (trivial where pids are reused) | the same |
| retrieval | `RetrievalTypes` | the types of the archive, the cache, the log and the commands | the module's assumptions |
| | `AnswersAreCurrent`, `CacheForgetsNothing` | `AnswerIsCurrent`, `NothingIsForgotten` | the same |
| | `PagesReadWhole` | `PagesAreWhole`: for sessions of any length, pages cut anywhere | the same, of which `TurnsAssumption` is what it turns on |
| sweep | `SweepTypes` | the sweep's types, faults included | the module's assumptions |
| | `SkipsAreSafe` | `SkipsOnlyArchived` | the module's assumptions (the property speaks of states before any fault) |
| doctor | `DoctorMissesNothing` | `AllClearIsTrue`: a doctor beside no sweep that does not say "problem" has overlooked no gap | the module's assumptions |
| | `DoctorIsAccurate` | `DoctorIsRight`: nor does it invent one | `ExactTimes` |
| restore | `RestoreTypes` | `Typed`: the types, and that a restore works through each file of the unit once | the module's assumptions |
| | `RestoresWhatWasRecorded` | `RestoredAsRecorded` | the same |
| | `UnforcedIsSafe`, `SupersededIsOlder` | `UnforcedLosesNothing`, `SupersededHoldsNothingMore` | the same |
| snapshots | `SnapshotTypes` | the types, kills and rot included | the module's assumptions |
| | `SweepsHold`, `RestoresTheSnapshot` | `SweptIsHeld`, `RestoredIsTheSnapshot` | the same |
| | `NothingLiveIsReplaced` | `LiveDatabaseIsKept`: a restore renames only where it saw no database | the same |
| publication | `IndexIsBacked` | `IndexNamesUploaded` | the module's assumptions |
| | `PublicationKeeps` | `PublishedIsKept` | the same |
| | `MirrorFollows` | `MirrorIsBacked` | the same |
| link | `LinkTypes`, `TokensStayCurrent` | `TypeOK`, `TokenIsCurrent` | the module's assumptions |
| | `PollsAreHonoured` | `SlowDownIsHonoured` | the same |
| setup | `SetupTypes`, `IdentityStays`, `LedgerStays` | `TypeOK`, `IdentityIsKept`, `LedgerFollowsConfig` | the module's assumptions |
| | `ScheduledOnce`, `DoctorIsNotFooled` | `OneSchedule`, `DoctorSeesTheJob` | the same |

None of these invariants is inductive as it stands. What each needs:

**Broker: the index.** A request may hold in its hands an object it saw long ago and
complete a reservation with it. `IndexInv` adds a chain of facts. At most one row per
object is pending (`OnePending`); a row's content was encrypted for its own sweep
(`OwnCiphertext`); the head is the content of a completed index row
(`HeadWasReserved`); an index row's base is the first head or was published before
it (`BaseWasPublished`); once a row is completed the head is no longer its base
(`HeadHasMoved`), because no two sweeps share a ciphertext, so the fourth statement of
`completeReservation`, which runs again for a row somebody else has completed, finds
nothing to do; and a request about to complete a row holds that row's content
(`SettlesOwn`), which is where the checksum is needed. `SweepFrozen` needs only that
admission counts inside the inserting transaction. The refinement then has one
lemma for each kind of transaction: reservations, completions and expiries map to
`Seal`, `Commit`, `Publish` and `Abandon`, all else to stuttering.

**Broker: the bytes.** `AccountInv`: what a pending row replaces is what the ledger
holds of its object (`ReplacesCommitted`), and a request settles a row with an object
of its length (`SettlesLength`, true with and without checksums). Then each batch moves
a counter by what the sums move: lemmas give the sum over a set with an element
more, or with one value changed. They are proved of the library's
`SumFunctionOnSet` by taking a smallest set that fails, since the induction theorems,
which take an operator, cannot be used; the pages of a session are joined in the same
way (`Least`).

**Broker: the objects.** `CommittedIsStored` is false with two concurrent requests
(section 4), so the theorem names what it needs: `Apart`, that no two requests are
between `head()` and the end of settling rows of *one object*, which the code does
not arrange but usually is so; and that clients stop uploading at the expiry.
`StoredInv` carries the argument of the index to every object (`ObjectChain`), and says
that the bucket holds what is committed or what a pending row has put
(`StoredOrPut`), and that a request's view of it is the present one (`HandledWell`).

**Account.** `DeletionInv`: once a deletion is requested, no upload is admitted, and the
moment fixed then is after the last URL ends; a deletion that has come to its listing
meets no write any more, so what it lists is all there is, whichever other deletion
runs beside it. `CheckoutInv`: a session that can still be paid, *and a request that
may still open one*, stands for the admission. `SubscriptionInv`: the stored
subscription is an event that was handled, and of one subscription the latest
handled one.

**Lock.** `FileInv`: until a theft, whoever is inside is named by the file, and a file
names nobody who left. `Learnt` and `LetIn`: a caller is turned away by a live owner it
has read or by a second `link` that failed, and either way somebody got in; it needs
that the ghost's pid stays dead.

**Retrieval.** Signatures stand for bytes, and the argument is what a signature tells.
`RowsInv` says of every row, in the cache, its log or a database being built, that its
bytes are no newer than the newest the file has had and its signature no newer than its
bytes (`SoundRow`): the catalog is made before the units are read. So a row whose
signature is the file's present one has the file's present bytes
(`UnchangedIsGood`), and a refresh may skip it. `CatInv` ties the catalog of a command
to what the files held since it began, and `WorkInv` says that the rows of the units
whose turn has passed are right (`GoodRow`). A query answers after it released the
lock: by `FreshRows` and `RereadInv`, whoever refreshes or rebuilds meanwhile got the
lock after it, so its catalog and its rows are of what the files held while the query
ran. Each step is one
of eight shapes (`Shapes`), so that each part of the invariant has a case per shape
and not per action. For the pages, `Follows` says that each begins where the one before
it ended and shows what is between in the text of the *first* page, as long as the turns that
were there have kept their numbers.

**Sweep.** `SweepInv` is a chain of inequalities for each file: the copy's time is at
most its record's, which is at most the source's, and the record's size is at most
the copied version, which is at most the source's, with equal times implying that
nothing was lost; and the same for the job in hand (`JobLags`) and what was listed
(`Listed`). `compressFile` takes the time *before* it reads, which is what makes it
true, and the rename before `utimes` is what makes it false after a kill.

**Doctor.** `ReconcileInv` says of a doctor no sweep runs beside that what it has read
of the archive is still so (`ViewIsCurrent`), that what it listed of a session is not
behind the copy (`ListedLater`), and that its gaps and notes are those of the sessions
and copies behind it (`Progress`). An "ok" is right for any rounding of times; that a
"problem" is needs `ExactTimes`: `reconcile.ts` compares the time of a copy with that of
its record, which differ where `utimes` rounds.

**Restore.** `RestoredAsRecorded` needs that a restore works through every file of the
unit once (`PlansAreSound`), what it has written so far (`RestoredSoFar`), and that no
file it has looked at and nobody has written since is newer (`NoneIsNewer`). The
other two compare contents, of which the code knows nothing: `HistoryInv` says where
every version came from. In each archive and in what a restore has taken, a later
version has a turn the earlier lacks (`OwnIsOrdered`, `ForeignIsOrdered`,
`TakenIsOrdered`), and a version dated later than the live file has a turn *it*
lacks (`LiveIsLatest`); all of it only while no restore has touched the session
(`Untouched`), as a restore brings back an older version under its old date. A live
file that is not newer than the record then holds nothing the record lacks.

**Snapshots.** `FilesAreWritten`: the files of the directory a sweep is making hold its
capture up to the step it has reached. `Unraced`: after the restore's last look there
is no database, and after the clearing no log, unless the harness has made one.

**Publication.** `Ledgered`: what the ledger calls uploaded is on the remote, in that
version or a later one. `Boxed`: a run's outbox is exactly the copies that are later
than the ledger says. `Carried`: each of them is waiting, flying, stored, or the run
has failed, and a run past its uploads has none waiting. Together they give that the
index put next is backed, under every fault, because each step writes the object
before anything that says so. `PublishedIsKept` adds `Owned`: a machine that has
published, or has looked and found nothing, has in its archive every session the
published index names. `MirrorInv` carries this to the other machine: its copies are
behind the remote's and never dated after their bytes (`Behind`), and what a pull has
verified against the index it downloaded at its start stays so (`Pulled`), although
the publication goes on beside it.

**Link.** `Excluded`: at most one command is inside the credential lock (nobody
breaks it, which is also why a kill is fatal). `Newest`: what a command is about to
save is the newest token of its credential. `Unshared`: a credential that a new link
has not stored yet is nobody else's. Rereading the file inside the lock, and saving
before the lock is released, are what the argument turns on. The device flow needs
that its interval and what GitHub has asked for grow by the same five seconds, up to
the cut.

**Setup.** `Secured`: every recipient that the configuration, the link or a reader
holds, or a command is about to write, has its key in a kit; it rests on the wizard
delivering the kit before it uses the key, and survives a link that writes a stale
configuration back. `Migrated`: a reader moves the state piece by piece and saves
version 2 last, so every command that has got past its load sees version 2 and all
of the state moved, whichever reader did it. `ScheduleInv` follows a command through its
steps (`Staged`): what is loaded, linked and on disk at each of them, from whatever
state earlier commands and logins left, where `Clean` says that nothing is loaded that
the marker and the artifacts do not show. `dirty`, which a command that was cut short
sets, lifts only what such a command leaves behind.

Only model-checked:

* the liveness properties and the repair of the index (liveness under fairness is
  outside this prover's reach): `ReservationsAreReleased`, `EveryCallDecides`,
  `EverySessionIsArchived`, `ArchiveSettles`, `IndexIsRepaired`,
  `SessionsReachTheMirror`, `EveryCallEnds`, `SilenceIsReported`;
* what the readers make of the lines of a session (`GrowthKeepsTurns`,
  `StatusTellsAll`, and `TurnsAssumption`, which the paging is proved from): `Readers`
  folds over sequences with operators as arguments, and what such a fold gives for
  every input only an induction over data would tell. TLC evaluates the three, the
  first two over every session of three lines.

## 6. What is not modelled

* *Harness adapters*: the walk of each harness's store and its formats are pure
  input; what the sweep takes from them is in `ArchiveSweep`. *Destination setup*:
  dialogues and OAuth exchanges with third parties. *Operational log*: lines appended
  and rotated; the stamps that are read again are in `Publication` and `Scheduler`.
  *Command line*: argument parsing and output (the steps of a command are in the
  module of the component it drives). *Web site*: static pages, used as the statement
  of what the tool promises.
* *Broker and account*: downloads (reads), which error `diagnoseReservation` names,
  rate limits, several accounts (every statement is keyed by the user), signatures of
  webhooks, events of foreign prices or customers (refused without a change), the
  purge of old events, the cost alert, listings of more than a page of objects.
* *Publication and mirror*: a change of recipient or of the rclone configuration (it
  makes every record stale), the retry of rate-limited calls, an rclone child that
  outlives its parent, unreadable names, the stamp of the mirror.
* *Link*: several GitHub accounts, the format and signature of tokens, the recipient
  check of a recovery kit.
* *Restore*: the containment of paths, the download of an off-box restore as such and
  the text of the kit. *Retrieval*: what a filter or an SQL statement selects,
  ranking, snippets, the repair of pasted SQL, a path that changes its unit.
  *Doctor*: the environment, off-box and mirror facts, each of which reads one stamp
  or makes one file system call; database units in the reconciliation.
* Everywhere: failed writes to D1, R2 or the disk that no fault above names, the
  cryptography of age, the wording of errors, file systems that round a time *up*,
  clocks that go back, sources that shrink.
