# A verification development of HEDP

HEDP collects data of one household (photovoltaics and battery through
FusionSolar, climate through SwitchBot, and readers of other devices) into one
SQLite file, backs the file up and records operational metrics.  It is a set of
short-lived programs started by launchd, an operator's command line, and a
collector in the cloud (`cloud/gas`) that fills a queue of files as a second
source.  There is no server: the parts meet in the file system, so what is hard
about HEDP is what becomes of files and directories when programs overlap,
fail, time out or are killed.

This directory holds TLA+ models of those parts, the runs of TLC that check
them, and proofs for TLAPS.  `PROJECT.json` lists the runs, the line of source
behind each definition, the hazards and the theorems.

## 1. Inventory

| Component | State it keeps | Operations | Meets | Hard behaviour | Correct if |
|---|---|---|---|---|---|
| Database jobs (`scripts/run_*.sh`, `run_with_timeout.py`) | the lock directory, flags of a running script | launch, mkdir, trap, run a command under a wall-clock limit, record a metric, rmdir | every command that writes the database | kills at any point; a command in a session of its own; lost exit statuses | one script between mkdir and rmdir; the lock comes back; the metric tells what happened |
| Daily collection and backfill (`application.py`, the collectors and builders) | `raw_data`, `records` | collect, backfill-missing, backfill-energy-balance, repair | storage, cloud client | two commits per day, stale lists of missing days, malformed answers | records have evidence; a successful backfill leaves no gap; each day is stored within its window |
| Storage (`storage/database.py`) | the SQLite file | save_rawdata, save_records, date queries, backup | all of the above | backup of a live database, duplicate detection | a fact is stored once; a backup is complete or absent |
| Cloud queue and importer (`cloud/gas`, `gas_queue_importer.py`) | queue files, raw rows, receipts | validate, compare, insert, receipt | storage, without the lock | a conflict blocks the whole queue; partial days; a comparison that is stale in the transaction | a receipt names a row with its answer |
| Daily backup (`run_daily.sh`, `Storage.backup`) | the backup directory | compress, prune, backup, compress, prune | metrics, storage | gzip is neither atomic nor synced; failures between steps; backups and compressions by hand | a good backup goes only for one at least as new |
| Metrics journal (`operational_metrics.py`) | active file, generations, lock directory with `owner.json` | lock, recover a stale lock, rotate, append, release | every job | reading age and owner, and renaming, are three steps; kills in a rotation | one recorder at a time; the newest records are kept |
| Modbus continuity and realtime retry (`modbus_continuity.py`, `run_modbus_realtime.sh`) | state file, boot id, run environment | attempt, retry on transport errors, write evidence | qualification | the retry budget against the deadline | a gap in the evidence is never hidden |
| Modbus client, collector, qualification | a TCP exchange, one `RawData` | read blocks, accept, qualify | continuity, storage | error before or after the response | no retry after a stored answer |
| FusionSolar HTTP client (`client.py`) | session, token, time budget | login, request, one renewed login, redirects | collectors | one budget for all of it | a repeated request carries the renewed session; every call ends |
| Realtime snapshot (`application.py`) | what is collected and failed in a run | Modbus, devices, battery, alarms | client, storage | errors of a request, a collector, the database; a login that wants a person | one part's failure costs no other its rows |
| Report importer (`report_importer.py`) | raw rows, records | read, compare, commit row by row, commit the records | storage | a run that dies between its commits | no cell recorded twice, none lost |
| SwitchBot service, storage, importer | devices, names, observations, events, import runs, gaps | refresh, collect, import, rebuild | archive | renames, vanishing devices, repeated and contradicting rows, death between commits | the names follow the cloud's; an import is whole |
| Archive and compact database (`jsonl_archive.py`, scripts) | bundles, compact databases | write, verify, publish, compare | SwitchBot rows | rows added after the archive; no fsync before the rename | together they hold every row |
| Compressed backups (`compressed_backup.py`) | a `.gz` beside its `.db` | compress, read back, remove the source | daily backup | an older `.gz` there already | the source goes only after its verified copy |
| Shadow execution gate (`shadow_execution.py`) | registry of operations | assess | none (advisory) | order of checks, repetition, restart | an operation passes the first time or never |
| Alarm collector | pages of one answer | fetch pages | client | a list that moves under the pages; answers that are no page | no alarm is lost in silence |
| Smart-LEDZ, Warema readers | frames of a batch; byte buffer | reassemble, match, normalize; feed | none | lost, repeated, damaged and cut frames, notifications in between, lost braces | an answer is read as sent or not at all; a frame of the wire is returned once and in order |
| Miele, Bravia, Qrio, EcoCute readers | none | pure decoding | none | malformed input | total on what they accept |
| Health, explanation, preflight, cutover, release checks | none | reports | database, read only | none | |
| launchd install, configuration migration | plists, configuration | operator actions | jobs | kills of running jobs | (environment of the jobs) |

The interactions that carry the risk: the jobs share one lock directory with
each other but neither with the importer nor with `hedp backup` by hand; the
runner separates a script from its command; the daily script's backup steps
depend on exit statuses that the shell has already reset; several jobs end at
the same moment and record into one journal.

## 2. Modules

| Module | Models | Extended by |
|---|---|---|
| `SharedLock` | the abstract lock ADR 001 promises: free, held, abandoned | `WriterLock` (instance) |
| `WriterLock` | the scripts around the lock directory | `MCWriterLock`, `WriterLockProofs` |
| `Collection` | the three collecting commands and the queue importer over `raw_data` and `records` | `MCCollection`, `CollectionProofs` |
| `DailyBackup` | the backup half of `run_daily.sh` over the backup directory | `MCDailyBackup`, `DailyBackupProofs` |
| `MetricsJournal` | `OperationalMetricsJournal.append` in several processes | `MCMetricsJournal`, `MetricsJournalProofs` |
| `ModbusQualification` | the five-minute Modbus job with its continuity identifier, and the gate that judges the stored snapshots | `MCModbusQualification`, `ModbusQualificationProofs` |
| `CloudSession` | `FusionSolarClient`: login, session test, requests with one renewal, the time budget | `Sources` (an instance, as of all down to `WaremaStream`) |
| `AlarmPages` | one collection of alarms, page by page | |
| `RealtimeSnapshot` | the parts of `collect-realtime` | |
| `GasQueue` | the cloud's queue of answers and its import with receipts | |
| `ReportImport` | the import of station reports | |
| `SwitchBotDevices` | refresh of devices and names, collection with events | |
| `SwitchBotHistory` | the import of exported histories, conflicts, gaps | |
| `ObservationArchive` | bundles of old observations and the compact database | |
| `ShadowGate` | the assessment of intents and its registry | |
| `LedzReader` | one batch of reads from the lighting gateway | |
| `WaremaStream` | the byte stream of the blinds' radio stick | |
| `Sources` | these eleven side by side, with one specification and the properties of each | `MCSources`, `SourcesProofs`, `ImportsProofs` |
| `OrderLemmas` | least and greatest elements, counting up, finite sets as sequences, the parts of sequences, folds and recursive functions step by step | `DailyBackupProofs`, `MetricsJournalProofs`, `SourcesProofs` |

The `MC` modules only give constants their values.  Operators whose comment
begins with *Variant* are plausible mistakes in the code; no action uses them,
they serve to show that each property can fail.

### WriterLock

One process per launchd label, `pc[j]` walking through the common skeleton of
the scripts: `start` (checks), `locked` (after `mkdir`), `run` (trap set),
`wait` and `grace` (the runner waits, or has sent SIGTERM), `report`, `exit`.
`Kind[j]` is what a script makes of its command's status: `single`, `health` (1
is a warning), `retry` (75 is repeated, `run_modbus_realtime.sh`), `list` (the
daily sequence with its flags).  `lockDir` is the directory, which has no owner;
`orphans` counts commands whose script is dead.  `CapturedCode` is always 0
because `run_daily_command` reads `$?` after an `if` without `else`.

`LockHeld` is any failure of the `mkdir` in line 29, of which the code asks no
reason: the directory may be there, or it cannot be made (a full disk, no
permission, no parent), and both end the run with status 0 and are recorded as
`skipped` / `lock_held`.  So a skipped run says nothing of another job; what
holds is that the directory is not there without the script that made it
(`LockHasLiveMaker`).

Abstracted: the clock (a wait may end by exit or by limit at any time), the
number of commands of the list job, the retry loop's budget, the continuity
environment of the Modbus scripts, the metric's other fields.

### Collection

`raw` and `recs` are the two tables; a payload is the number of hours it holds
(`NoData`, `Malformed` aside).  `RawData` keeps `via`, since `metadata` is part
of the duplicate comparison of `save_rawdata`.  Each command is its steps as the
code orders them: find the missing dates, fetch one, commit its raw data, build
and commit its records, after the last one read the window again and build what
has no record.  `StopCommand` is the runner's kill, after which the daily script
goes on to the next command, `StopJob` a kill of all.  `ImportQueue` is one
action because the code does it in one `BEGIN IMMEDIATE` transaction, and it may
happen between any two steps, since no lock keeps it out.

Abstracted: two stations' worth of detail within a payload, times of collection,
receipts and manifests of the queue, the range commands, the realtime snapshots.

### DailyBackup

`file[<<g, s>>]` is what is under the formal name of generation `g`: a database
(`db`) or its compression (`gz`), `good` or `torn`.  `compress1 .. prune2` are
the steps of the script; `status` its flag.  `Storage.backup` publishes with one
rename, so `NewBackup` is atomic, and a temporary file it may leave is read by
nobody and left out.  `GzipFails` includes a gzip stopped by the runner, whose
status the script does not see: SIGTERM lets gzip remove its output, SIGKILL after
the grace does not, and it may come when the output is whole and the source still
there.  After `Crash` the gzip of a dead script may also end by itself, since it
has a session of its own; that it does so within the same step, and not beside a
later script, is an abstraction.

gzip syncs nothing: a `.gz` it has written is in `unsynced` until `WriteBack`, and
`PowerLoss` may tear any of those, the source being gone or not.  It is assumed
that SQLite syncs the `.db` and the tool its `.gz` (they do, the tool by `fsync`),
and that the file system journals changes of the directory in order.

`ToolCompresses` and `ToolEnds` are `compress_verified_backup.py --remove-source`
by an operator at any time, beside the script too: a `.gz` that is there is read
back and compared, one that is missing is written to a partial file, and only then
`tool` names the source that may be removed.  The script then finds a listed file
gone: the compression skips it or fails on it (`SourceIsGone`), the pruning ends
the script, since its `rm` is under `set -e` (`PruneAborts`).

Three histories no action reads: `overtaken`, that a backup by hand followed the
script's own; and `accidents`, what has befallen a `.gz` so far: `stopped`, a gzip
stopped with a partial output while the script goes on; `rewritten`, gzip spoiling
a `.gz` that the tool has verified and whose source it is about to remove;
`unwritten`, a power loss spoiling a `.gz` whose source gzip has removed.

### MetricsJournal

A slot is a job; each append of a slot is a process.  `present`, `owner`, `pid`
and `old` are the lock directory: there, its `owner.json` (absent, created,
written), the process it belongs to (`Nobody` once dead) and whether its mtime
is `stale_lock_seconds` ago.  `ReadAge`, `ReadOwner` and `Detach` are the three
steps of `_recover_stale_lock_if_safe`, each on the path and on whatever is
there by then.  `file[0]` is the active file, `file[g]` a rotated one, and each
`os.replace` is a step.

Abstracted: records of one size; a write that is itself torn; the reuse of a pid
by another program (the lock would then just stay); the clean-up of a detached
directory, which nobody else sees.

### ModbusQualification

The clock `now` counts the intervals of the job.  `state` is
`modbus-continuity.json`, `evidence` what the run's environment carries, `raw` the
stored snapshots; `boot` in a snapshot, and `streak`, are history that no action
reads.  `PrepareWith` is `prepare` with the boot marker it got, `NoMarker` if
`sysctl` gave none; `PrepareFails` is any other end of it, with the state replaced
already or not.  An attempt ends by a transport error (the only end that is
repeated), in `SaveRawData` and `SaveRecords`, the two commits, or in any other way
(`CommandEnds`).  A `Tick` may come at any time: a run that is skipped because the
lock is held, or asleep, is one that does not start, or does not go on, before the
next tick.  `Qualified` is `ModbusQualificationChecker.evaluate`.

Abstracted: seconds within an interval (with them the jitter of start times, the
retry delays and the retry budget), the registers and their decoding, the reports
of the gate other than its verdict.  Commands that outlive their script are left
to `WriterLock`.  The parallel mode of `run_device_realtime.sh`, which replaces
this job and stores snapshots without an identifier, is not modelled.

### CloudSession

One call at a time; `step` is the request it makes next, the five of `login`
among them, and `left` what remains of the operation's time.  `cookie`, `token`,
`sent` and `live` name sessions by number: what the jar holds, what the client
took for its CSRF token, the header of the running request, what the cloud would
accept.  The cloud ends a session at any time and answers anything a step can
tell apart.  Time passes in every request or in none, so a budget alone ends
nothing; the number of redirects and of logins does.

Abstracted: the encryption of the password, URLs but for being outside the
allowed origin, the wording of errors.

### AlarmPages

`alarms` is the cloud's list with the newest first; `Raise` and `Clear` change it
between two pages; a list starts with none to three alarms.  `IsLastPage` has the
rules of `_is_last_page` in their order, over answers that carry a total, a number
of pages, an offset or none of them, and over answers that are no page although
their status is 200 (`Body`): without data, and with hits that are no list, which
count as none.  `seenPages` is the set of page contents that ends a cloud
repeating itself.

Either of those two answers ends a collection as complete, as the code has it, and
whatever was on the later pages is missed without a sign.  `MissedAtMostCleared`
speaks of the collections all of whose answers were pages.

### RealtimeSnapshot

`at` walks through `modbus`, `device`, `battery`, `alarm`.  A request answers, or
fails with a code of `external_errors.py`; a part may raise as a whole, in its
collector or in the database.  The exit status is part of the model.

### GasQueue

A file is an item (source and date) with a payload and a number standing for its
envelope.  `QueueRawData` is the Apps Script under its lock, with the attempt
limit; files may be removed by hand.  The importer validates, compares, and
compares again in the transaction that inserts rows and receipts (the third look,
in front of each insert, cannot differ from the second: the transaction has the
write lock, and `_candidates` lets one payload through for an item), while
`StoreLocal` puts a row of the household in at any time.  `Collection` has
the same transaction beside the steps of the daily job; `GasQueue` has the
receipts, the identities of rows and the queue's own life.

### ReportImport

A sheet is a sequence of cells (key and value).  `CompareReports` is the whole
reading phase, which writes nothing: `Compared` folds `CompareFile` over the
reports and `CompareCell` over the cells of each, against the stored records and
those that are new so far; then each raw row is a step, the records are one
more, and the process may die before each of them.

### SwitchBotDevices, SwitchBotHistory

`SwitchBotDevices` has the tables of devices and names, and the list a process is
working through: `UpsertDevice` is one transaction, `Reconcile` marks the missing,
`EnsureHistory` applies the household's own names (of which `HouseholdAssumption` says
what the configuration does: they are its own, with times), `StoreStatus` and
`RecordEvent` are the two commits of a device's observation and its event; `answered`
is the device that has answered and whose event is still to come, so an event is a
success by the path that led to it.  `Open` is a `valid_to` of NULL.
`SwitchBotHistory` imports exports in batches: `dirty` is what the open transaction
would add, lost if the process dies.  `CanonicalKey` decides what is a duplicate,
`SameTime` what contradicts.

Abstracted: the payloads but for being equal or not, time zones, the hourly
summary.

### ObservationArchive

Rows are month and identity.  A bundle goes through a verified draft to its name
by one rename, a compact database likewise after it was committed; `MatchesRecords`
compares a bundle with the rows of the source.  A bundle is `fresh` until its
contents reach the disk (`WriteBack`): `PowerLoss` tears one before that, a kill
does not.

### ShadowGate

An intent and its evidence are enumerated with what the checks look at.  `Order`
lists the reasons in the order of the code, `Verdict` is the first that applies.
`registry` is emptied by `Restart`: the promise is one of a process.

### LedzReader, WaremaStream

`LedzReader` receives frames of a batch in any order, as copies, damaged, or not
at all, among those of notifications of other contents, which come under the same
ids and may be damaged too.  `Reassembles` and `Joined` are `reassemble`, `Ordered`
its sort by a fragment's index: the indices are tested to be those from 0 without a
gap, so the order is the only one.  `Fragmented` goes by the count as the code does,
not by the flag.  The batch is accepted only with one answer per request.  Assumed
of the gateway: it encodes as `encode_frames` does, so that what it flags as
fragmented has two fragments or more (`ShortLimit > FragmentSize`); a flagged
message of one fragment would be taken without a look at its total length
(`framing.py:106-107`).  Assumed of the transport: no frame of an earlier batch
arrives, since nothing in the code gives out request ids or forgets old frames.

In `WaremaStream` the wire is any sequence of opening braces, closing braces and
texts, so any brace may have been lost; a text may be too short for a frame, or not
ASCII.  A feed takes any number of marks.  `Loop` is the loop of `feed`, a recursive
function of how many marks of the buffer it has deleted.  A frame (`Frames`) goes
from an opening brace to the next closing one, behind no brace that is still open:
where the line lost a closing brace, that is one frame out of two, which the reader
returns if it can be decoded, and neither the model nor the code has a means to
tell.  `maxBuffer` is the limit of the buffer, chosen at the start.

### Sources

The eleven parts share no state but the database's different tables, so their
product has nothing to show and much to enumerate.  `Sources` declares all their
variables and one more, `part`, chosen at the start: a behaviour is one of one
part, each step of it an action of that part's module, and each property of the
run speaks of one part.  `SourcesAssumption` collects what the parts take from
their constants.  `MCSources` is the small instance.

## 3. Runs

| Run | Bounds | Shows |
|---|---|---|
| `WriterLock_jobs` | three jobs (list, retry, health), 2 commands or attempts, 1 kill; 168,926 states | all eight properties below |
| `WriterLock_orphan` | two jobs, 1 kill | violated: `OneWriter` |
| `WriterLock_timeout` | two jobs, no kill | violated: `TimeoutIsReported` |
| `Collection_gaps` | days 2..3 of 3, window 2, 2 hours, malformed answers, imports of day 1; 255,162 states | safety of the tables |
| `Collection_reach` | the last day 3, window of days 1..2, malformed answers, with fairness; 13,689 states | every day of the window is stored, also behind a malformed one |
| `Collection_partial_day` | days 1..2, window 2 | violated: `PastDaysAreComplete` |
| `DailyBackup_daily` | 3 generations, retention 2; 335,606 states | backups outlive failures, kills and the tool |
| `DailyBackup_torn` | 3 generations, retention 1 | violated: `GoodBackupOutlived` |
| `MetricsJournal_append` | two recorders, 2 generations, 1 record per file, 4 records, 2 kills, slow holders; 352,006 states | exclusion, retention, recovery |
| `MetricsJournal_steal` | two recorders, 1 kill | violated: `OneRecorder` |
| `Sources_parts` | eleven instances, see below; 439,186 states | one property or more of each part |
| `ModbusQualification_gate` | window of 2 intervals, 6 intervals, 2 attempts, 2 accidents; 2,389,173 states | what qualifies is unbroken, and the gate can be passed |

Properties, and what could break them:

- `LockHasOneOwner`, `OnlyOwnerRemovesLock`: a skipped or misconfigured run, or
  one killed before its trap is set, must leave the directory alone.
- `ImplementsSharedLock`: the directory and the program counters together behave
  as `SharedLock`, with `holder` as the mapping.
- `OneWriterUntilKill`: a command that ignores SIGTERM is dead before the lock
  is free.
- `MetricTellsTheRun`: the outcome is computed from flags that have gone through
  several commands.
- `LockHasLiveMaker`, `LockIsReleased`: without kills the directory is not there
  without its maker, whatever fails under `set -e` or is skipped, and the lock
  always comes back.
- `RecordsHaveEvidence`, `BackfillLeavesNoGap`: kills between the two commits,
  imports that store no records, days that fell out of a list read earlier.
- `WindowIsCollected`: a malformed answer ends a repair pass and must not keep
  later days from ever being stored.
- `GoodBackupOutlived`, `KeepsOnlyComplete`, `CleanRunIsTidy`: what pruning counts
  and removes after any combination of failures, kills, power losses, backups and
  compressions by hand.  The first is about every step before a `rewritten` or an
  `unwritten` accident, which may take the only copy of a generation, the second
  about the time before any accident, the third about every run that no backup by
  hand has overtaken.
- `OneRecorderUntilStale`: nobody takes a lock from its holder until it is old.
- `NewestKeptWithoutHole`, `FilesAreBounded`, `GenerationsAreKept`: a kill between
  two renames must cost the oldest records and never those in the middle.
- `AbandonedIsRecovered`: a dead recorder must not silence the others for good.
- `IdentifierNamesOneBoot`, `QualifiedIsUnbroken`: a reboot together with a missing
  marker, a lost state file, a failed or delayed run must not leave the old
  identifier in use.
- `UndisturbedQualifies`: an incomplete snapshot, an unknown boot, a late snapshot
  must not keep the gate shut for longer than the window.
- `OneSnapshotPerRun`: no attempt that may have stored something is repeated.
- `RenewalIsUsed`, `CallEnds`: the token of the repeated request is set by hand
  after the login; redirects are counted per login and logins per call.
- `MissedAtMostCleared`: alarms that come in push others to the next page and are
  then seen twice; one that is cleared pulls one forward past the reader, which
  the collector cannot notice.
- `PartsAreIsolated`: three layers of handlers, and one failure (a login that
  wants a person) that is meant to end the run.
- `ReceiptNamesRow`: the comparison outside the transaction is stale by the time
  of the transaction.
- `ReportsAreWhole`, `HistoryIsWhole`: a run that died is repeated over its own
  rows and must not count, add or contradict them twice.
- `NamesFollowTheApi`: an upsert ends one name and opens the next in different
  statements, with the household's names in the same table.
- `CompactIsWhole`: a row added to an archived month must be in the bundle or in
  the compact database; the exception for a torn bundle is what a missing fsync
  costs.
- `PassesFirstOrNever`: the duplicate check comes last, so what an earlier check
  stopped has to be remembered too.
- `ReadersAreExact`: no checksum anywhere; lengths, counts, indices and braces must
  do.  A frame that cannot be decoded costs the frames before it in its own feed and
  none behind it.

Why the bounds are enough.  Two commands of the list show a failure followed by a
success; two attempts show a retry.  A kill needs a second job to do harm, and a third
job shows skipping beside both.  A window of two days in a calendar that moves once
has an older day that is due for the last time and a newer one that was collected on
the day itself; in `Collection_reach` both are missing from the start, and a malformed
answer for the older one ends the repair before the newer.  Three backups are two that
are kept and one that is made, with up to six names between them.  Four records in
three files make the first rotation that removes something; two kills reach a kill in
the recovery from another. `NextDay` happens between jobs only: a job starts at 03:00
and each of its commands is limited to a quarter of an hour.  Six intervals leave two
for accidents before the four that a window of two needs; two accidents make a
reboot meet any other failure. In `Sources_parts` two redirects, three sessions and
a budget of two show a renewal that fails again; pages of two among four alarms have
a first, a middle and a last page; two items with two answers make a conflict beside
a file that has none (two files are made in all, so the attempt limit never binds in
this run, and no property needs it to); four exports hold a repeated row, a
contradiction, a second format and rows that run backwards, in batches of two; two
months with a row added after the archive; four frames of a batch are the two
fragments of a long answer beside those of another, of a notification of the same
length or of a damaged copy; five marks on the wire are two frames of which one has
lost a brace, and buffers of two and of five marks overflow in the middle of a frame
and not at all. `LastTick` ends the clock, `MaxFaults` bounds accidents. `MaxGen`
and `MaxAppends` end a model as a full disk would; `MaxKills` and `MaxCrashes` bound
accidents. `QueueDays` bounds which days the cloud queue holds, `Oddities` which
unusual answers the cloud may give.

Fairness.  `WriterLock`: a launched script goes on; this is justified because
every command has a wall-clock limit after which the runner kills it, and
everything else a script does is local.  Nothing is assumed of launches, of
`Abort` or of kills.  `Collection`: launchd starts the job again and again (weak
fairness of `StartJob` and of the commands' steps), and fetches, look-ups and
commits that are tried infinitely often succeed infinitely often (strong
fairness): without it the cloud could refuse for ever.  `MetricsJournal`: jobs end
again and again, a started recorder goes on, and an untouched lock gets old.
`Sources_parts` has one fairness
condition that a property needs, on the client's steps: each request has a timeout,
so each returns.
`DailyBackup` is checked for safety; its `FairSpec` says that a script that is
not killed goes on.

## 4. What the code does against its documents

- `WriterLock_orphan`: ADR 001 adopts the lock because it prevents simultaneous
  writes.  The runner puts the command into a session of its own, so ending the
  script (`launchctl bootout`, `kickstart -k`) removes the lock and leaves the
  command writing beside the next job's.
- `WriterLock_timeout`: `docs/operational-metrics.md` says a wall-clock timeout is
  recorded as `timed_out`; the daily script has lost the status by then and
  records `failed`.
- `Collection_partial_day`: the README says missing days are refetched; the day
  collected at 03:00 holds its first hours and counts as present ever after.
- `DailyBackup_torn`: `docs/backup-capacity-recovery.md` says older generations go
  only after the new one is known to be good; a gzip that is killed before it
  cleans up leaves a truncated file that pruning takes for the newest one.  The run
  keeps one name; with two, the good `.db` beside the truncated `.gz` is kept
  (`BackupsAreOutlived`).
- `MetricsJournal_steal`: the lock is to serialise append and rotation; two
  recorders that found the same dead lock rename by path, and the slower one
  takes the fresh lock of the one that came in between.

The conditions in the passing properties mark the same limits: `kills = 0` in
`LockHasLiveMaker` (a SIGKILL leaves a directory nobody removes),
`crashes = 0` in `GenerationsAreKept` (a kill between two renames makes the next
rotation drop a generation that was just moved up), the accidents in
`GoodBackupOutlived` and `KeepsOnlyComplete`, the answers that are no page in
`MissedAtMostCleared`.

## 5. Proofs

For any jobs, kills, windows, days, answers, generations and sizes, under the
named assumptions on the constants (natural numbers, non-empty windows, kinds of
scripts; the names of jobs differ from the marks `free`, `abandoned`, `nobody`):

- `WriterLockProofs`.  `TypeCorrect`.  `MutualExclusion`, from the inductive
  invariant `LockInv`: whoever is between `mkdir` and `rmdir` is alone there and
  the directory exists.  Exclusion alone is not inductive, since `mkdir` tests the
  directory and not the other scripts.  `SingleWriter` adds that there are no
  orphans before the first kill.  `OwnerRemoves` is an action property from the
  same invariant.  `LockRefinement` maps each step to a step of `SharedLock` or a
  stutter with the mapping `holder`; the invariant makes its `CHOOSE` unique.
  `MetricCorrect`, from `MetricInv`: which exit statuses a run may have seen at
  each place of the script, by the kind of script; what the metric says is not
  inductive, since the outcome is computed from flags several commands have passed.
  `OwnerIsAlive`: before the first kill the directory is only there while its maker
  is alive, whichever way scripts fail.
- `CollectionProofs`.  `TypeCorrect`; `EvidenceCorrect`, strengthened by what is
  in the process (`pending` in the build phase, and the repair list, are
  stored rows).
  `BackfillCorrect`, from `GapInv`: while a backfill goes through its list, each day
  of the window is still in the list, is being saved, or is there, and in the repair
  pass each row read is still to be built or has records.
- `DailyBackupProofs`, with no assumption on gzip or on when the tool runs.
  `TypeCorrect`; `PrunesOnlyBehindComplete` and `CleanRunsAreTidy` for any retention;
  `BackupsAreOutlived` for a retention of at least two, which `DailyBackup_torn` shows
  to be needed; `UndisturbedBackupsAreOutlived` for any retention as long as no
  accident has happened.  All from `BackupInv`: which names there can be and which of
  them the two lists may hold, that what the tool is about to remove has a complete
  copy until gzip has spoilt one behind it, that a newer name than each one being
  removed stays, that a torn file has its source beside it and is replaced in the
  first compression of the next run, and that the newest generation has a complete
  name.  Pruning by names keeps two of the newest, which with a retention of two
  cannot both be the torn one.
- `MetricsJournalProofs`.  `TypeCorrect`; `ExclusiveUntilStale` from `HolderInv`:
  until a lock is old, every process between `mkdir` and `rmdir` owns the
  directory that is there and no process is about to rename.  `NewestAreKept`,
  `FilesStayBounded`, `FullGenerationsAreKept`, from `JournalInv`: where a rotation
  is, as far as the files show it, and that without a crash the generations are
  full up to the oldest but for the hole that a rotation moves down.
- `ModbusQualificationProofs`.  `TypeCorrect`.  `IdentifiersSeparateBoots`, from
  `IdInv`: identifiers are fresh, the state file names the boot of the snapshots
  that carry its identifier or none, and a run collects in the boot in which it
  got its identifier.  The property alone is not inductive, since `prepare` sees
  the state file and not the snapshots.  `QualifiedWithoutReboot` follows.
  `RunsStoreOnce`: a run that can still collect has stored nothing.
  `UndisturbedIsQualified`, from `StreakInv`: the members of the streak are the last
  snapshots without a gap, from the second on with the state file's identifier.
- `SourcesProofs` and `ImportsProofs` are about `Sources`, whose every step is one
  of a part (`CloudBehaves` and so on), so that what is inductive for the part holds
  in it.
  - Cloud session: `CloudTypeCorrect`, with the limit of redirects and the bounds of
    the budget, and `CloudRenewalCorrect`.
  - Archive: `ArchiveCorrect`, from `ArchiveInv`: no draft is of a month that has a
    bundle, so a published bundle is never replaced, and a compact database is whole
    before it gets its name.
  - Gate: `GatePassesOnce`: whatever was assessed is in the registry, so a verdict of
    a duplicate means it was there before.
  - Snapshot: `SnapshotTypeCorrect`, and `SnapshotIsolatesParts`, from `SnapshotInv`:
    parts behind the running one are untouched, those before it stored and asked for
    all their targets, and only a request for a person leaves parts out.
  - Alarms: `AlarmsTypeCorrect`, from `AlarmsTyped`: the list and what was cleared are
    together no more than what was raised, so the list stays within its bound.
    `AlarmsCorrect`, from `AlarmsInv`: until an answer is no page, what the collection
    has neither collected nor ahead of it is at most as much as was cleared.  `Raise`
    moves nothing there, `Clear` one alarm at most, and a page that is not the last
    was full.
  - SwitchBot names: `DevicesNamesCorrect`, from `DevicesInv`: the names of one device
    in a row of times, the last open and the device's own, none of a device
    still in the list from this list's time.
  - Queue: `QueueReceiptsCorrect`, from `QueueInv`: no two files of the queue hold one
    answer of one item, and those an import goes on with differ in their items.
    Without it two rows of one transaction could be for one item, which no look at
    the table shows.  Rows are only appended, so receipts stay true.
  - Histories: `HistoryCorrect`, from `ReadingsInv`: what the property says of the
    committed tables holds of them with the open transaction too, since a commit takes
    it over and a death drops it, and the rows of the export counted so far are there.
  - Reports: `ReportsTypeCorrect`; `ReportsCorrect`, from `SheetsInv`: while a run
    writes, those of its raw rows it has saved are found in the table, the keys of the
    records and of what it is about to record are all different, and every cell it
    read is recorded or about to be.  That the comparison establishes this is an
    argument along its two folds, cell by cell and file by file.
  - Smart-LEDZ: `LedzTypeCorrect`; `LedzCorrect`, from `LedzInv`: what was normalized
    is the answer that the gateway gave.  The argument is about `Read`: damaged or
    not, fragments of one request with all the indices and together of the declared
    length are the fragments of the payload that was sent, so a damaged one among
    them would be missing in the length, and one of a notification is told by its flag.
  - Warema: `WaremaTypeCorrect`; `WaremaCorrect`, from `WaremaInv`: there is a place of
    the wire such that the buffer is what was fed behind it, what was returned are
    frames before it in rising order, and each decodable frame that begins before it
    was returned or a feed raised over its beginning.  `Loop` moves the place forward
    from closing brace to closing brace (`WaremaWalked`), whatever stands between them.
    The property alone is not inductive: which frames the next feed completes depends
    on where the buffer begins and which open braces it has lost.
  - `ReadersCorrect` joins the two readers to the property of the run, and
    `TypesCorrect` the types of all eleven parts.

The libraries define what a finite set in a sequence, the set of a sequence's
elements, a fold or a flattened sequence is by recursion or choice, and tell the
provers nothing of what they compute.  `OrderLemmas` proves what is needed of them
from the order of the natural numbers (`LeastOfSet`, `CountUp`): a fold has
its value one element after the other (`FoldExists`), a function that is defined by
recursion on smaller or on greater numbers exists (`UpwardExists`,
`DownwardExists`), and a flattened sequence is the first part before the rest
(`FlattenUnfolds`).

The proofs asked for two clarifications in the models, which change nothing of their
behaviour: alternatives of a `CASE` that overlap, in the comparison of reports and in
the cloud queue, are now written as the nested conditions of the code, and the
order of the fragments is by their indices alone.

Only model-checked: the liveness properties (`LockIsReleased`,
`WindowIsCollected`, `AbandonedIsRecovered`, `CallEnds`), which are out of reach of
the provers.  Every other property of a passing run is a theorem.

## 6. Plan

Done: all modules of section 2, with their runs; the proofs of section 5.
Next:

1. The rest of the Modbus path: the exchange on the wire, the seconds of the retry
   budget, the parallel mode of `run_device_realtime.sh`.
2. The rest of the FusionSolar job beside the lock and the snapshot: what the health
   report concludes from rows another job is writing.

## 7. Not modelled

- Reports without state of their own: daily health, the solar explanation, the
  metrics report, preflight, post-cutover, release readiness.
- Pure maps from one answer to one record: Bravia, Qrio, EcoCute, Miele (whose
  `parse_events` takes one complete text), the registers of the inverter, the
  fields of a weather frame or a light.  They have no order, failure or state
  between two calls, and a model would only repeat their tables.
- The hourly SwitchBot summary: averages over floating-point readings in SQL.
- Installation, configuration and its migration: an operator runs them while no
  job does; what they do to running jobs is the kill actions of `WriterLock`.
- The Apps Script's login and triggers; the restoration tests of a backup and of
  a bundle, which leave nothing behind.
- Formatting, logging, argument parsing, generated reports, fixtures, documents.
