# WeightsDB in TLA+

Specifications, model-checking runs and machine-checked proofs for `weightsdb`
(`src/src/weightsdb`, 12 modules of Python): the package that the services of
the project use to open, migrate, back up, restore and inspect their SQLite (or
PostgreSQL) database. `PROJECT.json` maps every definition to the lines it
models and lists runs, mutants, findings, hazards and theorems.

Paths like `backup.py:475` are under `src/src/weightsdb/`.

## The system

| Component | State it keeps | Operations | Module |
|---|---|---|---|
| Restore (`backup.py:402-571`) | the database file, its `-wal`/`-shm`, `<db>.pre-restore`, the backup, the engine's pool | `restore`, `_verify_backup_file`, `checkpoint`, `_checkpoint_and_release`, `integrity_check` | `Restore`; abstract: `Swap`, `RestoreSwap` |
| Migrations (`migrations.py`) | the version row and schema in the file, the `pre-migration-*` backups, a pooled connection, the locals of `_run` | `upgrade`, `downgrade`, `current`, `stamp`, `check_parity` | `Migration` |
| Sessions and engine (`session.py`, `engine.py`) | the pool, SQLite's write lock, the pragmas and the transaction of each connection | `session_scope`, `transaction`, the connect and begin hooks, `_raise_if_busy` | `Sessions`; abstract: `Units` |
| Backup and rotation (`backup.py:181-389`) | a directory of backup files | `backup`, `prune_backups`, `backup_revision` | `Backups`; a step of `Migration` |
| Health (`health.py`) | none; reads files, pragmas and settings | `database_health`, `is_network_filesystem` | `Health` |
| Types and upsert (`types.py`) | none; builds statements | `upsert`, `UtcDateTime` | `Upsert`; abstract: `Sightings` |
| Errors, redaction (`errors.py`, `redaction.py`) | none | exception classes, masking of a URL | not modelled |
| Test fixtures (`testing.py`) | temporary databases | fixtures | not modelled |

How they interact: `MigrationRunner._run` calls `backup` before it migrates and
`restore` when Alembic raises; both work on **files**, while everything else
works through the engine's **pool**. `restore` releases the pool of its own
engine, but cannot know the connections other processes have. Every ordinary
transaction is `BEGIN IMMEDIATE` (`engine.py:205-207`), so the write lock of
SQLite is what serialises sessions, revisions and `current()`. `backup` and
`checkpoint` open connections of their own and do not take that lock. Health
reads what all of them write. Nothing in the package is concurrent by itself;
concurrency comes from the processes and threads that use it.

What is hard in it:

* **restore is nine file operations** and is not atomic: a crash, a full disk or
  a deleted source may come between any two, on a database whose last commits
  may be only in its log. What must be true then is that the original still
  exists somewhere, whole; and, when the call returns, that the path holds what
  the call reports.
* **a migration is not one transaction** on SQLite: each revision commits and
  frees the lock, so runners interleave, and the recovery (restore the backup)
  is of the whole file, whoever changed it.
* **connections outlive sessions**, so a pragma, a lock, or a transaction that
  one session leaves is the next one's; and they outlive files, so a connection
  can go on using a file that is no longer at the path.
* **a directory of backups has no lock**: callers write, compress and rotate in
  it at once, by names and modification times, and a file that is being written
  looks like a backup.
* **a health report is a dozen reads**, none in a transaction with another.
* **contention** is resolved by two timeouts (`busy_timeout`, the pool's), which
  are also the only thing that ends a wait of a thread for itself.

## The modules

### Restore

One process restores over its own database; it commits and closes between
calls. Others may open the path while the call replaces what is there, and the
restored file before the call returns. Each statement of `restore()` that
touches a file is an action, named for it, and `pc` is the statement to come:

| Action | Code |
|---|---|
| `Refuse`, `Call` | the checks before anything is touched, `backup.py:444-468` |
| `Checkpoint` | `checkpoint`, `backup.py:146-167`: best effort, its answer is not read |
| `Release` | `_checkpoint_and_release`, `backup.py:170-178`: the pool is disposed |
| `CopyAside`, `CopiedAside` | start and end of the copy to `.pre-restore`, `backup.py:472-476` |
| `DropSidecars` | `backup.py:477-478` |
| `UnlinkTarget`, `TouchTarget` | `_touch_private`, `backup.py:348-356` |
| `CopyIn`, `CopiedIn` | `backup.py:481` |
| `VerifyOk`, `VerifyBad` | `integrity_check`, `backup.py:483-484`; the check opens the file, and so leaves a log behind |
| `Finish`, `DropAside` | `backup.py:499-507` |
| `RollbackRelease`, `PutBack`, `PuttingBack`, `Forget`, `RemoveTarget` | the put-back, `backup.py:485-497` |
| `CopyFails`, `Crash`, `SourcePruned` | what can go wrong: `OSError` in a copy, the process dies, `prune_backups` deletes the source |
| `VerifyBusy` | the begin hook of the verification raises `StorageBusy`, which neither `integrity_check` nor `restore` catches (`engine.py:141-154`) |
| `Intrude` | another process opens the path between the removal of the sidecars and the end of the swap; its log, created beside one file, ends in whatever file is there when it is applied |
| `Join` | another process opens the restored file before the call returns, and may commit. `Finish` then has an alternative: the pool's connection is not the last one, and the log stays (`backup.py:501`) |

A file is nothing, torn, or the set of the rows it holds; the log is the set of
rows its frames add. What a connection reads, `Visible`, is both. A copy has two
steps, with a torn file in between. The sidecars are one variable: `-shm` has no
content of its own. `Faults` says which faults a run includes:

* `checkpoint`: a reader elsewhere pins the log, so that neither the checkpoint
  nor the close empties it;
* `copy`: `OSError` in the middle of a copy;
* `media`: what was copied does not pass its check;
* `crash`, `prune`;
* `users`: `VerifyBusy`, `Intrude` and `Join`.

An intruder may turn the file into anything readable or damaged, the worst it
could do; a process that had the database open **before** the swap writes to an
inode that is no longer at the path, which nothing here reads.

The variables `wanted`, `original`, `lastGood`, `unsettled`, `missed` and
`disturbed` observe. The steps take from them only what the copy reads through
its handle (`wanted`, in `CopiedIn`) and whether others may still be there
(`disturbed`, in `Finish` and `Intrude`). `missed` is TRUE when the
call went on although its checkpoint left commits in the log, the one case in which the promises about the
original fail (finding `restore_lost`). `disturbed` is TRUE when others opened
the path during the swap: then nobody can say what it holds, and the only
promise left is the one about the copy aside, `OriginalRecoverable`, which has
no such exception. The exceptions are in the properties, and not in the model,
so a run with all the faults at once shows that they are the only ones.

`Swap` says what `restore` promises without files: what the database holds is
saved, then the database is exposed, and no result is reported before it holds
the backup or again what was saved. `RestoreSwap` maps the statements to its
phases (`PhaseOf`), `Visible` to its database and `.pre-restore` to what is
saved; `KeepsPromise` is that every behaviour of `Restore` is one of `Swap`.

### Backups

Callers (threads or processes) in one directory. The database is a counter of
its commits, a file a snapshot of it, an empty database, or something that is no
backup (`Partial`). An automatic backup has a name of its own, as the timestamp
gives it one (`migrations.py:315-328`), and rotates its family; an operator
chooses a name, which may be taken, and rotates nothing. Every file operation
is an action: `UnlinkTarget`, `TouchTarget` (`backup.py:348-356`, for the backup
and for the archive), `Connect` (266, the source), `Open` (268, the
destination), `Copy`, `Copied` (`269-272`), `CopyFails` (the `except` at 273, of
the `try` that begins at 267), `SetupFails` (what comes before a `try`: the
destination stays as it is), `CopyRaises` (a damaged database: `DatabaseError` is no
`OperationalError`), `Zip`, `Zipped`, `ZipFails`, `Drop` (`286-301`), `List`,
`Sort`, `Rotate` (`377-389`), `Stat` (`339-345`). `Refuse` is the refusal before
anything is done. `Call`, `CallByOperator` and `CallPrune` begin the three kinds
of calls.

Two things carry the interleavings. A caller **writes to the file it opened**:
`opened` turns FALSE when anybody unlinks that path, and what is written then is
nowhere. And files are rotated by **modification time**: `later[p]` is the set
of files modified after `p`, kept relative because only the order matters; from
the moment the clock went back (`Stamp`) a new file may be placed anywhere in it.
`crossed` observes that a rotation decided while another had decided and was not
done: `BackupRemains` exempts it (see "Seen while modelling"). `Damage`
and `Repair` are what `restore` and disks do to the database meanwhile; a
missing one is created empty by `sqlite3.connect` (`Connect`). PostgreSQL writes
its file with `pg_dump` in the same steps: touch, write, unlink on failure
(`backup.py:302-328`).

### Health

One call of `database_health` at a time, each read a step (`IntegrityCheck` to
`CurrentRevision`, then `Verdict`), and between any two of them the world
changes: the database is damaged, repaired or not reachable, others take the
lock, migrate, fill the disk, take and rotate backups, create and remove the
log. Backups are integers in order of time; mount tables are sets of mount
points, paths sequences of names, and `NetworkFilesystem` is the longest prefix,
as in `health.py:138-147`. `found` is the set of reasons the locals stand for.
`ever` and `always` only observe: what held at some moment, and at every moment,
of the call. The size of the file is modelled for what it may raise.

### Upsert

Units of work, each one `session_scope()` run once around a list of calls of
`upsert()`. A row has an id and columns; a value is told apart by the unit and
the call that wrote it. On SQLite a unit takes the lock at its first statement
(`Begin`, `BusyTimeout`). On PostgreSQL a statement waits for the unit that has
written its key (`Blocker`), until that one ends, `LockTimeout`
(`engine.py:212-235`) or `Deadlock`. `Upserted` is ON CONFLICT DO UPDATE on what
the statement finds, `Set` its `set_` (`types.py:178`). `Enter`, `Commit`,
`Raise`, `Rollback` are `session_scope` (`session.py:61-69`). The unique index
is the database's: a key has at most one row.

`Sightings` is the abstract specification: units take effect at once and
entirely, and what a unit does to a row is computed from its list of calls, not
statement by statement. `OneAfterTheOther` is that `Upsert` implements it.

### Migration

Runners (processes) that share one database. A database file is an **inode**
with a revision, the schema that scripts built and rows; `path` is the inode at
the database's path. `restore()` is one step that puts a fresh inode there, and
a connection keeps the inode it was opened on, as on a POSIX file system. The
history is linear, 0 (unmigrated) to `Newest`, and `Newest + 1` stands for a
revision of a newer build.

`Call` is `_run` until `current()` has been read (`migrations.py:188-208`),
`TakeBackup` the backup with its rotation, after which it may still raise,
`BackupFails` a backup that raises with none made (both outside the `try` of
`_run`: nothing is restored), `Begin` the start of Alembic's
command (the lock, the version row, its refusal of an unknown revision), `Revise`
one revision with its commit, `NextBegin` the lock for the next, `Raise` and
`Busy` the two ways a revision fails, `Restore` with `Reached`, `RestoreRefused`
and `NotRestored` the three ways out of the `except` block
(`migrations.py:226-248`; `Reached` is the `current()` in its message, which needs
the lock again), and `Outcome` the rest. `Crash` and `AppCommit` are the
environment. Alembic is modelled from how the package calls it: it compares
the version row it updates with the one it read, which is what keeps two runners
apart.

`raced[w]` observes where a call was when another runner changed the database at
the path under it, at the three places where it relies on what it has read or
written before: `backup`, `restored` and `outcome`; `idle` is recorded when the
call reads its revision from a file that is no longer at the path. The properties
of a migration name the places at which another runner can spoil them, and no
others.

### Sessions

Sessions, each one `session_scope()` run once, over a pool of connections and
SQLite's lock. `kind` tells how it was declared: a writing session, a
`readonly` one, or one on an `AUTOCOMMIT` connection, as `checkpoint` has
(`engine.py:182-189`). `Parent` says in whose block a session is opened: a
thread is in its innermost block, so the outer session waits. The steps are
`Open`, `Checkout`/`PoolTimeout`, `Hook` (the pragma that the begin hook sets on
every path, `engine.py:190-206`), the three forms of BEGIN and its `BeginBusy`,
`Read`, `Write`/`WriteRefused`, `Raise`, then `Commit` or `Rollback`, then
`Close`. `Refusal` is SQLite's answer to a write: query_only, the lock, a stale
snapshot. `transaction()` refuses a session that has begun; in the block of a
session that always is the case, so it is one of the exceptions `Raise` stands
for.

`Units` says what this promises, without connections, locks and pragmas: a unit
that writes takes the database as it is when it begins (`base`), writes to that,
and commits only while nothing else has been committed, all of it or nothing; a
reader is shown its `base` and nothing else; an autocommit statement takes effect
by itself; and a unit is turned away by others (`Refuse`) only while it works on
no state yet, afterwards it fails by its own doing alone (`Fail`). How the code
sees to that, one lock taken at BEGIN, is not in `Units`. The mapping at the end
of `Sessions` takes the snapshot of a session in its block for `base` and its
writes for `pending`; a unit has ended once its outcome is settled, so the
rollback and the return of the connection are stutters. `KeepsUnits` is that
every behaviour of `Sessions` is one of `Units`.

### Proofs

`Restore_proofs`, `RestoreSwap_proofs`, `Migration_proofs`, `Sessions_proofs`,
`Health_proofs`, `Backups_proofs`, `BackupStays_proofs` and `Upsert_proofs` hold the theorems about
their modules.

## The runs

Every mutant of `PROJECT.json` is a plausible bug in the mapped code (`..._Keep`,
`..._NoReset`, ...), and the property it is listed with fails when it takes the
place of the definition. They are next to the definition in the modules.

| Run | Bounds | What it shows |
|---|---|---|
| `restore` | two rows, any number of calls, all six faults, any initial file with or without a log | `CallInv`: from the unlink on there is no log to be replayed over the new file, and the original is where the statement relies on it. `OriginalRecoverable`: at every moment of a call and after every interruption, the original is at its path or whole in `.pre-restore`. `RestoredIsBackup`, `PutBackIsComplete`: both ways of returning leave what they report. `AsideOutlivesSwap`: the copy is deleted only then. `KeepsPromise`: it implements `Swap` |
| `restore_lost` (violation) | the faults `checkpoint`, `media` | `PutBackIsOriginal`: see the findings |
| `restore_retry` (violation) | the fault `crash` | `OriginalOutlivesRetry`: see the findings |
| `migration` | two runners that upgrade, revisions 0-2 and one unknown, `Keep` 1, calls until two backups were taken, one row, crashes | `BackupAwaitsFailure`: rotation does not take the backup that a call in progress depends on before `Keep` others were taken, and the backup holds the database of the call. `FailureRestores`: a failure that says it restored left schema, revision and rows, whatever the other runner migrated or restored meanwhile. Each with the exceptions it names |
| `migration_two` | two runners, start at revision 1, both directions, no call once a backup was taken | `SchemaMatchesRevision` under every interleaving of two runners' revisions and restores. `SuccessReachesTarget`: a success is at its target, unless the connection is open on a file that was replaced, or the other runner changed the revision since. `CallsReturn` under fairness |
| `migration_undone` (violation) | two runners that upgrade | `FailureUndoesOnlyItself` |
| `migration_ahead` (violation) | one runner, a database of a newer build | `FailureIsReported` |
| `sessions` | three sessions of any kind, the third in the block of the first; two connections, one write each | `WritersContendOnlyAtBegin`: no reader's query_only and no stale snapshot reaches a writer. `ReadersOnlyRead`: a reader takes no lock, waits for none, sees one state. `PoolIsClean`, `AllOrNothing`. `KeepsUnits`: it implements `Units`; with a deferred BEGIN in place of BEGIN IMMEDIATE it does not. `SessionsEnd` under fairness |
| `backups` | two callers, one operator's name, retentions -1 (refused) and 2, two backups, any number of prunings, one commit, one fault of three kinds | `ReportedIsFresh`: an automatic backup that is reported holds what was committed during its call. `PartialsAreOwned`: only crashes, unreadable databases and failures before a `try` leave files that are no backups. `BackupRemains`: rotations, whatever they count, leave a backup when the retention exceeds the partial files there may be and they do not cross. `OwnBackupSurvives`, `OperatorsFilesStay` |
| `health` | one revision and one unknown, three backups of which the first is stale, three mount tables, both dialects, three changes around a call | `ReasonsWereTrue`, `NothingIsMissed`: what a report names was true at some moment, what was true all along is named. `FailuresHaveACause` |
| `health_raises` (violation) | the same with one change | `NeverRaises`: see the findings |
| `upsert` | three units, two keys, five programs (one key, two in either order, one twice, one whose second call updates nothing), both dialects | `OneAfterTheOther`: `Upsert` implements `Sightings`. `FirstSightingStays`. `OneKeyNeverDeadlocks`: a deadlock takes a unit with several keys. `UnitsEnd` under fairness |

Why the bounds are enough to be interesting:

* Two rows give an original and a backup that are equal, overlap or are
  disjoint, and a commit that is only in the log; the number of calls and of
  commits is not bounded (the rows are finite, so the states are). Rows are
  interchangeable, which `SYMMETRY` uses; the runs without symmetry are small.
* Two revisions are needed for a call to fail between them; a third is the
  unknown one. `MaxBackups` bounds the clock: no call starts once so many
  backups exist, and calls in progress go on. With `MaxBackups` 2 a runner may
  call again after another restored, on a connection to the old file, and three
  backups rotate twice at `Keep` 1. With `MaxBackups` 1 two runners still both get
  past the guard before either has a backup. Each exception of the three
  properties is needed: without any one of them TLC finds a violation within these
  bounds. A larger instance (both directions at `MaxBackups` 2: 4.5 million
  states) holds too, but takes longer than a run should. So does `migration_two`
  with crashes, because of its liveness; its two safety properties were checked
  with them apart (163 thousand states up to symmetry) and are proved for any
  number of crashes. Runners are
  interchangeable, and so are inodes (`MCSymmetry`). Inodes: the path, one per runner
  that keeps an old file open, one fresh for a restore; the assumption
  `Processes` says so.
* Three sessions on two connections are the least in which the pool runs dry, a
  connection is used again after another kind of session, and a nested session
  waits for its own thread. One write suffices: a unit of work that was
  interrupted half-way is one that wrote and raised.
* Two backups at the same time are what is new over one. Two calls leave up to
  four files (each raw and compressed), two more than the largest retention;
  prunings are not counted, so rotations cross, and a retention of 1, which two
  callers can never be ample for, is left out. Retention 0 does not occur in the
  run, and once a file is left behind 2 is not ample any more: there
  `BackupRemains` is empty in the run, and only the theorem, which is for every
  retention, speaks of rotations among left files. One fault of each behaviour is
  enough to send the clock back for good. Here the bounds did hide something once:
  two backups and counted prunings pass without `~crossed`, four backups break it.
  All of the run's invariants are therefore proved without the bounds too.
* Three changes around a call of `database_health` suffice to take a backup and
  rotate one while the directory is read, and to take, use and free the lock.
* Three units are the least in which one waits on a row whose writer is rolled
  back while a third has it next; two keys are what a deadlock needs.
* Deadlock checking is off because the programs stop: sessions end, calls run
  out, and an idle database may be left alone.

**Fairness.** `Migration!FairSpec` has weak fairness of each runner's own steps
(`Run`), and none of calls, crashes or applications: a call that was made goes
on. A wait for the lock ends because SQLite's busy timeout is finite
(`engine.py:160-178` sets it on every connection), which is `Busy`. In
`Sessions!FairSpec` the steps of an opened session are fair, opening one is not.
This assumes that blocks end (code of the caller), and that the two timeouts run
out: `BeginBusy` and `PoolTimeout` are ordinary steps, enabled for as long as
the wait lasts. The mutants `Raise_Retry` and `BeginBusy_Never` show that
liveness rests on them. In `Upsert!FairSpec` each unit's own steps are fair;
`LockTimeout` and `Raise` are not, so `UnitsEnd` does not rest on PostgreSQL's
timeouts, which an engine need not have: without them a wait ends because the
unit waited for ends, or is found to be a deadlock.

## What is proved

With `tlapm`, for every value of the constants that satisfies the named
assumptions (`SpecialFiles`, `NobodyIsNone`, ...: model values are not data).
Every listed theorem names the run's property it states.

* `Restore_proofs`, for any set of rows and any set of faults:
  `TypeCorrect`, `CallsAreConsistent` (`CallInv`), `OriginalIsRecoverable`,
  `RestoreKeepsItsPromise`, `PutBackKeepsItsPromise`, `AsideKeepsItsPromise`.
  `SwapInv` is inductive with `TypeOK`: no log from the unlink on, so what is
  verified is what was copied. `OriginalInv` says where the original is at each
  statement; it is not inductive by itself, because a call that was interrupted
  leaves `pc` idle and nothing of it but files. What survives is
  `OriginalRecoverable`, and the two are proved together: a new call starts a
  new `original`, so it owes nothing to the one before, which is precisely why
  the stronger `OriginalOutlivesRetry` fails.
* `RestoreSwap_proofs`: `RestoreImplementsSwap` (`KeepsPromise`). One step of
  `Swap`, or a stutter, for each statement. Beyond the invariants above the
  mapping needs `SavedInv`: from the copy on there is something aside, and a
  call misses commits only where a reader can pin the log.
* `Health_proofs`, for any revisions, backups, numbers of changes, and mount
  tables that name a mount point once (`OncePerPoint`): `TypeCorrect`, `ReasonsAreTrue` (`ReasonsWereTrue`),
  `FailuresAreCaused` (`FailuresHaveACause`), `NothingMissed`
  (`NothingIsMissed`). `ReportInv` says of each local that the condition it was
  read from is in `ever`; `CompleteInv` that a condition in `always` is in
  `found` once the read that looks at it is past. The one that is not a single
  read is the age of the backups: if all files were stale throughout, then so
  are all that the loop has looked at.
* `Backups_proofs`, for any callers, operators' names, retentions and bounds:
  `TypeCorrect`, `OperatorsFilesAreKept` (`OperatorsFilesStay`),
  `PartialsHaveOwners` (`PartialsAreOwned`), `ReportedAreFresh`
  (`ReportedIsFresh`), `OwnBackupIsThere` (`OwnBackupSurvives`). Each step is shown
  to respect the others (`Respects`, `Mild`): of files that are not its own it only
  takes some away. So `OwnInv` can speak of one call alone: from the copy on, its
  file is gone or holds what was committed during the call, and a call whose file
  was taken away writes to no path. `SurvivalInv` adds the order of times:
  while no other automatic backup runs, the file being made has nothing of its
  family after it, so no rotation that keeps one file or more dooms it.
* `BackupStays_proofs`: `BackupStays` (`BackupRemains`), for any finite set of
  callers, any retentions and a clock that may go back. `GoodInv` says that some
  whole file of the family is condemned by no rotation in progress, nor is what
  replaces it while it is compressed. It rests on counting (`Spared`): the
  newest file that a rotation condemns has an ample retention of newer ones, and
  each file left behind and each other caller accounts for at most one of those.
  `FilesInv` says which files a caller accounts for, `OrderInv` that `later` is a
  strict order.
* `Upsert_proofs`, for any units, keys, rows and programs: `TypeCorrect`,
  `DeadlocksTakeTwoKeys` (`OneKeyNeverDeadlocks`), `FirstSightingIsKept`
  (`FirstSightingStays`), and the refinement `UpsertImplementsSightings`
  (`OneAfterTheOther`), from the assumption `NoRowIsNone`. The invariant is
  `UnitInv`: what a unit has written of a key is what `Sightings` makes of the
  unit's calls so far, whoever commits before or after. That there is a first call
  and a latest writer for every row seen is carried along (`Sees`).
* `Migration_proofs`, for any runners, applications, rows and revisions:
  `TypeCorrect` and `SchemaStaysWhole` (`SchemaMatchesRevision`). The inductive
  invariant adds that a runner in the middle of a plan still has revisions to
  run; the rest is in the code: each script checks the version row in the
  transaction it changes it in, and a restore brings schema and row together.
  Also for any number of runners: `BackupIsThere`, `FailureLeavesDatabase` and
  `OutcomeIsAtTarget`. `CallInv` says what a call may rely on at each statement
  as long as it was not overtaken there. A step of another runner is shown to
  leave all of that (`Left`, `OthersLeft`): it changes neither the locals nor the
  connection of the call, takes no backup away but by rotation, and either leaves
  revision and rows at the path or is recorded in `raced`. `Stamped` says that the
  backups are the last `Keep` of those taken, so whether one is still there is
  a matter of how many were taken since (`StampedKeeps`). Retention 0 needs no
  exception: then no call gets as far as to depend on its backup.
* `Sessions_proofs`, for any sessions, nesting, pool and number of writes:
  `TypeCorrect`, `PoolStaysClean`, `WritersBeginOrFail`, `ReadersRead`,
  `UnitsAreAtomic` and `SessionsImplementUnits`. The inductive invariant says who holds
  which connection (`PoolInv`), what a session at each point of `session_scope`
  may rely on (`BlockInv`: a writer in its block has the lock, a reader has
  query_only and never the lock, an autocommit session neither has the lock
  nor a snapshot), and that whoever has the lock sees the last commit
  (`LockInv`). `SessionsImplementUnits` (`KeepsUnits`) rests on the same
  invariant: a step changes what one session is to `Units` and nothing of another
  (`Acts`, `View`), so each statement is one step of `Units` or a stutter; that a
  commit finds `base` still to be the database is `LockInv` (a deferred BEGIN
  would read before it has the lock), that a refusal finds
  no `base` is `BlockInv`.

Only model-checked: liveness (`SessionsEnd`, `CallsReturn`, `UnitsEnd`), which
these provers do not do, and the five violations below, which are counterexamples.

## Findings

Where the code does something else than its documentation says (the quotes are
in `PROJECT.json`):

1. **`restore_lost`**. `restore()` goes on when its checkpoint left commits in
   the log, and then unlinks the log. If the restored file fails its check, "the
   original database has already been put back", without those commits.
2. **`restore_retry`**. After a crash between the unlink and the end of the
   copy, the original is only in `.pre-restore`. A second `restore()`, the
   obvious next command, copies the half-restored file over it before any
   restored file was checked.
3. **`migration_undone`**. Two services that upgrade at startup: the loser of
   the lock times out, fails, and restores the backup it took before the winner
   finished. The winner's upgrade, already reported, is undone.
4. **`migration_ahead`**. On a database of a newer build Alembic raises, and the
   automatic restore refuses the backup just taken for the same reason, so the
   caller gets that `DatabaseError` and not `MigrationFailed` with both
   outcomes.

5. **`health_raises`**. `database_health` "never raises", but only
   `integrity_check` is in its `try`. A writer that takes the lock after it, and
   keeps it for longer than the busy timeout, makes the next BEGIN IMMEDIATE
   raise `StorageBusy`, which `except SQLAlchemyError` lets through; a backup
   rotated out, or a log removed, between `is_file()` and `stat()` raises
   `FileNotFoundError`.

Seen while modelling, without a run of their own:

* With several runners, one that was migrating when another restored goes on
  with the file that was unlinked, and may report success (`migrations.py:254`
  reads the revision through the same connection). `SuccessReachesTarget` exempts
  precisely that: a connection that is not open on the file at the path. A runner
  that was idle then names its next backup for the revision of the old file.
* After a restore that succeeded, `MigrationFailed` is composed with one more
  `current()` (`migrations.py:241`). If another runner has taken the lock by then,
  `StorageBusy` replaces it, and the caller does not learn that the backup was
  put back.
* `errors.py:45-46` says that on SQLite the backup has been restored by the time
  `MigrationFailed` is raised. On an unmigrated database, or with
  `backup=False`, there is none to restore (`NotRestored`).
* A row that an application commits between the backup and the failure is gone
  after the automatic restore: nothing holds the lock in between.
  `FailureRestores` therefore speaks of the rows committed before the call.
* The revision in a backup's name is read in an earlier transaction than its
  content; another runner can change it in between (`BackupAwaitsFailure` exempts
  that).
* With retention 0 `backup` deletes what it has just written, and then reads its
  size (`backup.py:340-343`). A negative one is refused only after the backup
  was written.
* Rotation counts what is being written, and what a crash left, as backups
  (`backup.py:381-385`). While a backup is compressed there are two files of it.
  With a small retention and concurrent callers that costs the newest whole
  backup: `BackupRemains` needs `Ample`, `OwnBackupSurvives` a call alone.
* A rotation deletes what it decided on when it listed, however long ago. Of two
  whole backups a caller decides to delete the older one and is held up; the clock
  goes back; the other caller writes a third, is given the oldest time of all, and
  rotates: the files the first has condemned count among those it keeps. Then the
  first goes on, and nothing is left, at any retention that four backups exceed.
  `BackupRemains` exempts rotations that decide while another deletes (`crossed`).
* A candidate that another caller's rotation deletes before it is sorted raises
  `FileNotFoundError` out of `backup` (`backup.py:383`), although the backup has
  been written.
* `restore` returns with the file "checkpointed and sidecar-free exactly as the
  backup was" (`backup.py:499-500`) only if nobody else has opened it since it was
  copied: with another connection `engine.dispose()` is not the last close and
  `-wal` and `-shm` stay. `RestoredIsBackup` exempts that (`disturbed`).
* The connection to the source (`backup.py:266`) and `_touch_private` are outside
  the `try` that removes the destination: when they fail, the empty file stays,
  and rotation counts it from then on (`SetupFails`).
* The destination is unlinked before the backup is written (`backup.py:265`): when
  the call fails, an operator who named an existing backup has neither.
* A damaged database raises `sqlite3.DatabaseError`, which `except
  sqlite3.OperationalError` does not catch (`backup.py:273`): the caller gets no
  `DatabaseError` of this package and the empty destination stays.
* If the database goes away between `is_file` and `sqlite3.connect`
  (`backup.py:260-266`), which a `restore` in another process makes happen,
  `connect` creates it empty, and the backup of that is reported as a success.
* `sqlite3.Connection.backup` with its default `pages` copies all pages in one
  step, in one read transaction; `backup.py:226` says "never holds a lock for
  longer than a single page copy".
* `integrity_check` takes SQLite's write lock (BEGIN IMMEDIATE) for as long as
  it runs, so every health report makes writers wait.
* A health report counts half-written backups as fresh; a SQLite file that
  cannot be opened is "degraded", and "unavailable" is left for a held lock.
  Of two mounts on one mount point `max` takes the first, which the later one
  hides; `absolute()` does not resolve symlinks.
* An upsert's values are computed before its unit has the lock or the row, so
  a `last_seen_at` may go back; `upsert` with every column in `no_update` has an
  empty `set_`, which raises `ValueError`.
* `spec.md:231` wants two concurrent upserts of one key to end in one row and no
  error; a busy or a lock timeout is still possible.

## What is not modelled, and why

* PostgreSQL where the code only starts a program or refuses: `pg_dump`, beyond
  what it shares with the SQLite copy, and `restore`, which names the command to
  run. `Migration` is SQLite's.
* `stamp()` writes a revision without its schema, on purpose, and so breaks
  `SchemaMatchesRevision` by definition. `check_parity()` only reads.
* A process that opened the database before a restore and goes on with the
  unlinked file: what it commits is in no file that anything here reads.
* `reclaimable_bytes` and `backup_revision`, which only read. `UtcDateTime`,
  `PortableJSON` and the column helpers convert values and keep no state.
* Permissions (`0600`), messages, redaction, the pragmas without a protocol
  (`foreign_keys`, `secure_delete`, ...), fixtures.
* Power loss: SQLite syncs what it commits, `restore()` copies without `fsync`;
  `Crash` is a process that is killed, not a machine.

## Plan

1. **Composition**: migrations whose backup and restore are the steps of
   `Backups` and `Restore` and not one step each, to see what a migration may
   rely on when its own backup is rotated by others while it is written.
2. **PostgreSQL migrations**: one transaction for all revisions, no backup, which
   `Migration` leaves out.
