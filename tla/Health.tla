------------------------------- MODULE Health -------------------------------
(***************************************************************************)
(* database_health() of health.py: one report put together from reads of   *)
(* the database, its directory and its backups, none of which it locks.    *)
(* Between two reads others go on: they write, migrate, restore, take and  *)
(* rotate backups.                                                         *)
(***************************************************************************)
EXTENDS Integers, Sequences, SequencesExt

CONSTANTS
    HeadRevision,   \* the newest revision of this build, 0 if it has none
    Oldest, Newest, \* the backups that may ever exist, in order of time
    FreshFrom,      \* the first backup that is not stale
    Name,           \* the names of directories and files
    Location,       \* the path of the database file
    Tables,         \* mount tables: what is mounted where
    MaxChanges      \* bound: the changes around the calls of one behaviour

Backup == Oldest .. Newest
NoBackup == Oldest - 1

ASSUME Revisions == HeadRevision \in Nat
ASSUME Ages == Oldest \in Int /\ Newest \in Int /\ FreshFrom \in Backup
ASSUME Paths == Location \in Seq(Name)
ASSUME MountTables == \A t \in Tables : t \subseteq [point : Seq(Name), network : BOOLEAN]
ASSUME OncePerPoint == \A t \in Tables : \A m, n \in t : m.point = n.point => m = n
ASSUME Bound == MaxChanges \in Nat

VARIABLES
    \* What a call is made with:
    dialect,        \* "sqlite" or "postgresql"
    runner,         \* whether a MigrationRunner is given
    mounts,         \* /proc/mounts
    \* What others change meanwhile:
    database,       \* "sound", "damaged", or "unusable": no statement runs
    locked,         \* a writer elsewhere holds SQLite's lock
    revision,       \* the version row, 0 if there is none
    space,          \* "enough", "low" or "unknown"
    backups,        \* the files in the backups directory
    sidecar,        \* whether there is a <db>-wal
    \* The call:
    pc,
    found,          \* the reasons its locals stand for so far, then the report's
    listing,        \* entries of the backups directory still to be looked at
    probe,          \* the entry that was seen to be a file
    newest,         \* the newest time stamp so far
    result,         \* how the last call ended
    \* Observations, which no step reads:
    ever,           \* what held at some moment of the call
    always,         \* what held at every moment of it
    changes

call == <<dialect, runner, mounts>>
world == <<database, locked, revision, space, backups, sidecar>>
locals == <<pc, found, listing, probe, newest, result>>
observed == <<ever, always, changes>>
vars == <<call, world, locals, observed>>

-----------------------------------------------------------------------------
(* What a report is about *)

Above == {m \in mounts : IsPrefix(m.point, Location)}

\* Mutant: by the shortest mount point above the file.
NetworkFilesystem_Shallow ==
    \E m \in Above : m.network /\ \A n \in Above : Len(m.point) <= Len(n.point)

\* is_network_filesystem(): by the longest mount point above the file; without
\* one the answer is "undetermined", which is no reason.
NetworkFilesystem ==
    \E m \in Above : m.network /\ \A n \in Above : Len(n.point) <= Len(m.point)

Known == 1 .. HeadRevision

\* current is not at the head, and not a revision of this build.
IsAhead(current) == current # 0 /\ current \notin Known

IsPending(current) == HeadRevision # 0 /\ current # HeadRevision /\ ~IsAhead(current)

Stale(b) == b # NoBackup /\ b < FreshFrom

Reasons == {"ahead", "pending", "integrity", "space", "backup", "network"}

\* The condition that reason c reports, in the present state.
Holds(c) ==
    CASE c = "ahead" -> runner /\ IsAhead(revision)
      [] c = "pending" -> runner /\ IsPending(revision)
      [] c = "integrity" -> dialect = "sqlite" /\ database # "sound"
      [] c = "space" -> space = "low"
      [] c = "backup" -> dialect = "sqlite" /\ backups # {} /\ \A b \in backups : Stale(b)
      [] c = "network" ->
            /\ dialect = "sqlite"
            /\ \E m \in Above : m.network /\ \A n \in Above : IsPrefix(n.point, m.point)

Causes == {"locked", "unusable", "rotated", "swapped"}

Holding ==
    {c \in Reasons : Holds(c)}
    \union (IF locked THEN {"locked"} ELSE {})
    \union (IF database = "unusable" THEN {"unusable"} ELSE {})

PC == {"idle", "integrity", "version", "journal", "size", "sizing", "space",
       "backups", "entries", "entry", "network", "revision", "verdict"}

WorldOK ==
    /\ dialect \in {"sqlite", "postgresql"}
    /\ runner \in BOOLEAN
    /\ mounts \in Tables
    /\ database \in {"sound", "damaged", "unusable"}
    /\ locked \in BOOLEAN
    /\ revision \in 0 .. HeadRevision + 1
    /\ space \in {"enough", "low", "unknown"}
    /\ backups \subseteq Backup
    /\ sidecar \in BOOLEAN

LocalsOK ==
    /\ pc \in PC
    /\ found \subseteq Reasons
    /\ listing \subseteq Backup
    /\ probe \in Backup \union {NoBackup}
    /\ newest \in Backup \union {NoBackup}
    /\ result \in {"none", "ok", "degraded", "unavailable", "raised"}

ObservedOK ==
    /\ ever \subseteq Reasons \union Causes
    /\ always \subseteq Reasons \union Causes
    /\ changes \in 0 .. MaxChanges

TypeOK == WorldOK /\ LocalsOK /\ ObservedOK

Init ==
    /\ dialect \in {"sqlite", "postgresql"}
    /\ runner \in BOOLEAN
    /\ mounts \in Tables
    /\ database = "sound"
    /\ locked = FALSE
    /\ revision \in 0 .. HeadRevision + 1
    /\ space = "enough"
    /\ backups \in {Oldest .. n : n \in Backup \union {NoBackup}}
    /\ sidecar = FALSE
    /\ pc = "idle"
    /\ found = {}
    /\ listing = {}
    /\ probe = NoBackup
    /\ newest = NoBackup
    /\ result = "none"
    /\ ever = {}
    /\ always = {}
    /\ changes = 0

-----------------------------------------------------------------------------
(* The call *)

Step(from, to) == pc = from /\ pc' = to

\* The call goes on, and its report will name c if the condition read was TRUE.
Reads(from, to, c, condition) ==
    /\ Step(from, to)
    /\ found' = IF condition THEN found \union {c} ELSE found
    /\ UNCHANGED <<call, world, listing, probe, newest, result, observed>>

Passes(from, to) ==
    /\ Step(from, to)
    /\ UNCHANGED <<call, world, found, listing, probe, newest, result, observed>>

Returns(from, r) ==
    /\ Step(from, "idle")
    /\ result' = r
    /\ UNCHANGED <<call, world, found, listing, probe, newest, observed>>

\* On SQLite every read is in a BEGIN IMMEDIATE of its own, which the lock of
\* another makes wait, and then fail with StorageBusy.
Blocked == dialect = "sqlite" /\ locked
Unusable == database = "unusable"

Call ==
    /\ Step("idle", "integrity")
    /\ found' = {} /\ listing' = {} /\ probe' = NoBackup /\ newest' = NoBackup
    /\ result' = "none"
    /\ ever' = Holding /\ always' = Holding
    /\ UNCHANGED <<call, world, changes>>

\* Mutant: integrity_check() lets the errors of SQLAlchemy through.
IntegrityCheck_Uncaught ==
    \/ (Blocked \/ Unusable) /\ Returns("integrity", "unavailable")
    \/ /\ ~Blocked /\ ~Unusable
       /\ Reads("integrity", "version", "integrity", dialect = "sqlite" /\ database # "sound")

\* integrity_check() catches the errors of SQLAlchemy on SQLite and none on
\* PostgreSQL; whatever it raises is the one error that the report catches.
IntegrityCheck ==
    \/ Blocked /\ Returns("integrity", "unavailable")
    \/ dialect = "postgresql" /\ Unusable /\ Returns("integrity", "unavailable")
    \/ /\ ~Blocked /\ ~(dialect = "postgresql" /\ Unusable)
       /\ Reads("integrity", "version", "integrity", dialect = "sqlite" /\ database # "sound")

\* _backend_version() and _journal_mode() catch the errors of SQLAlchemy, and
\* StorageBusy is none of them.
Version ==
    \/ Blocked /\ Returns("version", "raised")
    \/ ~Blocked /\ Passes("version", "journal")

JournalMode ==
    \/ Blocked /\ Returns("journal", "raised")
    \/ ~Blocked /\ Passes("journal", "size")

\* database_size_bytes(): each file is looked for, then measured.
Size ==
    \/ dialect = "sqlite" /\ sidecar /\ Passes("size", "sizing")
    \/ dialect = "sqlite" /\ ~sidecar /\ Passes("size", "space")
    \/ dialect = "postgresql" /\ ~Unusable /\ Passes("size", "space")
    \/ dialect = "postgresql" /\ Unusable /\ Returns("size", "raised")

SizeOfSidecar ==
    \/ sidecar /\ Passes("sizing", "space")
    \/ ~sidecar /\ Returns("sizing", "raised")

FreeSpace == Reads("space", "backups", "space", space = "low")

\* _last_backup_age_seconds(): the directory is listed at once, its entries are
\* looked at one by one.
ListBackups ==
    \/ dialect = "postgresql" /\ Passes("backups", "network")
    \/ /\ dialect = "sqlite" /\ Step("backups", "entries")
       /\ listing' = backups
       /\ UNCHANGED <<call, world, found, probe, newest, result, observed>>

IsFile(b) ==
    /\ pc = "entries" /\ b \in listing
    /\ listing' = listing \ {b}
    /\ \/ b \in backups /\ pc' = "entry" /\ probe' = b
       \/ b \notin backups /\ UNCHANGED <<pc, probe>>
    /\ UNCHANGED <<call, world, found, newest, result, observed>>

TimeStamp ==
    \/ /\ probe \in backups /\ Step("entry", "entries")
       /\ newest' = IF newest < probe THEN probe ELSE newest
       /\ UNCHANGED <<call, world, found, listing, probe, result, observed>>
    \/ probe \notin backups /\ Returns("entry", "raised")

BackupAge == listing = {} /\ Reads("entries", "network", "backup", Stale(newest))

Network == Reads("network", "revision", "network", dialect = "sqlite" /\ NetworkFilesystem)

\* Mutant: without a version row there is nothing to compare.
CurrentRevision_Truthy ==
    \/ ~runner /\ Passes("revision", "verdict")
    \/ runner /\ (Blocked \/ Unusable) /\ Returns("revision", "raised")
    \/ /\ runner /\ ~Blocked /\ ~Unusable
       /\ IF IsAhead(revision)
          THEN Reads("revision", "verdict", "ahead", TRUE)
          ELSE Reads("revision", "verdict", "pending", revision # 0 /\ IsPending(revision))

\* runner.current() catches nothing.
CurrentRevision ==
    \/ ~runner /\ Passes("revision", "verdict")
    \/ runner /\ (Blocked \/ Unusable) /\ Returns("revision", "raised")
    \/ /\ runner /\ ~Blocked /\ ~Unusable
       /\ IF IsAhead(revision)
          THEN Reads("revision", "verdict", "ahead", TRUE)
          ELSE Reads("revision", "verdict", "pending", IsPending(revision))

\* Mutant: the status is the first of the reasons.
Verdict_Reason == Returns("verdict", IF found = {} THEN "ok" ELSE CHOOSE c \in found : TRUE)

Verdict == Returns("verdict", IF found = {} THEN "ok" ELSE "degraded")

-----------------------------------------------------------------------------
(* What others do meanwhile *)

Observed ==
    /\ UNCHANGED <<call, locals>>
    /\ changes < MaxChanges /\ changes' = changes + 1
    /\ always' = always \intersect Holding'

Changed == Observed /\ ever' = ever \union Holding'

\* Damage, its repair by a restore, or a server that goes away and comes back.
DatabaseChanges ==
    /\ database' \in {"sound", "damaged", "unusable"} \ {database}
    /\ UNCHANGED <<locked, revision, space, backups, sidecar>>
    /\ Changed

\* A writer elsewhere takes the lock, or frees it.
LockChanges ==
    /\ locked' = ~locked
    /\ UNCHANGED <<database, revision, space, backups, sidecar>>
    /\ Changed

\* A migration, or a restore to another revision.
RevisionChanges ==
    /\ ~locked
    /\ revision' \in (0 .. HeadRevision + 1) \ {revision}
    /\ UNCHANGED <<database, locked, space, backups, sidecar>>
    /\ Changed

SpaceChanges ==
    /\ space' \in {"enough", "low", "unknown"} \ {space}
    /\ UNCHANGED <<database, locked, revision, backups, sidecar>>
    /\ Changed

\* A new backup has the time of now.
BackupTaken(b) ==
    /\ ~Stale(b) /\ \A c \in backups : c < b
    /\ backups' = backups \union {b}
    /\ UNCHANGED <<database, locked, revision, space, sidecar>>
    /\ Changed

\* prune_backups() deletes the oldest first and keeps at least one.
BackupRotated(b) ==
    /\ b \in backups /\ backups # {b} /\ \A c \in backups : b <= c
    /\ backups' = backups \ {b}
    /\ UNCHANGED <<database, locked, revision, space, sidecar>>
    /\ Observed
    /\ ever' = ever \union Holding' \union {"rotated"}

\* A connection elsewhere makes a log.
SidecarMade ==
    /\ ~sidecar /\ sidecar' = TRUE
    /\ UNCHANGED <<database, locked, revision, space, backups>>
    /\ Changed

\* A restore, or the last connection to close, removes it.
SidecarRemoved ==
    /\ sidecar /\ sidecar' = FALSE
    /\ UNCHANGED <<database, locked, revision, space, backups>>
    /\ Observed
    /\ ever' = ever \union Holding' \union {"swapped"}

-----------------------------------------------------------------------------

Report ==
    \/ IntegrityCheck \/ Version \/ JournalMode \/ Size \/ SizeOfSidecar
    \/ FreeSpace \/ ListBackups \/ (\E b \in Backup : IsFile(b)) \/ TimeStamp
    \/ BackupAge \/ Network \/ CurrentRevision \/ Verdict

Environment ==
    \/ DatabaseChanges \/ LockChanges \/ RevisionChanges \/ SpaceChanges
    \/ (\E b \in Backup : BackupTaken(b) \/ BackupRotated(b))
    \/ SidecarMade \/ SidecarRemoved

Next == Call \/ Report \/ Environment

Spec == Init /\ [][Next]_vars

-----------------------------------------------------------------------------
(* Properties *)

\* Every reason a report names held at some moment of the call, however its
\* reads interleave with others' work.  Only the age of the backups may be that
\* of a directory that never was, when files were rotated while it was read.
ReasonsWereTrue ==
    \A c \in found : c \in ever \/ (c = "backup" /\ "rotated" \in ever)

Concludes == pc # "idle" /\ pc' = "idle" /\ result' \in {"ok", "degraded"}

\* A condition that holds throughout the call is in its report: the report of a
\* database nobody touches is complete, and "ok" means that nothing was wrong.
NothingIsMissed == [][Concludes => always \intersect Reasons \subseteq found']_vars

\* A call that does not conclude met a lock or a database that did not answer,
\* or a file that went away under it; and it is only for a lock, or for a server,
\* that the database is said to be unavailable.
FailuresHaveACause ==
    /\ result = "unavailable" => IF dialect = "sqlite" THEN "locked" \in ever ELSE "unusable" \in ever
    /\ result = "raised" => ever \intersect Causes # {}

\* database_health() never raises.
NeverRaises == result # "raised"
=============================================================================
