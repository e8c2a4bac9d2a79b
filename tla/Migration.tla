----------------------------- MODULE Migration -----------------------------
(***************************************************************************)
(* MigrationRunner of migrations.py on SQLite: upgrade() and downgrade()   *)
(* take a backup, let Alembic apply one revision after the other, and put  *)
(* the backup back when it raises.  Several runners share the database: a  *)
(* service and a command line, or two services that migrate at startup.    *)
(*                                                                         *)
(* A database file is an inode; restore() puts a fresh inode at the path,  *)
(* and a connection keeps the inode it was opened on.  restore() itself is *)
(* one step here; module Restore takes it apart.                           *)
(*                                                                         *)
(* The history of revisions is linear: 0 is the unmigrated database,       *)
(* Newest the newest revision of this build, Newest + 1 one of a newer     *)
(* build.                                                                  *)
(***************************************************************************)
EXTENDS Integers, Sequences, FiniteSets

CONSTANTS
    Runner,         \* the processes that migrate
    Row,            \* the rows applications may commit
    Inode,          \* the files the file system can hold
    Newest,         \* the newest revision this build knows
    First,          \* the revisions the database may be found at
    Direction,      \* the calls that are made: "upgrade", "downgrade"
    Keep,           \* backup_retention
    MaxBackups,     \* bound: no call once so many backups were taken
    Crashes         \* TRUE if a runner may be killed

ASSUME Revisions == Newest \in Nat \ {0} /\ First \subseteq 0..(Newest + 1)
ASSUME Bounds == Keep \in Nat /\ MaxBackups \in Nat
ASSUME Processes ==
    /\ IsFiniteSet(Runner) /\ IsFiniteSet(Inode)
    /\ Cardinality(Inode) >= Cardinality(Runner) + 2    \* restore() finds a fresh one
    /\ Direction \subseteq {"upgrade", "downgrade"}
    /\ Crashes \in BOOLEAN

Revision == 0..(Newest + 1)

Content == [rev: Revision, applied: SUBSET Revision, rows: SUBSET Row]

VARIABLES
    file,       \* the content of each inode
    path,       \* the inode at the database's path
    backups,    \* the pre-migration-* files, oldest first
    clock,      \* the time stamp of the newest backup
    conn,       \* the inode a runner's pool has open; {} if it is empty
    locked,     \* whether a runner's connection holds the write lock
    pc,         \* where _run() is, "idle" outside a call
    call,       \* the arguments of the call: direction, target, backup
    from,       \* the local from_revision
    saved,      \* the time stamp in the local backup_path; 0 for None
    heads,      \* the revision Alembic believes the database is at
    result,     \* how the last call ended
    \* Observations, which no step reads:
    before,     \* the content at the path when the call was made
    raced,      \* where the call was when another changed the database at the path
    reached,    \* the revision of the last successful call
    committed   \* the rows applications were told are committed

locals == <<call, from, saved, heads>>
observed == <<before, raced, reached, committed>>
vars == <<file, path, backups, clock, conn, locked, pc, locals, result, observed>>

-----------------------------------------------------------------------------

Results == {"none", "noop", "ok", "restored", "failed", "error"}

PC == {"idle", "backup", "migrate", "revise", "failed", "restored", "outcome"}

\* Between a look at the database and what relies on it.
Exposed == {"backup", "restored", "outcome"}

Calls == [direction: {"upgrade", "downgrade"}, target: 0..Newest, backup: BOOLEAN]

Backup == [stamp: Nat, name: Revision, content: Content]

TypeOK ==
    /\ file \in [Inode -> Content]
    /\ path \in Inode
    /\ backups \in Seq(Backup)
    /\ clock \in Nat
    /\ conn \in [Runner -> SUBSET Inode]
    /\ locked \in [Runner -> BOOLEAN]
    /\ pc \in [Runner -> PC]
    /\ call \in [Runner -> Calls]
    /\ from \in [Runner -> Revision]
    /\ saved \in [Runner -> Nat]
    /\ heads \in [Runner -> Int]
    /\ result \in [Runner -> Results]
    /\ before \in [Runner -> Content]
    /\ raced \in [Runner -> SUBSET (Exposed \union {"idle"})]
    /\ reached \in Revision
    /\ committed \in SUBSET Row

\* The database at revision r, with no rows yet.
Fresh(r) == [rev |-> r, applied |-> 1..r, rows |-> {}]

Init ==
    /\ \E r \in First :
          /\ file = [i \in Inode |-> Fresh(r)]
          /\ before = [w \in Runner |-> Fresh(r)]
          /\ reached = r
    /\ path = CHOOSE i \in Inode : TRUE
    /\ backups = <<>>
    /\ clock = 0
    /\ conn = [w \in Runner |-> {}]
    /\ locked = [w \in Runner |-> FALSE]
    /\ pc = [w \in Runner |-> "idle"]
    /\ call = [w \in Runner |-> [direction |-> "upgrade", target |-> Newest, backup |-> TRUE]]
    /\ from = [w \in Runner |-> 0]
    /\ saved = [w \in Runner |-> 0]
    /\ heads = [w \in Runner |-> 0]
    /\ result = [w \in Runner |-> "none"]
    /\ raced = [w \in Runner |-> {}]
    /\ committed = {}

-----------------------------------------------------------------------------
(* Connections, locks and files *)

\* The inode that a connection from w's pool reads: the one it has open, or the
\* one at the path when the pool is empty.
Reads(w) == IF conn[w] = {} THEN path ELSE CHOOSE i \in conn[w] : TRUE

\* Every ordinary transaction, a migration's included, is BEGIN IMMEDIATE.
Free(w, i) == \A v \in Runner \ {w} : ~(locked[v] /\ conn[v] = {i})

\* Mutant: the oldest backups are the ones kept.
Rotated_Oldest(seq) == IF Len(seq) <= Keep THEN seq ELSE SubSeq(seq, 1, Keep)

\* The newest Keep backups, after one more was taken.
Rotated(seq) == IF Len(seq) <= Keep THEN seq ELSE SubSeq(seq, Len(seq) - Keep + 1, Len(seq))

Kept(stamp) == \E k \in DOMAIN backups : backups[k].stamp = stamp

\* A file that is neither at the path nor held open by a runner is gone.
Unused(i) == i # path /\ \A v \in Runner : i \notin conn[v]

\* The runner changes the database at the path under the calls of the others.
Overtakes(w) ==
    raced' = [v \in Runner |-> IF v = w THEN raced[v] ELSE raced[v] \union ({pc[v]} \intersect Exposed)]

Goto(w, from_, to) == pc[w] = from_ /\ pc' = [pc EXCEPT ![w] = to]

Return(w, from_, r) == Goto(w, from_, "idle") /\ result' = [result EXCEPT ![w] = r]

-----------------------------------------------------------------------------
(* _run() *)

\* current(): a transaction of its own; its connection stays in the pool.
Call(w, c) ==
    LET i == Reads(w)
        r == file[i].rev
        backup == c.backup /\ r # 0
    IN
    /\ clock < MaxBackups
    /\ Free(w, i)
    /\ conn' = [conn EXCEPT ![w] = {i}]
    /\ from' = [from EXCEPT ![w] = r]
    /\ call' = [call EXCEPT ![w] = c]
    /\ saved' = [saved EXCEPT ![w] = 0]
    /\ before' = [before EXCEPT ![w] = file[path]]
    /\ raced' = [raced EXCEPT ![w] = IF i = path THEN {} ELSE {"idle"}]
    /\ \/ c.target = r /\ Return(w, "idle", "noop")
       \/ /\ c.target # r
          /\ Goto(w, "idle", IF backup THEN "backup" ELSE "migrate")
          /\ UNCHANGED result
    /\ UNCHANGED <<file, path, backups, clock, locked, heads, reached, committed>>

\* StorageBusy from current() leaves _run() before anything was done, but for the
\* connection in the pool.
CallBusy(w) ==
    /\ clock < MaxBackups
    /\ ~Free(w, Reads(w))
    /\ conn' = [conn EXCEPT ![w] = {Reads(w)}]
    /\ Return(w, "idle", "error")
    /\ UNCHANGED <<file, path, backups, clock, locked, locals, observed>>

\* backup() opens the path itself, not a pooled connection, reads through any
\* writer, and rotates.  It may raise after the rotation: retention 0 rotates out
\* the new backup too, and its size can no longer be read, as when others do that.
TakeBackup(w) ==
    /\ clock' = clock + 1
    /\ backups' = Rotated(Append(backups,
          [stamp |-> clock', name |-> from[w], content |-> file[path]]))
    /\ saved' = [saved EXCEPT ![w] = clock']
    /\ \/ Keep > 0 /\ Goto(w, "backup", "migrate") /\ UNCHANGED result
       \/ Return(w, "backup", "error")
    /\ UNCHANGED <<file, path, conn, locked, call, from, heads, observed>>

\* backup() raises with no backup made, outside the try of _run(): nothing has
\* been migrated and nothing is restored.
BackupFails(w) ==
    /\ Return(w, "backup", "error")
    /\ UNCHANGED <<file, path, backups, clock, conn, locked, locals, observed>>

\* Alembic reads the revision in the transaction that the first revision commits.
\* It refuses a revision it does not know, and a downgrade that would go up.
Begin(w) ==
    LET i == Reads(w)
        r == file[i].rev
        c == call[w]
        refused == r > Newest \/ (c.direction = "downgrade" /\ r < c.target)
        done == r = c.target \/ (c.direction = "upgrade" /\ c.target < r)
    IN
    /\ Free(w, i)
    /\ conn' = [conn EXCEPT ![w] = {i}]
    /\ heads' = [heads EXCEPT ![w] = r]
    /\ \/ refused /\ Goto(w, "migrate", "failed") /\ UNCHANGED locked
       \/ ~refused /\ done /\ Goto(w, "migrate", "outcome") /\ UNCHANGED locked
       \/ /\ ~refused /\ ~done
          /\ Goto(w, "migrate", "revise")
          /\ locked' = [locked EXCEPT ![w] = TRUE]
    /\ UNCHANGED <<file, path, backups, clock, call, from, saved, result, observed>>

\* Mutant: a downgrade that goes up.
NextRevision_Up(w) == heads[w] + 1

NextRevision(w) == IF call[w].direction = "upgrade" THEN heads[w] + 1 ELSE heads[w] - 1

\* The schema after the script between the runner's heads and the next revision.
Scripted(w, s) ==
    IF call[w].direction = "upgrade" THEN s \union {NextRevision(w)} ELSE s \ {heads[w]}

\* The file that the next revision makes of f.
Revised(w, f) ==
    [rev |-> NextRevision(w), applied |-> Scripted(w, f.applied), rows |-> f.rows]

\* Mutant: the version row is set without looking at what it holds.
Revise_Blind(w) ==
    LET i == Reads(w) IN
    /\ locked[w]
    /\ file' = [file EXCEPT ![i] = Revised(w, @)]
    /\ heads' = [heads EXCEPT ![w] = NextRevision(w)]
    /\ locked' = [locked EXCEPT ![w] = FALSE]
    /\ Goto(w, "revise", IF heads'[w] = call[w].target THEN "outcome" ELSE "revise")
    /\ IF i = path THEN Overtakes(w) ELSE UNCHANGED raced
    /\ UNCHANGED <<path, backups, clock, conn, call, from, saved, result, before, reached, committed>>

\* Mutant: one revision is taken for all of them.
Revise_Once(w) ==
    LET i == Reads(w) IN
    /\ locked[w]
    /\ file[i].rev = heads[w]
    /\ file' = [file EXCEPT ![i] = Revised(w, @)]
    /\ heads' = [heads EXCEPT ![w] = NextRevision(w)]
    /\ locked' = [locked EXCEPT ![w] = FALSE]
    /\ Goto(w, "revise", "outcome")
    /\ IF i = path THEN Overtakes(w) ELSE UNCHANGED raced
    /\ UNCHANGED <<path, backups, clock, conn, call, from, saved, result, before, reached, committed>>

\* One revision: its script, the version row, COMMIT.  SQLite's DDL is not in one
\* transaction with the next revision's: the lock is free in between.  The row
\* must still hold the revision the script started from.
Revise(w) ==
    LET i == Reads(w) IN
    /\ locked[w]
    /\ file[i].rev = heads[w]
    /\ file' = [file EXCEPT ![i] = Revised(w, @)]
    /\ heads' = [heads EXCEPT ![w] = NextRevision(w)]
    /\ locked' = [locked EXCEPT ![w] = FALSE]
    /\ Goto(w, "revise", IF heads'[w] = call[w].target THEN "outcome" ELSE "revise")
    /\ IF i = path THEN Overtakes(w) ELSE UNCHANGED raced
    /\ UNCHANGED <<path, backups, clock, conn, call, from, saved, result, before, reached, committed>>

NextBegin(w) ==
    /\ pc[w] = "revise" /\ ~locked[w]
    /\ Free(w, Reads(w))
    /\ locked' = [locked EXCEPT ![w] = TRUE]
    /\ UNCHANGED <<file, path, backups, clock, conn, pc, locals, result, observed>>

\* Mutant: a revision that raises is tried again.
Raise_Retry(w) ==
    /\ locked[w]
    /\ Goto(w, "revise", "revise")
    /\ locked' = [locked EXCEPT ![w] = FALSE]
    /\ UNCHANGED <<file, path, backups, clock, conn, locals, result, observed>>

\* A script raises, or finds a revision that another runner moved: the block is
\* left with a rollback.
Raise(w) ==
    /\ locked[w]
    /\ Goto(w, "revise", "failed")
    /\ locked' = [locked EXCEPT ![w] = FALSE]
    /\ UNCHANGED <<file, path, backups, clock, conn, locals, result, observed>>

\* The lock was not free within the busy timeout.
Busy(w) ==
    /\ pc[w] = "migrate" \/ (pc[w] = "revise" /\ ~locked[w])
    /\ ~Free(w, Reads(w))
    /\ pc' = [pc EXCEPT ![w] = "failed"]
    /\ UNCHANGED <<file, path, backups, clock, conn, locked, locals, result, observed>>

\* Mutant: the restore is reported before it is done.
Restore_Unswapped(w) ==
    /\ saved[w] # 0
    /\ Kept(saved[w])
    /\ Goto(w, "failed", "restored")
    /\ UNCHANGED <<file, path, backups, clock, conn, locked, locals, result, observed>>

\* restore() of the runner's own backup: a fresh file at the path, an empty pool.
Restore(w) ==
    /\ saved[w] # 0
    /\ \E k \in DOMAIN backups, i \in Inode :
          /\ backups[k].stamp = saved[w]
          /\ backups[k].content.rev <= Newest
          /\ Unused(i)
          /\ file' = [file EXCEPT ![i] = backups[k].content]
          /\ path' = i
    /\ conn' = [conn EXCEPT ![w] = {}]
    /\ Overtakes(w)
    /\ Goto(w, "failed", "restored")
    /\ UNCHANGED <<backups, clock, locked, locals, result, before, reached, committed>>

\* The message names the revision reached; to read it takes a new connection and
\* the lock.
Reached(w) ==
    /\ conn' = [conn EXCEPT ![w] = {Reads(w)}]
    /\ Return(w, "restored", IF Free(w, Reads(w)) THEN "restored" ELSE "error")
    /\ UNCHANGED <<file, path, backups, clock, locked, locals, observed>>

\* restore() refuses the backup, rotated out meanwhile or at a revision this
\* build does not know, and its error replaces MigrationFailed.
RestoreRefused(w) ==
    /\ saved[w] # 0
    /\ \A k \in DOMAIN backups : backups[k].stamp = saved[w] => backups[k].content.rev > Newest
    /\ Return(w, "failed", "error")
    /\ UNCHANGED <<file, path, backups, clock, conn, locked, locals, observed>>

\* There is no backup to restore; the message names the revision all the same.
NotRestored(w) ==
    /\ saved[w] = 0
    /\ Return(w, "failed", IF Free(w, Reads(w)) THEN "failed" ELSE "error")
    /\ UNCHANGED <<file, path, backups, clock, conn, locked, locals, observed>>

\* to_revision is read in a transaction that may find the lock taken.
Outcome(w) ==
    /\ \/ /\ Free(w, Reads(w))
          /\ Return(w, "outcome", "ok")
          /\ reached' = file[Reads(w)].rev
       \/ /\ ~Free(w, Reads(w))
          /\ Return(w, "outcome", "error")
          /\ UNCHANGED reached
    /\ UNCHANGED <<file, path, backups, clock, conn, locked, locals, before, raced, committed>>

\* A killed process drops its connection; SQLite rolls its transaction back.
Crash(w) ==
    /\ Crashes
    /\ pc[w] # "idle"
    /\ pc' = [pc EXCEPT ![w] = "idle"]
    /\ result' = [result EXCEPT ![w] = "none"]
    /\ conn' = [conn EXCEPT ![w] = {}]
    /\ locked' = [locked EXCEPT ![w] = FALSE]
    /\ UNCHANGED <<file, path, backups, clock, locals, observed>>

\* An application commits through a connection of its own.
AppCommit(r) ==
    /\ r \notin committed
    /\ \A v \in Runner : ~(locked[v] /\ conn[v] = {path})
    /\ file' = [file EXCEPT ![path] =
          [rev |-> @.rev, applied |-> @.applied, rows |-> @.rows \union {r}]]
    /\ committed' = committed \union {r}
    /\ UNCHANGED <<path, backups, clock, conn, locked, pc, locals, result, before, raced, reached>>

-----------------------------------------------------------------------------

\* downgrade() always takes a backup; upgrade() goes to a revision, not to base.
Arguments == {c \in Calls :
    /\ c.direction \in Direction
    /\ IF c.direction = "downgrade" THEN c.backup ELSE c.target > 0}

Run(w) ==
    \/ TakeBackup(w) \/ BackupFails(w)
    \/ Begin(w) \/ Revise(w) \/ NextBegin(w) \/ Raise(w) \/ Busy(w)
    \/ Restore(w) \/ RestoreRefused(w) \/ Reached(w) \/ NotRestored(w) \/ Outcome(w)

Next ==
    \/ \E w \in Runner : Run(w) \/ Crash(w) \/ CallBusy(w) \/ \E c \in Arguments : Call(w, c)
    \/ \E r \in Row : AppCommit(r)

Spec == Init /\ [][Next]_vars

\* A call that was made goes on: a wait for the lock ends with the lock or with
\* the busy timeout.
FairSpec == Spec /\ \A w \in Runner : WF_vars(Run(w))

-----------------------------------------------------------------------------
(* Properties *)

Returns(w) == pc[w] # "idle" /\ pc'[w] = "idle"

\* In every file, and in every backup, the schema is the one the version row
\* names: whoever else migrated between two revisions of a call, no script runs
\* on a schema it was not written for, and none runs half.
SchemaMatchesRevision ==
    /\ \A i \in Inode : file[i].applied = 1..file[i].rev
    /\ \A k \in DOMAIN backups : backups[k].content.applied = 1..backups[k].content.rev

\* From the backup on, until Keep others have been taken, the file a failed
\* migration will be restored from is there, with everything the database held
\* when the call was made, unless another runner changed it before the backup was
\* taken; and it is named for its revision, unless the call read the revision
\* from a file that was no longer at the path (migrations.py:189, 207).
BackupAwaitsFailure ==
    \A w \in Runner :
       /\ pc[w] \in {"migrate", "revise", "failed"} /\ saved[w] # 0
       /\ clock < saved[w] + Keep
       /\ "backup" \notin raced[w]
       => \E k \in DOMAIN backups :
            /\ backups[k].stamp = saved[w]
            /\ backups[k].content.rev = before[w].rev
            /\ before[w].rows \subseteq backups[k].content.rows
            /\ "idle" \notin raced[w] => backups[k].name = backups[k].content.rev

\* MigrationFailed that says the backup was restored leaves the path with the
\* schema and all the rows it had when the call was made, however many revisions
\* were committed before it raised, by whomever, and whatever was restored since:
\* only who changes the database before the backup is taken, or after it was put
\* back, can be seen (migrations.py:229-241).
FailureRestores ==
    [][\A w \in Runner :
          Returns(w) /\ result'[w] = "restored" /\ raced[w] \intersect {"backup", "restored"} = {} =>
             /\ file'[path'].rev = before[w].rev
             /\ file'[path'].applied = before[w].applied
             /\ before[w].rows \subseteq file'[path'].rows]_vars

\* A call that returns an outcome has brought the database at the path to the
\* revision asked for, or found it beyond, unless another changed it since the
\* last revision; or unless the runner's pooled connection is open on a file that
\* is no longer at the path (migrations.py:254).
SuccessReachesTarget ==
    [][\A w \in Runner :
          Returns(w) /\ result'[w] = "ok" /\ conn[w] = {path} /\ "outcome" \notin raced[w] =>
             \/ file'[path'].rev = call[w].target
             \/ call[w].direction = "upgrade" /\ file'[path'].rev > call[w].target]_vars

\* Every call returns: with the lock free again, or with the busy timeout.
CallsReturn == \A w \in Runner : pc[w] # "idle" ~> pc[w] = "idle"

\* A failed upgrade leaves the database as it found it: the restore does not
\* undo the upgrade that another runner has reported as done.
FailureUndoesOnlyItself ==
    [][\A w \in Runner : Returns(w) /\ result'[w] = "restored" =>
          file'[path'].rev >= reached]_vars

\* A migration that raises ends in MigrationFailed, not in another error.
FailureIsReported ==
    [][\A w \in Runner : pc[w] \in {"failed", "restored"} /\ Returns(w) => result'[w] \in {"restored", "failed"}]_vars

=============================================================================
