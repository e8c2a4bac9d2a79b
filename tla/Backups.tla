------------------------------ MODULE Backups ------------------------------
(***************************************************************************)
(* backup() and prune_backups() of backup.py, on a directory several       *)
(* callers share: the backup is written under its own name, compressed     *)
(* beside itself, and the rotation counts every file of the family, whole  *)
(* or not, by its modification time.                                       *)
(*                                                                         *)
(* The content of the database is the number of its commits.  A file of    *)
(* the directory holds such a snapshot, the empty database sqlite3 makes   *)
(* of a missing one, or something that is no backup.                       *)
(***************************************************************************)
EXTENDS Integers, FiniteSets

CONSTANTS
    Callers,        \* the threads and processes that take backups
    Operators,      \* the file names operators choose; they rotate nothing
    Retentions,     \* the values of `keep` the automatic backups use
    MaxCalls,       \* bound on the backups; an automatic one has a name of its own
    MaxCommits,     \* bound on the commits of the application
    MaxFaults       \* bound on the faults; each kind happens once

Absent == -3        \* no such file
Partial == -2       \* empty, torn, half compressed: no backup
Blank == -1         \* an empty database
Snapshot == 0..MaxCommits
Content == {Absent, Partial, Blank} \union Snapshot

\* "<prefix><timestamp>-<revision>.sqlite3"; the timestamp has microseconds.
Automatic == 1..MaxCalls
Path == [name : Automatic \union Operators, zip : BOOLEAN]

\* More than the directory ever holds.
KeepAll == 2 * MaxCalls + 1

Whole(b) == b \in Snapshot
NoPath == [name |-> 0, zip |-> FALSE]

ASSUME Callers_Assumption == IsFiniteSet(Callers)
ASSUME Operators_Assumption == Operators \intersect Int = {}
ASSUME Retentions_Assumption == Retentions \subseteq Int
ASSUME Bounds_Assumption ==
    MaxCalls \in Nat /\ MaxCommits \in Nat /\ MaxFaults \in Nat

VARIABLES
    commits,        \* the commits of the application
    database,       \* what there is at the database's path
    body,           \* the content of every path of the directory
    later,          \* for every file, the files modified after it
    serial,         \* the backups so far
    pc,             \* the next statement of each caller
    dest,           \* the local `destination`
    opened,         \* the file the caller writes to is still at its path
    read,           \* what the copy or the compression has read
    names,          \* the local `candidates`, then the rest of `doomed`
    faults,         \* what has gone wrong: "crash", "damage", "clock"
    \* Observations; the steps read only `steady`, for what a copy may find:
    since,          \* the commits when the call began
    steady,         \* the database has been sound since the call began
    alone,          \* no other automatic backup overlaps the call
    left,           \* files that are no backup, which ended calls left behind
    least,          \* the smallest retention a rotation has used
    crossed,        \* a rotation has decided while another was deleting
    safe            \* an automatic backup has succeeded

directory == <<body, later, opened, faults>>
source == <<commits, database>>
arguments == <<dest, since, steady, alone>>
locals == <<arguments, read, names>>
vars == <<directory, source, serial, pc, locals, least, crossed, left, safe>>

PC == {"idle", "unlink", "touch", "connect", "open", "copy", "copying",
       "unlinkZip", "touchZip", "zip", "zipping", "drop", "list", "sort", "rotate"}

Exists(p) == body[p] # Absent

\* The name starts with the prefix of the automatic backups.
InFamily(p) == p.name \in Automatic

ZipOf(p) == [p EXCEPT !.zip = TRUE]

Zipping(c) == pc[c] \in {"unlinkZip", "touchZip", "zip", "zipping"}

\* The path the caller is writing.
Target(c) == IF Zipping(c) THEN ZipOf(dest[c]) ELSE dest[c]

Init ==
    /\ commits = 0 /\ database = "sound" /\ serial = 0
    /\ body = [p \in Path |-> Absent] /\ later = [p \in Path |-> {}]
    /\ pc = [c \in Callers |-> "idle"]
    /\ dest = [c \in Callers |-> NoPath]
    /\ opened = [c \in Callers |-> FALSE]
    /\ read = [c \in Callers |-> Partial] /\ names = [c \in Callers |-> {}]
    /\ since = [c \in Callers |-> 0] /\ steady = [c \in Callers |-> TRUE]
    /\ alone = [c \in Callers |-> TRUE]
    /\ faults = {} /\ left = {} /\ least = KeepAll /\ crossed = FALSE /\ safe = FALSE

-----------------------------------------------------------------------------
(* The directory *)

Fault(f) ==
    /\ f \notin faults
    /\ Cardinality(faults) < MaxFaults
    /\ faults' = faults \union {f}

\* p has just been modified; after the clock went back, it seems to have been
\* modified just before r.  Files of one nanosecond are ordered by their names.
Stamp(p) ==
    \/ /\ later' = [q \in Path |-> IF q = p \/ ~Exists(q) THEN {}
                                   ELSE later[q] \union {p}]
       /\ UNCHANGED faults
    \/ /\ Fault("clock") \/ ("clock" \in faults /\ UNCHANGED faults)
       /\ \E r \in {q \in Path : Exists(q) /\ q # p} :
            LET after == (later[r] \union {r}) \ {p}
            IN later' = [q \in Path |-> IF q = p THEN after
                                        ELSE IF q \in after \/ ~Exists(q)
                                        THEN later[q] \ {p}
                                        ELSE later[q] \union {p}]

Write(p, b) == body' = [body EXCEPT ![p] = b] /\ Stamp(p)

\* Path.unlink(missing_ok=True)
Unlink(p) ==
    /\ body' = [body EXCEPT ![p] = Absent]
    /\ later' = [q \in Path |-> IF q = p THEN {} ELSE later[q] \ {p}]
    /\ opened' = [c \in Callers |-> opened[c] /\ Target(c) # p]
    /\ UNCHANGED faults

\* The caller has opened the path it writes, which creates the file.
OpenTarget(c) ==
    /\ opened' = [opened EXCEPT ![c] = TRUE]
    /\ IF Exists(Target(c)) THEN UNCHANGED <<body, later, faults>>
       ELSE Write(Target(c), Partial)

\* What is written goes to the file that was opened, at its path or not.
WriteTarget(c, b) ==
    /\ IF opened[c] THEN Write(Target(c), b) ELSE UNCHANGED <<body, later, faults>>
    /\ opened' = [opened EXCEPT ![c] = FALSE]

Goto(c, from, to) ==
    /\ pc[c] = from
    /\ pc' = [pc EXCEPT ![c] = to]

Return(c) ==
    /\ pc' = [pc EXCEPT ![c] = "idle"]
    /\ dest' = [dest EXCEPT ![c] = NoPath]
    /\ read' = [read EXCEPT ![c] = Partial]
    /\ names' = [names EXCEPT ![c] = {}]
    /\ since' = [since EXCEPT ![c] = 0]
    /\ steady' = [steady EXCEPT ![c] = TRUE]
    /\ alone' = [alone EXCEPT ![c] = TRUE]

\* Files of the caller, no backups, that stay when its call ends here.
Leftovers(c) ==
    {p \in Path \intersect {dest[c], ZipOf(dest[c])} : body[p] \in {Partial, Blank}}

\* The step concerns the directory and its caller.
Within == UNCHANGED <<source, serial, least, crossed, safe>>

-----------------------------------------------------------------------------
(* backup() *)

\* The name has the time of the call; two backups are never given one.
Number ==
    /\ serial < MaxCalls
    /\ serial' = serial + 1

Begin(c) ==
    /\ since' = [since EXCEPT ![c] = commits]
    /\ steady' = [steady EXCEPT ![c] = database = "sound"]
    /\ UNCHANGED <<directory, source, read, names, least, crossed, left, safe>>

Busy(c) == pc[c] # "idle" /\ InFamily(dest[c])

\* A backup that is to rotate its family.
Call(c) ==
    /\ Goto(c, "idle", "unlink")
    /\ database # "missing"
    /\ Number
    /\ dest' = [dest EXCEPT ![c] = [name |-> serial + 1, zip |-> FALSE]]
    /\ alone' = [d \in Callers |->
         IF d = c THEN \A o \in Callers : ~Busy(o) ELSE alone[d] /\ ~Busy(d)]
    /\ Begin(c)

\* An operator chose the name; keep is None.
CallByOperator(c) ==
    /\ Goto(c, "idle", "unlink")
    /\ database # "missing"
    /\ \E n \in Operators : dest' = [dest EXCEPT ![c] = [name |-> n, zip |-> FALSE]]
    /\ Number
    /\ UNCHANGED alone
    /\ Begin(c)

\* prune_backups() called by itself.
CallPrune(c) ==
    /\ Goto(c, "idle", "list")
    /\ dest' = [dest EXCEPT ![c] = NoPath]
    /\ UNCHANGED <<serial, alone>>
    /\ Begin(c)

\* There is no database; a `keep` without a prefix is refused alike.
Refuse(c) ==
    /\ pc[c] = "idle"
    /\ database = "missing"
    /\ Return(c)
    /\ UNCHANGED <<directory, left>>
    /\ Within

\* _touch_private
UnlinkTarget(c) ==
    /\ \/ Goto(c, "unlink", "touch")
       \/ Goto(c, "unlinkZip", "touchZip")
    /\ Unlink(Target(c))
    /\ UNCHANGED <<locals, left>>
    /\ Within

TouchTarget(c) ==
    /\ \/ Goto(c, "touch", "connect")
       \/ Goto(c, "touchZip", "zip")
    /\ Write(Target(c), IF Exists(Target(c)) THEN body[Target(c)] ELSE Partial)
    /\ UNCHANGED <<opened, locals, left>>
    /\ Within

\* sqlite3 makes a database of a path where there is none, here and there.
Connect(c) ==
    /\ Goto(c, "connect", "open")
    /\ database' = IF database = "missing" THEN "blank" ELSE database
    /\ UNCHANGED <<directory, commits, serial, locals, least, crossed, left, safe>>

\* Before the try: OSError in _touch_private, sqlite3.OperationalError from the
\* connection to the source.  The destination stays as it is, touched or not.
SetupFails(c) ==
    /\ pc[c] \in {"unlink", "touch", "connect", "unlinkZip", "touchZip"}
    /\ Return(c)
    /\ left' = left \union Leftovers(c)
    /\ UNCHANGED directory
    /\ Within

Open(c) ==
    /\ Goto(c, "open", "copy")
    /\ OpenTarget(c)
    /\ UNCHANGED <<locals, left>>
    /\ Within

\* All the pages are read in one step, in one read transaction.  A database
\* replaced since is read through the connection, from the old file or the new.
Copy(c) ==
    /\ Goto(c, "copy", "copying")
    /\ database # "broken"
    /\ \E b \in {commits} \union (IF steady[c] THEN {} ELSE {Blank}) :
         read' = [read EXCEPT ![c] = b]
    /\ IF opened[c] THEN Write(dest[c], Partial) ELSE UNCHANGED <<body, later, faults>>
    /\ UNCHANGED <<opened, arguments, names, left>>
    /\ Within

\* `keep` goes with the automatic backups.
AfterWriting(c) == IF InFamily(dest[c]) THEN "list" ELSE "rotate"

Copied(c) ==
    /\ pc[c] = "copying"
    /\ \E compress \in BOOLEAN :
         pc' = [pc EXCEPT ![c] = IF compress THEN "unlinkZip" ELSE AfterWriting(c)]
    /\ WriteTarget(c, read[c])
    /\ left' = left \union {p \in {dest[c]} : read[c] = Blank}
    /\ UNCHANGED locals
    /\ Within

\* Mutant: the partial file stays.
CopyFails_Kept(c) ==
    /\ pc[c] \in {"open", "copy", "copying"}
    /\ Return(c)
    /\ UNCHANGED <<directory, left>>
    /\ Within

\* sqlite3.OperationalError in the try: the destination cannot be opened, the
\* disk is full, the target's file has gone.
CopyFails(c) ==
    /\ pc[c] \in {"open", "copy", "copying"}
    /\ Return(c)
    /\ Unlink(dest[c])
    /\ UNCHANGED left
    /\ Within

\* sqlite3.DatabaseError, "file is not a database": nothing catches it.
CopyRaises(c) ==
    /\ pc[c] = "copy"
    /\ database = "broken"
    /\ Return(c)
    /\ left' = left \union Leftovers(c)
    /\ UNCHANGED directory
    /\ Within

-----------------------------------------------------------------------------
(* Compression *)

\* Mutant: a backup that was rotated out is compressed as well.
Zip_Unchecked(c) ==
    /\ Goto(c, "zip", "zipping")
    /\ OpenTarget(c)
    /\ read' = [read EXCEPT ![c] = body[dest[c]]]
    /\ UNCHANGED <<arguments, names, left>>
    /\ Within

Zip(c) ==
    /\ Goto(c, "zip", "zipping")
    /\ Exists(dest[c])
    /\ OpenTarget(c)
    /\ read' = [read EXCEPT ![c] = body[dest[c]]]
    /\ UNCHANGED <<arguments, names, left>>
    /\ Within

Zipped(c) ==
    /\ Goto(c, "zipping", "drop")
    /\ WriteTarget(c, read[c])
    /\ left' = left \union {p \in {Target(c)} : read[c] = Blank}
    /\ UNCHANGED locals
    /\ Within

\* Mutant: what has been compressed so far passes for the backup.
ZipFails_Ignored(c) ==
    /\ Goto(c, "zipping", "drop")
    /\ UNCHANGED <<directory, locals, left>>
    /\ Within

\* OSError: the disk is full, the backup has been rotated out.
ZipFails(c) ==
    /\ pc[c] \in {"zip", "zipping"}
    /\ Return(c)
    /\ Unlink(Target(c))
    /\ UNCHANGED left
    /\ Within

\* destination.unlink() accepts no missing file.
Drop(c) ==
    /\ pc[c] = "drop"
    /\ IF Exists(dest[c])
       THEN /\ Unlink(dest[c])
            /\ dest' = [dest EXCEPT ![c] = ZipOf(dest[c])]
            /\ pc' = [pc EXCEPT ![c] = AfterWriting(c)]
            /\ UNCHANGED <<since, steady, alone, read, names>>
       ELSE Return(c) /\ UNCHANGED directory
    /\ UNCHANGED left
    /\ Within

-----------------------------------------------------------------------------
(* prune_backups() *)

\* Mutant: the prefix is not looked at.
List_Everything(c) ==
    /\ Goto(c, "list", "sort")
    /\ names' = [names EXCEPT ![c] = {p \in Path : Exists(p)}]
    /\ UNCHANGED <<arguments, read, directory, source, serial, least, crossed, left, safe>>

\* directory.iterdir(); a negative retention is refused, after the backup.
List(c) ==
    /\ pc[c] = "list"
    /\ \/ (\E keep \in Retentions : keep < 0) /\ Return(c)
       \/ /\ Goto(c, "list", "sort")
          /\ names' = [names EXCEPT ![c] = {p \in Path : Exists(p) /\ InFamily(p)}]
          /\ UNCHANGED <<arguments, read>>
    /\ UNCHANGED <<directory, source, serial, least, crossed, left, safe>>

\* Mutant: the newest are deleted.
Doomed_Newest(c, keep) ==
    {p \in names[c] : Cardinality({q \in names[c] : p \in later[q]}) >= keep}

\* Mutant: one backup too many.
Doomed_OneMore(c, keep) ==
    {p \in names[c] : Cardinality(names[c] \intersect later[p]) >= keep - 1}

\* All the names but the newest `keep`.
Doomed(c, keep) ==
    {p \in names[c] : Cardinality(names[c] \intersect later[p]) >= keep}

\* The rotation has decided and is not done.
Deleting(c) == pc[c] = "rotate" /\ names[c] # {}

\* stat() of every candidate raises when another caller has deleted one.
Sort(c) ==
    /\ pc[c] = "sort"
    /\ IF \A p \in names[c] : Exists(p)
       THEN /\ Goto(c, "sort", "rotate")
            /\ \E keep \in Retentions \intersect Nat :
                 /\ names' = [names EXCEPT ![c] = Doomed(c, keep)]
                 /\ least' = IF keep < least THEN keep ELSE least
            /\ crossed' = (crossed \/ \E d \in Callers \ {c} : Deleting(d))
            /\ UNCHANGED <<arguments, read>>
       ELSE Return(c) /\ UNCHANGED <<least, crossed>>
    /\ UNCHANGED <<directory, source, serial, left, safe>>

\* The oldest first.
Rotate(c) ==
    /\ pc[c] = "rotate"
    /\ \E p \in names[c] :
         /\ \A q \in names[c] : p \notin later[q]
         /\ Unlink(p)
         /\ names' = [names EXCEPT ![c] = names[c] \ {p}]
    /\ UNCHANGED <<pc, arguments, read, left>>
    /\ Within

\* backup() goes on to destination.stat(); prune_backups() is done.
Pruned(c) == pc[c] = "rotate" /\ names[c] = {}

Stat(c) ==
    /\ Pruned(c)
    /\ Return(c)
    /\ safe' = (safe \/ (InFamily(dest[c]) /\ steady[c] /\ Exists(dest[c])))
    /\ UNCHANGED <<directory, source, serial, least, crossed, left>>

-----------------------------------------------------------------------------
(* Around the calls *)

Commit ==
    /\ database = "sound"
    /\ commits < MaxCommits
    /\ commits' = commits + 1
    /\ UNCHANGED <<directory, database, serial, pc, locals, least, crossed, left, safe>>

\* restore() unlinks the database, creates it empty, fills it; disks fail.
Damage ==
    /\ Fault("damage")
    /\ database' \in {"missing", "broken"}
    /\ steady' = [c \in Callers |-> pc[c] = "idle"]
    /\ UNCHANGED <<body, later, opened, commits, serial, pc, dest, since,
                   alone, read, names, least, crossed, left, safe>>

Repair ==
    /\ database # "sound"
    /\ database' = "sound"
    /\ UNCHANGED <<directory, commits, serial, pc, locals, least, crossed, left, safe>>

Crash(c) ==
    /\ pc[c] # "idle"
    /\ Fault("crash")
    /\ Return(c)
    /\ left' = left \union Leftovers(c)
    /\ opened' = [opened EXCEPT ![c] = FALSE]
    /\ UNCHANGED <<body, later, commits, database, serial, least, crossed, safe>>

Calls(c) == Call(c) \/ CallByOperator(c) \/ CallPrune(c) \/ Refuse(c)
Copies(c) ==
    \/ UnlinkTarget(c) \/ TouchTarget(c) \/ Connect(c) \/ SetupFails(c) \/ Open(c)
    \/ Copy(c) \/ Copied(c) \/ CopyFails(c) \/ CopyRaises(c)
Compresses(c) == Zip(c) \/ Zipped(c) \/ ZipFails(c) \/ Drop(c)
Prunes(c) == List(c) \/ Sort(c) \/ Rotate(c)

Environment == Commit \/ Damage \/ Repair \/ \E c \in Callers : Crash(c)

Next ==
    \/ \E c \in Callers : Calls(c) \/ Copies(c) \/ Compresses(c) \/ Prunes(c) \/ Stat(c)
    \/ Environment

Spec == Init /\ [][Next]_vars

-----------------------------------------------------------------------------
(* Properties *)

CallOK ==
    /\ serial \in 0..MaxCalls
    /\ pc \in [Callers -> PC]
    /\ dest \in [Callers -> Path \union {NoPath}]
    /\ read \in [Callers -> Content \ {Absent}]
    /\ names \in [Callers -> SUBSET Path]

DirectoryOK ==
    /\ body \in [Path -> Content]
    /\ later \in [Path -> SUBSET Path]
    /\ opened \in [Callers -> BOOLEAN]
    /\ faults \subseteq {"crash", "damage", "clock"}

SourceOK ==
    /\ commits \in Snapshot /\ database \in {"sound", "missing", "blank", "broken"}

SeenOK ==
    /\ since \in [Callers -> Snapshot] /\ steady \in [Callers -> BOOLEAN]
    /\ alone \in [Callers -> BOOLEAN]
    /\ least \in (Retentions \intersect Nat) \union {KeepAll} /\ crossed \in BOOLEAN
    /\ left \subseteq Path /\ safe \in BOOLEAN

\* The types of the variables.
TypeOK == CallOK /\ DirectoryOK /\ SourceOK /\ SeenOK

\* An automatic backup that is about to be reported holds what was committed at
\* some moment of its call, whatever the other callers wrote, compressed or
\* rotated meanwhile, if the database was sound all along (backup.py:269-344).
ReportedIsFresh ==
    \A c \in Callers :
      Pruned(c) /\ InFamily(dest[c]) /\ steady[c] /\ Exists(dest[c])
        => body[dest[c]] \in since[c]..commits

\* A file of the family that is no backup belongs to a call that is writing it,
\* or was left by a crash, an unreadable database or one that could not be opened
\* (backup.py:266, :273): every failure of the copy or the compression that the
\* code catches takes its partial file away ("the partial file is removed first",
\* backup.py:248).
PartialsAreOwned ==
    \A p \in Path : InFamily(p) /\ body[p] \in {Partial, Blank} =>
      \/ p \in left
      \/ \E c \in Callers : pc[c] # "idle" /\ p = Target(c)

\* Every retention used so far exceeds the files that may be no backups: those
\* left behind and the one each of the other callers is writing.
Ample == Cardinality({p \in left : InFamily(p)}) + Cardinality(Callers) <= least

\* Once an automatic backup has succeeded there is one in the directory, if the
\* retention is ample and no rotation decided while another was deleting.  The
\* rotations count files that are no backups and files that others are writing,
\* compressing and dropping, even after the clock went back (backup.py:381-388).
BackupRemains ==
    safe /\ Ample /\ ~crossed => \E p \in Path : InFamily(p) /\ Whole(body[p])

\* A caller finds its own backup after the rotations, its own and the others',
\* if no other automatic backup overlapped its call, no rotation kept nothing
\* and the clock did not go back (backup.py:337-342, :366).
OwnBackupSurvives ==
    \A c \in Callers :
      Pruned(c) /\ InFamily(dest[c]) /\ alone[c] /\ "clock" \notin faults /\ least > 0
        => Exists(dest[c])

\* A whole backup under an operator's name is lost only in a call that names it,
\* itself or the compressed file beside it (backup.py:239, "this function never
\* deletes a file the operator named").
OperatorsFilesStay ==
    [][\A p \in Path : ~InFamily(p) /\ Whole(body[p]) /\ body'[p] # body[p] =>
         \E c \in Callers : pc[c] # "idle" /\ p \in {dest[c], ZipOf(dest[c])}]_vars

=============================================================================
