------------------------------- MODULE Upsert -------------------------------
(***************************************************************************)
(* upsert() of types.py in the units of work of session_scope(), on both   *)
(* dialects: INSERT ... ON CONFLICT DO UPDATE finds the committed row, the *)
(* one its own unit wrote, or has to wait for the unit that is writing it. *)
(*                                                                         *)
(* SQLite serializes the units at BEGIN IMMEDIATE.  PostgreSQL makes a     *)
(* statement wait for the unit that has written its key, until that one    *)
(* ends, the timeout of the engine strikes or a deadlock is found.         *)
(***************************************************************************)
EXTENDS Naturals, Sequences, FiniteSets

CONSTANTS
    Session,    \* the units of work, each run once
    Key,        \* values of the natural key
    Column,     \* the other columns of the table
    Once,       \* those the callers name in no_update, with the key
    Programs,   \* the lists of calls a unit may make
    NoRow, Default, Nobody

Call == [key : Key, values : SUBSET Column]

ASSUME SessionsFinite == IsFiniteSet(Session)
ASSUME OnceIsColumns == Once \subseteq Column
ASSUME ProgramsOfCalls == Programs \subseteq Seq(Call)
ASSUME NobodyIsNone == Nobody \notin Session

VARIABLES
    dialect,    \* of the engine
    rows,       \* the committed table: the unique index has a key once
    writer,     \* the unit with SQLite's write lock
    holder,     \* for a key, the unit whose transaction has written it
    draft,      \* the rows a transaction has written, as it sees them
    program,    \* the calls of a unit
    next,       \* the call the unit is at
    pc, outcome \* of a unit

table == <<rows, writer, holder, draft>>
vars == <<dialect, table, program, next, pc, outcome>>

PC == {"new", "begin", "statement", "done"}
Outcomes == {"none", "committed", "raised", "busy", "timeout", "deadlock"}
Value == (Session \X (Nat \ {0})) \union {Default}
Row == [id : Session \X (Nat \ {0}), columns : [Column -> Value]]

ASSUME NoRowIsNone == NoRow \notin Row

Init ==
    /\ dialect \in {"sqlite", "postgresql"}
    /\ rows = [k \in Key |-> NoRow]
    /\ writer = Nobody
    /\ holder = [k \in Key |-> Nobody]
    /\ draft = [k \in Key |-> NoRow]
    /\ program \in [Session -> Programs]
    /\ next = [s \in Session |-> 1]
    /\ pc = [s \in Session |-> "new"]
    /\ outcome = [s \in Session |-> "none"]

-----------------------------------------------------------------------------
(* The statement *)

Current(s) == program[s][next[s]]
Finished(s) == next[s] > Len(program[s])

\* Mutant: no_update is not looked at.
Set_All(call) == call.values

\* `set_`: the values but those of no_update.  The columns of the natural key are
\* among them in the code, and set the key of the row to what it is.
Set(call) == call.values \ Once

\* What the statement finds: a row its unit has written, or the committed one.
Found(s, k) == IF holder[k] = s THEN draft[k] ELSE rows[k]

\* Mutant: the columns without a value get no default.
Inserted_Bare(s, call) ==
    [id |-> <<s, next[s]>>, columns |-> [c \in call.values |-> <<s, next[s]>>]]

Inserted(s, call) ==
    [id |-> <<s, next[s]>>,
     columns |-> [c \in Column |->
       IF c \in call.values THEN <<s, next[s]>> ELSE Default]]

\* Mutant: INSERT OR REPLACE.
Updated_Replaced(s, call, row) == Inserted(s, call)

Updated(s, call, row) ==
    [row EXCEPT !.columns = [c \in Column |->
       IF c \in Set(call) THEN <<s, next[s]>> ELSE row.columns[c]]]

Upserted(s, call) ==
    LET row == Found(s, call.key)
    IN IF row = NoRow THEN Inserted(s, call) ELSE Updated(s, call, row)

\* Mutant: upsert() opens a session of its own.
Blocker_Own(s) == {holder[Current(s).key]} \ {Nobody}

\* The units a statement has to wait for.
Blocker(s) == {holder[Current(s).key]} \ {s, Nobody}

Blocked(s) == pc[s] = "statement" /\ ~Finished(s) /\ Blocker(s) # {}

\* s is on a cycle of units each of which waits for the next.
Deadlocked(s) ==
    \E C \in SUBSET Session :
      /\ s \in C
      /\ \A t \in C : Blocked(t) /\ Blocker(t) \subseteq C
      /\ \A t \in C : \E u \in C : t \in Blocker(u)

-----------------------------------------------------------------------------
(* session_scope(): begin, the block, commit or rollback *)

Goto(s, from, to) == pc[s] = from /\ pc' = [pc EXCEPT ![s] = to]

\* Mutant: the session is not closed.
Release_Kept(s) ==
    /\ writer' = IF writer = s THEN Nobody ELSE writer
    /\ UNCHANGED <<holder, draft>>

\* The transaction ends; whoever waits for it goes on.
Release(s) ==
    /\ writer' = IF writer = s THEN Nobody ELSE writer
    /\ holder' = [k \in Key |-> IF holder[k] = s THEN Nobody ELSE holder[k]]
    /\ draft' = [k \in Key |-> IF holder[k] = s THEN NoRow ELSE draft[k]]

End(s, why) ==
    /\ pc' = [pc EXCEPT ![s] = "done"]
    /\ outcome' = [outcome EXCEPT ![s] = why]
    /\ Release(s)
    /\ UNCHANGED <<dialect, program, next>>

Rollback(s, why) == End(s, why) /\ UNCHANGED rows

\* The session begins its transaction with its first statement, SQLite at once
\* for writing.
Enter(s) ==
    /\ Goto(s, "new", "begin")
    /\ UNCHANGED <<dialect, table, program, next, outcome>>

Begin(s) ==
    /\ Goto(s, "begin", "statement")
    /\ ~Finished(s) /\ Set(Current(s)) # {}
    /\ IF dialect = "sqlite" THEN writer = Nobody /\ writer' = s ELSE UNCHANGED writer
    /\ UNCHANGED <<dialect, rows, holder, draft, program, next, outcome>>

\* StorageBusy
BusyTimeout(s) ==
    /\ pc[s] = "begin"
    /\ dialect = "sqlite" /\ writer # Nobody
    /\ Rollback(s, "busy")

Upsert(s) ==
    /\ pc[s] = "statement"
    /\ ~Finished(s) /\ Set(Current(s)) # {} /\ ~Blocked(s)
    /\ holder' = [holder EXCEPT ![Current(s).key] = s]
    /\ draft' = [draft EXCEPT ![Current(s).key] = Upserted(s, Current(s))]
    /\ next' = [next EXCEPT ![s] = next[s] + 1]
    /\ UNCHANGED <<dialect, rows, writer, program, pc, outcome>>

\* ValueError: no values, or all of them in no_update.
Refuse(s) ==
    /\ pc[s] \in {"begin", "statement"}
    /\ ~Finished(s) /\ Set(Current(s)) = {}
    /\ Rollback(s, "raised")

\* lock_timeout or statement_timeout, if the engine was given one.
LockTimeout(s) ==
    /\ dialect = "postgresql"
    /\ Blocked(s)
    /\ Rollback(s, "timeout")

\* PostgreSQL ends one of the units that wait for each other.
Deadlock(s) ==
    /\ dialect = "postgresql"
    /\ Deadlocked(s)
    /\ Rollback(s, "deadlock")

\* The block raises between two statements, or COMMIT does.
Raise(s) ==
    /\ pc[s] \in {"begin", "statement"}
    /\ ~Blocked(s)
    /\ Rollback(s, "raised")

Commit(s) ==
    /\ pc[s] \in {"begin", "statement"}
    /\ Finished(s)
    /\ rows' = [k \in Key |-> Found(s, k)]
    /\ End(s, "committed")

Steps(s) ==
    Enter(s) \/ Begin(s) \/ BusyTimeout(s) \/ Upsert(s) \/ Refuse(s)
    \/ Deadlock(s) \/ Commit(s)

Next == \E s \in Session : Steps(s) \/ LockTimeout(s) \/ Raise(s)

Spec == Init /\ [][Next]_vars

\* A thread runs on; SQLite gives the lock or StorageBusy; PostgreSQL looks for
\* deadlocks.  A lock that is free again is given to each that waits in turn.
FairSpec == Spec /\ \A s \in Session : WF_vars(Steps(s))

-----------------------------------------------------------------------------
(* Properties *)

\* The types of the variables; a draft is a row, of a transaction under way.
TypeOK ==
    /\ dialect \in {"sqlite", "postgresql"}
    /\ rows \in [Key -> Row \union {NoRow}]
    /\ writer \in Session \union {Nobody}
    /\ holder \in [Key -> Session \union {Nobody}]
    /\ draft \in [Key -> Row \union {NoRow}]
    /\ program \in [Session -> Programs]
    /\ next \in [Session -> Nat \ {0}]
    /\ pc \in [Session -> PC]
    /\ outcome \in [Session -> Outcomes]

\* Concurrent writers of one natural key do not fail by a deadlock: its victim is
\* a unit that upserts several keys (spec.md:231, types.py:130-133).
OneKeyNeverDeadlocks ==
    \A s \in Session :
      Deadlocked(s) =>
        \E i, j \in DOMAIN program[s] : program[s][i].key # program[s][j].key

\* The units take effect one after the other, each entirely at its commit, as if
\* nothing else were running: no sighting is lost, none half done, whoever
\* inserted the row and whichever units were rolled back (types.py:130-143,
\* session.py:61-69).
Promise == INSTANCE Sightings
OneAfterTheOther == Promise!Spec

\* The id and the columns of no_update are those of the first sighting that was
\* committed, for good, and a row never goes away (types.py:135-143).
FirstSightingStays ==
    [][\A k \in Key : rows[k] # NoRow =>
         /\ rows'[k] # NoRow
         /\ rows'[k].id = rows[k].id
         /\ \A c \in Once : rows'[k].columns[c] = rows[k].columns[c]]_vars

\* Every unit that has begun ends: it commits or raises, and keeps no lock.
UnitsEnd == \A s \in Session : (pc[s] # "new") ~> (pc[s] = "done")

=============================================================================
