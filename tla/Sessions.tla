------------------------------ MODULE Sessions ------------------------------
(***************************************************************************)
(* session_scope() and transaction() of session.py over the pool and the   *)
(* "begin" hook of engine.py, on SQLite with a write-ahead log.            *)
(*                                                                         *)
(* A session is one unit of work, run once; its thread may open another    *)
(* one inside its block.  Connections outlive sessions: what a session     *)
(* leaves on one of them the next session finds there.                     *)
(***************************************************************************)
EXTENDS Naturals

CONSTANTS
    Session,
    Connection,     \* the connections of the pool
    Nobody,
    Parent,         \* the session in whose block a session is opened, or Nobody
    MaxWrites       \* bound: the writes of one session

ASSUME NobodyIsNone == Nobody \notin Session \union Connection \union (Session \X Nat)
ASSUME Nesting == Parent \in [Session -> Session \union {Nobody}]
ASSUME SomeWrites == MaxWrites \in Nat

VARIABLES
    db,         \* the committed writes
    lock,       \* the connection with SQLite's write lock, or Nobody
    pool,       \* the connections that no session has checked out
    queryOnly,  \* PRAGMA query_only of a connection
    tx,         \* the open transaction of a connection
    snapshot,   \* the commits its transaction sees, once it has read
    pc, kind, conn, wrote, outcome,     \* of a session
    seen        \* observation: every snapshot a read-only session has read

sqlite == <<db, lock, queryOnly, tx, snapshot>>
session == <<kind, conn, wrote, outcome, seen>>
vars == <<sqlite, pool, pc, session>>

-----------------------------------------------------------------------------

Kinds == {"write", "readonly", "autocommit"}
PC == {"new", "checkout", "hook", "begin", "work", "rollback", "close", "done"}
Transactions == {"none", "deferred", "immediate", "each"}
Outcomes == {"none", "committed", "raised", "busy", "readonly", "stale", "noConnection"}

Writes == Session \X (1..MaxWrites)
Unread == {Nobody}      \* no snapshot yet: never a set of writes

TypeOK ==
    /\ db \in SUBSET Writes
    /\ lock \in Connection \union {Nobody}
    /\ pool \in SUBSET Connection
    /\ queryOnly \in [Connection -> BOOLEAN]
    /\ tx \in [Connection -> Transactions]
    /\ snapshot \in [Connection -> {Unread} \union SUBSET Writes]
    /\ pc \in [Session -> PC]
    /\ kind \in [Session -> Kinds]
    /\ conn \in [Session -> Connection \union {Nobody}]
    /\ wrote \in [Session -> 0..MaxWrites]
    /\ outcome \in [Session -> Outcomes]
    /\ seen \in [Session -> SUBSET SUBSET Writes]

Init ==
    /\ db = {}
    /\ lock = Nobody
    /\ pool = Connection
    /\ queryOnly = [c \in Connection |-> FALSE]
    /\ tx = [c \in Connection |-> "none"]
    /\ snapshot = [c \in Connection |-> Unread]
    /\ pc = [s \in Session |-> "new"]
    /\ kind \in [Session -> Kinds]
    /\ conn = [s \in Session |-> Nobody]
    /\ wrote = [s \in Session |-> 0]
    /\ outcome = [s \in Session |-> "none"]
    /\ seen = [s \in Session |-> {}]

-----------------------------------------------------------------------------

\* A thread is in the innermost block it has opened.
Inside(s) == \E i \in Session : Parent[i] = s /\ pc[i] \notin {"new", "done"}

Goto(s, from, to) ==
    /\ pc[s] = from
    /\ ~Inside(s)
    /\ pc' = [pc EXCEPT ![s] = to]

End(s, why) == outcome' = [outcome EXCEPT ![s] = why]

WrittenBy(s) == {s} \X (1..wrote[s])

\* What SQLite answers to a write on connection c: query_only forbids it; a
\* transaction without the lock must take it, and cannot once its snapshot is
\* behind the last commit, whatever the busy timeout.
Refusal(c) ==
    IF queryOnly[c] THEN "readonly"
    ELSE IF lock = c THEN "none"
    ELSE IF lock # Nobody THEN "busy"
    ELSE IF snapshot[c] \notin {Unread, db} THEN "stale"
    ELSE "none"

-----------------------------------------------------------------------------
(* Entering session_scope(): the session, its connection, the begin hook *)

Open(s) ==
    /\ Parent[s] # Nobody => pc[Parent[s]] = "work" /\ ~Inside(Parent[s])
    /\ Goto(s, "new", "checkout")
    /\ UNCHANGED <<sqlite, pool, session>>

Checkout(s) ==
    /\ Goto(s, "checkout", "hook")
    /\ \E c \in pool : conn' = [conn EXCEPT ![s] = c] /\ pool' = pool \ {c}
    /\ UNCHANGED <<sqlite, kind, wrote, outcome, seen>>

\* Mutant: a session that got no connection returns one all the same.
PoolTimeout_Close(s) ==
    /\ pool = {}
    /\ Goto(s, "checkout", "close")
    /\ End(s, "noConnection")
    /\ UNCHANGED <<sqlite, pool, kind, conn, wrote, seen>>

\* Nobody has returned a connection within the timeout of the pool.
PoolTimeout(s) ==
    /\ pool = {}
    /\ Goto(s, "checkout", "done")
    /\ End(s, "noConnection")
    /\ UNCHANGED <<sqlite, pool, kind, conn, wrote, seen>>

\* Mutant: the pragma is set for readers and never taken back.
Hook_NoReset(s) ==
    /\ Goto(s, "hook", "begin")
    /\ queryOnly' = [queryOnly EXCEPT ![conn[s]] = @ \/ kind[s] = "readonly"]
    /\ UNCHANGED <<db, lock, tx, snapshot, pool, session>>

\* Mutant: read-only is declared and not enforced.
Hook_Off(s) ==
    /\ Goto(s, "hook", "begin")
    /\ queryOnly' = [queryOnly EXCEPT ![conn[s]] = FALSE]
    /\ UNCHANGED <<db, lock, tx, snapshot, pool, session>>

\* The pragma is set on every path, not only where it changes.
Hook(s) ==
    /\ Goto(s, "hook", "begin")
    /\ queryOnly' = [queryOnly EXCEPT ![conn[s]] = (kind[s] = "readonly")]
    /\ UNCHANGED <<db, lock, tx, snapshot, pool, session>>

BeginDeferred(s) ==
    /\ kind[s] = "readonly"
    /\ Goto(s, "begin", "work")
    /\ tx' = [tx EXCEPT ![conn[s]] = "deferred"]
    /\ UNCHANGED <<db, lock, queryOnly, snapshot, pool, session>>

\* Mutant: a writing session begins deferred as well.
BeginImmediate_Deferred(s) ==
    /\ kind[s] = "write"
    /\ Goto(s, "begin", "work")
    /\ tx' = [tx EXCEPT ![conn[s]] = "deferred"]
    /\ UNCHANGED <<db, lock, queryOnly, snapshot, pool, session>>

BeginImmediate(s) ==
    /\ kind[s] = "write" /\ lock = Nobody
    /\ Goto(s, "begin", "work")
    /\ tx' = [tx EXCEPT ![conn[s]] = "immediate"]
    /\ snapshot' = [snapshot EXCEPT ![conn[s]] = db]
    /\ lock' = conn[s]
    /\ UNCHANGED <<db, queryOnly, pool, session>>

\* Mutant: the wait for the lock has no end, StorageBusy is never raised.
BeginBusy_Never(s) == FALSE

\* StorageBusy: the lock was not free within busy_timeout.
BeginBusy(s) ==
    /\ kind[s] = "write" /\ lock # Nobody
    /\ Goto(s, "begin", "rollback")
    /\ End(s, "busy")
    /\ UNCHANGED <<sqlite, pool, kind, conn, wrote, seen>>

\* AUTOCOMMIT: no BEGIN, each statement is a transaction.
NoBegin(s) ==
    /\ kind[s] = "autocommit"
    /\ Goto(s, "begin", "work")
    /\ tx' = [tx EXCEPT ![conn[s]] = "each"]
    /\ UNCHANGED <<db, lock, queryOnly, snapshot, pool, session>>

-----------------------------------------------------------------------------
(* The block *)

Read(s) ==
    LET c == conn[s]
        now == IF tx[c] = "each" \/ snapshot[c] = Unread THEN db ELSE snapshot[c]
    IN
    /\ Goto(s, "work", "work")
    /\ seen' = [seen EXCEPT ![s] = IF kind[s] = "readonly" THEN @ \union {now} ELSE @]
    /\ snapshot' = [snapshot EXCEPT ![c] = IF tx[c] = "each" THEN @ ELSE now]
    /\ UNCHANGED <<db, lock, queryOnly, tx, pool, kind, conn, wrote, outcome>>

Write(s) ==
    LET c == conn[s] IN
    /\ Goto(s, "work", "work")
    /\ wrote[s] < MaxWrites
    /\ Refusal(c) = "none"
    /\ wrote' = [wrote EXCEPT ![s] = @ + 1]
    /\ IF tx[c] = "each"
       THEN db' = db \union {<<s, wrote'[s]>>} /\ UNCHANGED <<lock, snapshot>>
       ELSE /\ lock' = c
            /\ snapshot' = [snapshot EXCEPT ![c] = db]
            /\ UNCHANGED db
    /\ UNCHANGED <<queryOnly, tx, pool, kind, conn, outcome, seen>>

WriteRefused(s) ==
    /\ Goto(s, "work", "rollback")
    /\ wrote[s] < MaxWrites
    /\ Refusal(conn[s]) # "none"
    /\ End(s, Refusal(conn[s]))
    /\ UNCHANGED <<sqlite, pool, kind, conn, wrote, seen>>

\* Any exception: KeyboardInterrupt, and transaction() refusing a session that is
\* in a transaction, as a session in its block always is, included.
Raise(s) ==
    /\ Goto(s, "work", "rollback")
    /\ End(s, "raised")
    /\ UNCHANGED <<sqlite, pool, kind, conn, wrote, seen>>

-----------------------------------------------------------------------------
(* Leaving session_scope() *)

Release(c) ==
    /\ lock' = IF lock = c THEN Nobody ELSE lock
    /\ tx' = [tx EXCEPT ![c] = "none"]
    /\ snapshot' = [snapshot EXCEPT ![c] = Unread]

Commit(s) ==
    /\ Goto(s, "work", "close")
    /\ End(s, "committed")
    /\ db' = IF lock = conn[s] THEN snapshot[conn[s]] \union WrittenBy(s) ELSE db
    /\ Release(conn[s])
    /\ UNCHANGED <<queryOnly, pool, kind, conn, wrote, seen>>

\* Mutant: the commit is in a finally block.
Rollback_Commits(s) ==
    /\ Goto(s, "rollback", "close")
    /\ db' = IF lock = conn[s] THEN snapshot[conn[s]] \union WrittenBy(s) ELSE db
    /\ Release(conn[s])
    /\ UNCHANGED <<queryOnly, pool, session>>

\* Mutant: an exception skips the rollback, and the pool does not reset.
Rollback_Skipped(s) ==
    /\ Goto(s, "rollback", "close")
    /\ UNCHANGED <<sqlite, pool, session>>

Rollback(s) ==
    /\ Goto(s, "rollback", "close")
    /\ Release(conn[s])
    /\ UNCHANGED <<db, queryOnly, pool, session>>

Close(s) ==
    /\ Goto(s, "close", "done")
    /\ pool' = pool \union {conn[s]}
    /\ UNCHANGED <<sqlite, session>>

-----------------------------------------------------------------------------

Run(s) ==
    \/ Checkout(s) \/ PoolTimeout(s)
    \/ Hook(s) \/ BeginDeferred(s) \/ BeginImmediate(s) \/ BeginBusy(s) \/ NoBegin(s)
    \/ Read(s) \/ Write(s) \/ WriteRefused(s) \/ Raise(s)
    \/ Commit(s) \/ Rollback(s) \/ Close(s)

Next == \E s \in Session : Open(s) \/ Run(s)

Spec == Init /\ [][Next]_vars

\* Blocks come to an end, and the two timeouts run out.
FairSpec == Spec /\ \A s \in Session : WF_vars(Run(s))

-----------------------------------------------------------------------------
(* Properties *)

\* A unit of work is all or nothing: once a transaction has ended, either every
\* write of its session is in the database or, if it raised or was refused, none
\* is, however it shared connections and the lock with others.
AllOrNothing ==
    \A s \in Session : kind[s] # "autocommit" =>
        {w \in db : w[1] = s} = IF outcome[s] = "committed" THEN WrittenBy(s) ELSE {}

\* A session that was not declared read-only is never refused a write as
\* read-only, on whatever connection an earlier reader has used, and its
\* snapshot is never found stale: contention shows when it begins.
WritersContendOnlyAtBegin ==
    \A s \in Session :
        /\ outcome[s] = "readonly" => kind[s] = "readonly"
        /\ outcome[s] # "stale"
        /\ outcome[s] = "busy" /\ kind[s] = "write" => wrote[s] = 0

\* A read-only session neither writes, nor takes the write lock, nor fails
\* because somebody else has it, and all its reads see one state.
ReadersOnlyRead ==
    \A s \in Session : kind[s] = "readonly" =>
        /\ wrote[s] = 0
        /\ outcome[s] # "busy"
        /\ pc[s] \in {"work", "rollback", "close"} => lock # conn[s]
        /\ \A a, b \in seen[s] : a = b

\* A connection back in the pool holds no lock and no transaction, and no two
\* sessions hold one connection.
PoolIsClean ==
    /\ \A c \in pool : lock # c /\ tx[c] = "none" /\ snapshot[c] = Unread
    /\ \A s, t \in Session :
          /\ pc[s] \notin {"new", "checkout", "done"} => conn[s] \notin pool
          /\ s # t /\ pc[s] \notin {"new", "checkout", "done"}
                   /\ pc[t] \notin {"new", "checkout", "done"} => conn[s] # conn[t]

\* Every session ends, also one opened inside the block of a session that holds
\* the lock or the last connection that it needs.
SessionsEnd == \A s \in Session : pc[s] = "checkout" ~> pc[s] = "done"

-----------------------------------------------------------------------------

\* A session works on its snapshot in its block, and has ended for Units when its
\* outcome is settled: the rollback and the return of the connection that follow
\* are the implementation's own.
InBlock(s) == pc[s] = "work" /\ kind[s] # "autocommit"

Base == [s \in Session |-> IF InBlock(s) THEN snapshot[conn[s]] ELSE Unread]

Pending == [s \in Session |-> IF InBlock(s) THEN WrittenBy(s) ELSE {}]

EndOf(why) ==
    CASE why = "none" -> "open"
      [] why = "committed" -> "committed"
      [] why \in {"raised", "readonly"} -> "failed"
      [] OTHER -> "refused"

State == [s \in Session |-> EndOf(outcome[s])]

Promise == INSTANCE Units WITH
    Unit <- Session, Number <- 1..MaxWrites, None <- Unread,
    base <- Base, pending <- Pending, shown <- seen, state <- State

\* Sessions over a pool and SQLite's one lock keep the promise of Units: the
\* writes of a session take effect together and on the state it began on, no
\* commit in between; readers are shown one committed state; and nobody is turned
\* away because of others once it works on a snapshot.
KeepsUnits == Promise!Spec

=============================================================================
