------------------------------- MODULE Units -------------------------------
(***************************************************************************)
(* What session_scope() promises, without connections, locks or pragmas:   *)
(* a unit of work that writes works on one state of the database, and      *)
(* takes effect at once and on that very state, or not at all; a reader    *)
(* is shown one state; an autocommit statement takes effect by itself.     *)
(* Others can turn a unit away before it has begun to work on a state, and *)
(* never afterwards.                                                       *)
(***************************************************************************)
EXTENDS Naturals

CONSTANTS
    Unit,
    Number,     \* names the writes of a unit
    None        \* no state of the database

VARIABLES
    db,         \* the committed writes
    kind,       \* how the unit was declared
    base,       \* the state of the database the unit works on, or None
    pending,    \* what it has written to that state
    shown,      \* the states a reader has been shown
    state

vars == <<db, kind, base, pending, shown, state>>

Kinds == {"write", "readonly", "autocommit"}
Ended == {"committed", "failed", "refused"}

Init ==
    /\ db = {}
    /\ kind \in [Unit -> Kinds]
    /\ base = [u \in Unit |-> None]
    /\ pending = [u \in Unit |-> {}]
    /\ shown = [u \in Unit |-> {}]
    /\ state = [u \in Unit |-> "open"]

-----------------------------------------------------------------------------

\* A writer works on the state of the database as it is when it begins.
Begin(u) ==
    /\ state[u] = "open" /\ kind[u] = "write" /\ base[u] = None
    /\ base' = [base EXCEPT ![u] = db]
    /\ UNCHANGED <<db, kind, pending, shown, state>>

\* A reader is shown the state that it finds first.
Show(u) ==
    /\ state[u] = "open" /\ kind[u] = "readonly"
    /\ base' = [base EXCEPT ![u] = IF @ = None THEN db ELSE @]
    /\ shown' = [shown EXCEPT ![u] = @ \union {base'[u]}]
    /\ UNCHANGED <<db, kind, pending, state>>

Work(u, n) ==
    /\ state[u] = "open" /\ kind[u] = "write" /\ base[u] # None
    /\ pending' = [pending EXCEPT ![u] = @ \union {<<u, n>>}]
    /\ UNCHANGED <<db, kind, base, shown, state>>

Statement(u, n) ==
    /\ state[u] = "open" /\ kind[u] = "autocommit"
    /\ db' = db \union {<<u, n>>}
    /\ UNCHANGED <<kind, base, pending, shown, state>>

End(u, how) ==
    /\ state[u] = "open"
    /\ state' = [state EXCEPT ![u] = how]
    /\ base' = [base EXCEPT ![u] = None]
    /\ pending' = [pending EXCEPT ![u] = {}]
    /\ UNCHANGED <<kind, shown>>

\* Nothing has been committed since a unit that commits writes began.
Commit(u) ==
    /\ kind[u] = "write" => base[u] = db
    /\ db' = db \union pending[u]
    /\ End(u, "committed")

\* By its own doing: an exception, or a write it was not declared to do.
Fail(u) == End(u, "failed") /\ UNCHANGED db

\* By the doing of others.
Refuse(u) == base[u] = None /\ End(u, "refused") /\ UNCHANGED db

Next == \E u \in Unit :
    \/ Begin(u) \/ Show(u) \/ Commit(u) \/ Fail(u) \/ Refuse(u)
    \/ \E n \in Number : Work(u, n) \/ Statement(u, n)

Spec == Init /\ [][Next]_vars
=============================================================================
