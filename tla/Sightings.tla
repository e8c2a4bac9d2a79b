----------------------------- MODULE Sightings -----------------------------
(***************************************************************************)
(* What upsert() and session_scope() promise together: a unit of work is a *)
(* list of sightings of keys; it takes effect at once and entirely, or not *)
(* at all.  A key has one row; the sighting that made it gave it its id    *)
(* and the columns that are set once.                                      *)
(***************************************************************************)
EXTENDS Naturals, Sequences

CONSTANTS
    Session,    \* the units of work
    Key,        \* values of the natural key
    Column,     \* the other columns
    Once,       \* those in no_update: first_seen_at
    NoRow,
    Default     \* Column.default

VARIABLES
    rows,       \* the committed table
    program,    \* the calls of upsert() a unit makes
    outcome     \* how a unit has ended

vars == <<rows, program, outcome>>

Outcomes == {"none", "committed", "raised", "busy", "timeout", "deadlock"}

\* What a call writes is told apart by the unit and the place of the call in it.
Value == (Session \X (Nat \ {0})) \union {Default}

\* The calls of unit s on key k, those that write column c of it, given the
\* row it found.
On(s, k) == {i \in DOMAIN program[s] : program[s][i].key = k}
First(s, k) == CHOOSE i \in On(s, k) : \A j \in On(s, k) : i <= j
Writing(s, k, c, row) ==
    {i \in On(s, k) :
       c \in program[s][i].values /\ (c \notin Once \/ (row = NoRow /\ i = First(s, k)))}

Latest(S) == CHOOSE i \in S : \A j \in S : j <= i

\* The row of key k once unit s has seen it.
Seen(s, k, row) ==
    IF On(s, k) = {} THEN row
    ELSE [id |-> IF row = NoRow THEN <<s, First(s, k)>> ELSE row.id,
          columns |-> [c \in Column |->
            IF Writing(s, k, c, row) # {} THEN <<s, Latest(Writing(s, k, c, row))>>
            ELSE IF row = NoRow THEN Default ELSE row.columns[c]]]

Commit(s) ==
    /\ outcome[s] = "none"
    /\ outcome' = [outcome EXCEPT ![s] = "committed"]
    /\ rows' = [k \in Key |-> Seen(s, k, rows[k])]
    /\ UNCHANGED program

Raise(s) ==
    /\ outcome[s] = "none"
    /\ \E why \in Outcomes \ {"none", "committed"} :
         outcome' = [outcome EXCEPT ![s] = why]
    /\ UNCHANGED <<rows, program>>

Init ==
    /\ rows = [k \in Key |-> NoRow]
    /\ program \in [Session -> Seq([key : Key, values : SUBSET Column])]
    /\ outcome = [s \in Session |-> "none"]

Next == \E s \in Session : Commit(s) \/ Raise(s)

Spec == Init /\ [][Next]_vars

=============================================================================
