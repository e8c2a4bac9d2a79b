-------------------------------- MODULE Swap --------------------------------
(***************************************************************************)
(* What restore() promises, without files: a database is replaced by a     *)
(* backup.  First what it holds is saved; only then is it exposed, that    *)
(* is, it may hold anything; and before the call may report a result it    *)
(* holds the backup, or again what was saved.  The call may be interrupted *)
(* at any time, and leaves database and saved copy as they are.            *)
(***************************************************************************)

CONSTANTS
    Row,        \* the rows an application may commit
    File,       \* whatever a file may hold
    NoFile,     \* no file
    Torn,       \* a file that is not a readable database
    Pinned      \* TRUE if a reader elsewhere may keep commits out of the copy

VARIABLES
    database,   \* what a connection would read
    saved,      \* what the call can fall back on
    phase,
    goal,       \* the backup to be restored
    outcome,    \* how the last call ended
    disturbed   \* others have opened the database during the call's swap

vars == <<database, saved, phase, goal, outcome, disturbed>>

Image == SUBSET Row
Phases == {"idle", "saving", "exposed", "restored", "putBack"}
Outcomes == {"none", "refused", "restored", "putBack", "interrupted"}

Init ==
    /\ database \in File
    /\ saved \in File
    /\ phase = "idle"
    /\ goal \in Image
    /\ outcome = "none"
    /\ disturbed = FALSE

-----------------------------------------------------------------------------

Commit(r) ==
    /\ phase = "idle" /\ database # Torn
    /\ database' = database \union {r}
    /\ UNCHANGED <<saved, phase, goal, outcome, disturbed>>

Refuse ==
    /\ phase = "idle"
    /\ outcome' = "refused"
    /\ UNCHANGED <<database, saved, phase, goal, disturbed>>

Begin(b) ==
    /\ phase = "idle" /\ phase' = "saving"
    /\ goal' = b
    /\ disturbed' = FALSE
    /\ UNCHANGED <<database, saved, outcome>>

\* While the copy is made it holds nothing that can be relied on.
Saving ==
    /\ phase = "saving"
    /\ saved' \in File
    /\ UNCHANGED <<database, phase, goal, outcome, disturbed>>

Save ==
    /\ phase = "saving" /\ phase' = "exposed"
    /\ \/ saved' = database
       \/ Pinned /\ saved' \in Image /\ saved' \subseteq database
    /\ UNCHANGED <<database, goal, outcome, disturbed>>

Expose ==
    /\ phase = "exposed"
    /\ database' \in File
    /\ UNCHANGED <<saved, phase, goal, outcome, disturbed>>

Restored ==
    /\ phase = "exposed" /\ phase' = "restored"
    /\ database' = goal \/ (disturbed /\ database' = database)
    /\ UNCHANGED <<saved, goal, outcome, disturbed>>

PutBack ==
    /\ phase = "exposed" /\ phase' = "putBack"
    /\ database' = saved
    /\ UNCHANGED <<saved, goal, outcome, disturbed>>

\* Others may still be there, or come, when the database is whole again.
Intrude ==
    /\ phase \in {"exposed", "restored", "putBack"}
    /\ disturbed' = TRUE
    /\ database' \in File
    /\ UNCHANGED <<saved, phase, goal, outcome>>

\* Only now may the copy go.
Return ==
    /\ phase \in {"restored", "putBack"}
    /\ outcome' = phase
    /\ phase' = "idle"
    /\ saved' \in {saved, NoFile}
    /\ UNCHANGED <<database, goal, disturbed>>

\* Where there was nothing to save, putting back and returning are one.
PutBackNothing ==
    /\ phase = "exposed" /\ phase' = "idle"
    /\ saved = {} /\ database' = {}
    /\ outcome' = "putBack"
    /\ UNCHANGED <<saved, goal, disturbed>>

Interrupt ==
    /\ phase # "idle" /\ phase' = "idle"
    /\ outcome' = "interrupted"
    /\ UNCHANGED <<database, saved, goal, disturbed>>

-----------------------------------------------------------------------------

Next ==
    \/ \E r \in Row : Commit(r)
    \/ \E b \in Image : Begin(b)
    \/ Refuse \/ Saving \/ Save \/ Expose \/ Restored \/ PutBack \/ Intrude \/ Return
    \/ PutBackNothing \/ Interrupt

Spec == Init /\ [][Next]_vars
=============================================================================
