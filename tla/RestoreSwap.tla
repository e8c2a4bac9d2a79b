---------------------------- MODULE RestoreSwap ----------------------------
(***************************************************************************)
(* restore() implements Swap: its statements, grouped by what has become   *)
(* of the database.                                                        *)
(***************************************************************************)
EXTENDS Restore

\* The copy aside counts as saved once it is complete, and the database as
\* exposed from then on.
PhaseOf ==
    CASE pc = "idle" -> "idle"
      [] pc \in {"checkpoint", "release", "copyAside", "copyingAside"} -> "saving"
      [] pc \in {"finish", "dropAside"} -> "restored"
      [] pc = "forget" -> "putBack"
      [] OTHER -> "exposed"

OutcomeOf == IF result \in {"error", "crashed"} THEN "interrupted" ELSE result

Promise == INSTANCE Swap WITH
    database <- Visible,
    saved <- IF hadOriginal THEN aside ELSE {},
    phase <- PhaseOf,
    goal <- wanted,
    outcome <- OutcomeOf,
    Pinned <- "checkpoint" \in Faults

\* restore() keeps the promise of Swap: until the original is whole in the copy
\* aside the database reads as it did, and no result is reported before it reads
\* as the backup or as the copy, with no row from a log left behind, unless
\* others have written to the path.
KeepsPromise == Promise!Spec
=============================================================================
