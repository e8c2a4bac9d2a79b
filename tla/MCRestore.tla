----------------------------- MODULE MCRestore -----------------------------
\* Restore on two rows: enough for an original, a backup that shares a row with
\* it or shares none, and a commit that is only in the log.
EXTENDS RestoreSwap, TLC

CONSTANTS r1, r2

MCRow == {r1, r2}

Symmetric == Permutations({r1, r2})
=============================================================================
