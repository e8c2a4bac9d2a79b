------------------------------ MODULE MCBackups ------------------------------
\* Backups, for two callers, a retention that is ample for them and one that is
\* refused.
EXTENDS Backups, TLC

CONSTANTS a, b, x

TwoCallers == {a, b}
OneOperator == {x}
SomeRetentions == {-1, 2}

Permuted == Permutations(TwoCallers)

=============================================================================
