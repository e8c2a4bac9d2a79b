---------------------------- MODULE MCMigration ----------------------------
\* Migration with one or two runners and a history of two revisions: a call can
\* fail between the first and the second.
EXTENDS Migration, TLC

CONSTANTS w1, w2, r1, i1, i2, i3, i4

MCOne == {w1}
MCTwo == {w1, w2}
MCNoRow == {}
MCRow == {r1}
MCUp == {"upgrade"}
MCBoth == {"upgrade", "downgrade"}
MCInode == {i1, i2, i3, i4}

\* Runners and inodes are interchangeable.
MCSymmetry == Permutations(Runner) \union Permutations(Inode)
=============================================================================
