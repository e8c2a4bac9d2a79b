----------------------------- MODULE MCSessions -----------------------------
\* Sessions on a pool of two connections: two independent sessions that overlap
\* and one nested in the first, so that a connection is used again and the pool
\* can run dry.
EXTENDS Sessions

CONSTANTS s1, s2, s3, c1, c2

MCThree == {s1, s2, s3}
MCNested == [s \in MCThree |-> IF s = s3 THEN s1 ELSE Nobody]
MCConnection == {c1, c2}
=============================================================================
