------------------------------ MODULE MCHealth ------------------------------
\* Health on a build with one revision, three backups of which the first is
\* stale, and a database under two mount points.
EXTENDS Health

MCName == {"srv", "app", "home"}

MCLocation == <<"srv", "app">>

Mount(point, network) == [point |-> point, network |-> network]

\* No table, a share over a local disk, a local disk over a share.
MCTables ==
    {{},
     {Mount(<<>>, FALSE), Mount(<<"srv">>, TRUE), Mount(<<"home">>, FALSE)},
     {Mount(<<"srv">>, TRUE), Mount(<<"srv", "app">>, FALSE)}}
=============================================================================
