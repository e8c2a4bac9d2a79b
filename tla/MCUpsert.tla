------------------------------ MODULE MCUpsert ------------------------------
\* Upsert for three units: first and later sightings of two keys, in both
\* orders, twice of one key, and a call that updates nothing.
EXTENDS Upsert, TLC

CONSTANTS a, b, c, k, l, first, last, extra

Sessions == {a, b, c}
Keys == {k, l}
Columns == {first, last, extra}
SetOnce == {first}

See(x) == [key |-> x, values |-> {first, last}]
Note(x) == [key |-> x, values |-> {first, extra}]
Nothing(x) == [key |-> x, values |-> {first}]

SomePrograms ==
    {<<See(k)>>, <<See(k), See(l)>>, <<See(l), Note(k)>>,
     <<See(k), Note(k)>>, <<Note(k), Nothing(l)>>}

Permuted == Permutations(Sessions)

=============================================================================
