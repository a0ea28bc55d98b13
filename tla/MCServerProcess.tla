--------------------------- MODULE MCServerProcess ---------------------------
EXTENDS ServerProcess, TLC

CONSTANTS a, b, st, x

\* Both repositories stage their clone in the same directory, as foo.js and
\* foo.ts do.
MCStemOf == [r \in Repos |-> st]

\* A first commit, and a history of a change more that has a conflict.
MCHistories == {
    [changes |-> {Root}, conflicts |-> {}, bookmarks |-> TRUE],
    [changes |-> {Root, x}, conflicts |-> {x}, bookmarks |-> TRUE]}

\* The parts meet only in a crash: one of them is busy in a behaviour.
MCInit ==
    /\ LifeInit /\ SvcInit /\ TaskInit
    /\ left \in {
         [calls |-> 3, ops |-> 0, streams |-> 0, events |-> 0, faults |-> 1, crashes |-> 0],
         [calls |-> 2, ops |-> 0, streams |-> 0, events |-> 0, faults |-> 1, crashes |-> 1],
         [calls |-> 3, ops |-> 0, streams |-> 0, events |-> 2, faults |-> 0, crashes |-> 0],
         [calls |-> 0, ops |-> 3, streams |-> 0, events |-> 0, faults |-> 1, crashes |-> 0],
         [calls |-> 0, ops |-> 3, streams |-> 0, events |-> 1, faults |-> 0, crashes |-> 1],
         [calls |-> 0, ops |-> 0, streams |-> 3, events |-> 0, faults |-> 1, crashes |-> 1]}

MCSpec == MCInit /\ [][ServerNext]_serverVars

Symmetry == Permutations(Clients) \cup Permutations(Repos) \cup Permutations(Orgs)
===============================================================================
