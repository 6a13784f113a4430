--------------------------- MODULE MCBatchScoring ---------------------------
(* Instances of BatchScoring for TLC.                                      *)
EXTENDS BatchScoring, TLC

CONSTANTS c1, c2, b1, b2

\* One ordinary batch.
PairList == {<<c1, c2>>}
\* A list with a repeated entry and an empty one next to an ordinary one.
AnyList == {<<c1, c2>>, <<c1, c1>>, <<>>}
SmallLists == {<<c1>>, <<>>}
EmptyList == {<<>>}

Interchangeable ==
    Permutations(Requests) \cup Permutations(Workers)
        \cup Permutations(Coordinators) \cup Permutations(Pollers)
=============================================================================
