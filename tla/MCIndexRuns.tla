---------------------------- MODULE MCIndexRuns -----------------------------
\* TLC instances of IndexRuns: the constants only, given by the .cfg files.
EXTENDS IndexRunsInvariant, TLC

CONSTANTS r1, r2, n1, n2, n3, q1, q2, q3, w1, w2, s1, s2

\* Requests, workers, schedulers and runs are interchangeable, and so are the
\* resources of an instance that has no bundle.
Symmetric == Permutations(Requests) \cup Permutations(Workers) \cup Permutations(Runs)

SymmetricResources ==
    Permutations(Resources) \cup Permutations(Schedulers) \cup Permutations(Runs)
=============================================================================
