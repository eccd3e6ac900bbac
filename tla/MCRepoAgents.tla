----------------------------- MODULE MCRepoAgents -----------------------------
\* TLC instances of RepoAgents: the constants, given by the .cfg files, and the
\* bound on what is stored at once.
EXTENDS RepoAgents, TLC

CONSTANTS r1, x1, x2, k1, a1, d1, q1, u1

Stored(rows) == Cardinality({v \in DOMAIN rows : rows[v].status # "none"})

\* At most five artifacts and versions of packs, exports and agents together, and
\* only two besides a second artifact.
Bound ==
    Stored(artifact) + Stored(packVersions[k1]) + Stored(agentVersions[a1])
        + Stored(exports[k1][1]) + Stored(exports[k1][2])
            <= IF Stored(artifact) = 2 THEN 4 ELSE 5

\* Artifacts are interchangeable.
Symmetric == Permutations(Artifacts)
=============================================================================
