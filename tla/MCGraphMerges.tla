---------------------------- MODULE MCGraphMerges ----------------------------
\* TLC instances of GraphMerges: the constants, given by the .cfg files, and the
\* bounds on the streams of the inputs.
EXTENDS GraphMerges, TLC

CONSTANTS r1, r2, q1, q2, q3, w1, w2, m1, p1, p2, c1

\* Calls and workers are interchangeable; resources are not, the bounds single one out.
Symmetric == Permutations(Requests) \cup Permutations(Workers) \cup Permutations(Reviewers)

\* The stream of r1 alone: no merge, and nothing happens to the other resource.
StreamAlone ==
    /\ \A m \in Merges : merge[m].status = "none"
    /\ \A q \in Reviewers : mergeCall[q].pc = "idle"
    /\ \A r \in Resources \ {r1} :
        /\ resource[r].status = "active" /\ resource[r].snap = 0 /\ graph[r].status = "none"
        /\ \A w \in Workers : job[w].res # r

\* Merges over two streams, refreshed by one worker.  Only r1 is refreshed twice and
\* archived; behaviours in which a resource fails or is deleted, or a stream is archived
\* or loses a version, are cut there.
MergesOverStreams ==
    /\ \A q \in Requests : call[q].pc = "new"
    /\ \A w, x \in Workers : w # x => job[w].pc = "idle" \/ job[x].pc = "idle"
    /\ \A r \in Resources :
        /\ resource[r].status \in {"active", "archived"} /\ graph[r].status # "archived"
        /\ \A v \in Versions : versions[r][v].status # "invalidated" /\ (v > 2 => versions[r][v].status = "none")
        /\ r # r1 => /\ resource[r].status = "active" /\ resource[r].snap <= 1
                     /\ versions[r][2].status = "none"

Bound == StreamAlone \/ MergesOverStreams
=============================================================================
