---------------------------- MODULE GraphVersions ----------------------------
(***************************************************************************)
(* The graph stream of a Git resource: its draft, published, superseded    *)
(* and invalidated versions, the API calls that compile, publish,          *)
(* invalidate and archive it, and the worker's refresh, which advances the *)
(* resource's snapshot and publishes the matching version in the same      *)
(* transaction.                                                            *)
(*                                                                         *)
(* A session keeps the first copy it loads of a row for as long as the     *)
(* program holds on to it: a later SELECT ... FOR UPDATE waits for the     *)
(* lock but does not refresh the copy (no populate_existing).  A publish   *)
(* call holds the graph and the version it loaded before it waited, and    *)
(* decides on those; the resource row it only reads under the lock.        *)
(*                                                                         *)
(* Lifecycle calls are single steps here: IndexRuns has their stages.      *)
(* Purge answers 409 while a resource has a graph and changes nothing.     *)
(***************************************************************************)
EXTENDS Integers

CONSTANTS
    Resources,    \* Git resources, each with at most one graph stream
    Requests,     \* compile and publish calls, each made once
    Workers,      \* RQ worker processes
    MaxSnapshot,  \* bounds the snapshots of a resource
    MaxVersion,   \* bounds the versions of a graph stream
    NoResource

ASSUME GraphConstants ==
    /\ MaxSnapshot \in Nat /\ MaxVersion \in Nat
    /\ NoResource \notin Resources

VARIABLES
    resource,   \* resources rows; snap numbers the current snapshot, 0 is NULL
    graph,      \* graphs rows; current is a version number, 0 is NULL
    versions,   \* graph_versions rows, by resource and version number
    call,       \* progress of each compile or publish call
    job         \* progress of each worker's refresh transaction

vars == <<resource, graph, versions, call, job>>

-----------------------------------------------------------------------------
(* Types *)

Versions == 1..MaxVersion

Resource == [snap : 0..MaxSnapshot,
             status : {"active", "failed", "archived", "deleted"},
             archived : BOOLEAN,
             deleted : BOOLEAN]

Graph == [status : {"none", "active", "archived"}, current : 0..MaxVersion]

Version == [snap : 0..MaxSnapshot,
            status : {"none", "draft", "published", "superseded", "invalidated"}]

Call == [pc : {"new", "compile", "graph", "publish", "done"},
         res : Resources \cup {NoResource},
         snap : 0..MaxSnapshot,      \* the current_snapshot_id a compile loaded
         version : 0..MaxVersion]    \* the version a publish loaded

Job == [pc : {"idle", "ingested", "loaded", "unchanged", "synced"},
        res : Resources \cup {NoResource},
        snap : 0..MaxSnapshot,       \* the snapshot it is about to commit
        active : BOOLEAN,            \* it loaded an active graph row ...
        current : 0..MaxVersion,     \* ... with this current version
        version : 0..MaxVersion]     \* the version it is about to publish

TypeOK ==
    /\ resource \in [Resources -> Resource]
    /\ graph \in [Resources -> Graph]
    /\ versions \in [Resources -> [Versions -> Version]]
    /\ call \in [Requests -> Call]
    /\ job \in [Workers -> Job]

IdleJob == [pc |-> "idle", res |-> NoResource, snap |-> 0, active |-> FALSE,
            current |-> 0, version |-> 0]

Blank(pc) == [pc |-> pc, res |-> NoResource, snap |-> 0, version |-> 0]

Init ==
    /\ resource = [r \in Resources |-> [snap |-> 0, status |-> "active",
                                        archived |-> FALSE, deleted |-> FALSE]]
    /\ graph = [r \in Resources |-> [status |-> "none", current |-> 0]]
    /\ versions = [r \in Resources |-> [v \in Versions |-> [snap |-> 0, status |-> "none"]]]
    /\ call = [q \in Requests |-> Blank("new")]
    /\ job = [w \in Workers |-> IdleJob]

-----------------------------------------------------------------------------
(* Rows and locks *)

\* A refresh keeps its resource row locked from its check to its commit ...
ResourceLocked(r) == \E w \in Workers : job[w].pc # "idle" /\ job[w].res = r

\* ... and the graph row from the moment it compiles.
GraphLocked(r) == \E w \in Workers : job[w].pc = "synced" /\ job[w].res = r

\* What run_index refuses, and the narrower test of compile, publish and merge.
Inactive(row) == row.deleted \/ row.archived \/ row.status \in {"deleted", "archived"}
Withdrawn(row) == row.deleted \/ row.status \in {"deleted", "archived"}

\* The number that follows the highest one of the stream.
NextVersion(r) ==
    {v \in Versions : /\ versions[r][v].status = "none"
                      /\ \A u \in 1..(v - 1) : versions[r][u].status # "none"}

LatestDraft(r) ==
    {v \in Versions : /\ versions[r][v].status = "draft"
                      /\ \A u \in (v + 1)..MaxVersion : versions[r][u].status # "draft"}

\* compile_graph_version reuses the latest draft when its hash is the one it
\* would store.  The hash covers the snapshot and the resource's name and uri;
\* an update may have changed the latter two, so a new draft is possible too.
Compiled(r, snap) ==
    NextVersion(r) \cup {v \in LatestDraft(r) : versions[r][v].snap = snap}

Drafted(rows, v, snap) ==
    IF rows[v].status = "none" THEN [rows EXCEPT ![v] = [snap |-> snap, status |-> "draft"]]
                               ELSE rows

\* publish_graph_version_record: every published version of the stream, found
\* by a fresh query under the graph lock, is superseded.
Published(rows, v) ==
    [u \in Versions |->
        IF u = v THEN [rows[u] EXCEPT !.status = "published"]
        ELSE IF rows[u].status = "published" THEN [rows[u] EXCEPT !.status = "superseded"]
        ELSE rows[u]]

Finish(q) == call' = [call EXCEPT ![q] = Blank("done")]

-----------------------------------------------------------------------------
(* API: compile *)

\* resolve_resource hides deleted resources; archived ones may compile.
ResolveForCompile(q, r) ==
    /\ call[q].pc = "new"
    /\ ~resource[r].deleted /\ resource[r].snap # 0
    /\ call' = [call EXCEPT ![q].pc = "compile", ![q].res = r, ![q].snap = resource[r].snap]
    /\ UNCHANGED <<resource, graph, versions, job>>

\* Under both locks, for the snapshot loaded before.  An archived graph is refused.
CompileDraft(q) ==
    LET r == call[q].res IN
    /\ call[q].pc = "compile" /\ ~ResourceLocked(r)
    /\ \/ graph[r].status = "archived" /\ UNCHANGED <<graph, versions>>
       \/ /\ graph[r].status # "archived"
          /\ \E v \in Compiled(r, call[q].snap) :
               versions' = [versions EXCEPT ![r] = Drafted(@, v, call[q].snap)]
          /\ graph' = [graph EXCEPT ![r].status = "active"]
    /\ Finish(q)
    /\ UNCHANGED <<resource, job>>

-----------------------------------------------------------------------------
(* API: publish.  The graph and the version are read without a lock.        *)

LoadGraphToPublish(q, r) ==
    /\ call[q].pc = "new" /\ graph[r].status = "active"
    /\ call' = [call EXCEPT ![q].pc = "graph", ![q].res = r]
    /\ UNCHANGED <<resource, graph, versions, job>>

\* Only a draft goes on; its status and the graph's are looked at no more.
LoadVersionToPublish(q, v) ==
    LET status == versions[call[q].res][v].status IN
    /\ call[q].pc = "graph" /\ status # "none"
    /\ IF status = "draft" THEN call' = [call EXCEPT ![q].pc = "publish", ![q].version = v]
                           ELSE Finish(q)
    /\ UNCHANGED <<resource, graph, versions, job>>

\* Variant: the draft's snapshot is not compared with the resource's.
PublishAnyDraft(q) ==
    LET r == call[q].res
        v == call[q].version
    IN
    /\ call[q].pc = "publish" /\ ~ResourceLocked(r)
    /\ IF Withdrawn(resource[r])
         THEN UNCHANGED <<versions, graph>>
         ELSE /\ versions' = [versions EXCEPT ![r] = Published(@, v)]
              /\ graph' = [graph EXCEPT ![r].current = v]
    /\ Finish(q)
    /\ UNCHANGED <<resource, job>>

\* Under the locks of resource, graph and version: a withdrawn resource or a
\* draft of an older snapshot is refused.
PublishDraft(q) ==
    LET r == call[q].res
        v == call[q].version
    IN
    /\ call[q].pc = "publish" /\ ~ResourceLocked(r)
    /\ IF Withdrawn(resource[r]) \/ versions[r][v].snap # resource[r].snap
         THEN UNCHANGED <<versions, graph>>
         ELSE /\ versions' = [versions EXCEPT ![r] = Published(@, v)]
              /\ graph' = [graph EXCEPT ![r].current = v]
    /\ Finish(q)
    /\ UNCHANGED <<resource, job>>

-----------------------------------------------------------------------------
(* API: invalidate and archive, on rows first loaded under their locks *)

\* Variant: the pointer of an archived graph is left alone.
InvalidateKeepingPointer(r, v) ==
    /\ ~GraphLocked(r)
    /\ versions[r][v].status \notin {"none", "invalidated"}
    /\ graph[r].current = v => graph[r].status = "archived"
    /\ versions' = [versions EXCEPT ![r][v].status = "invalidated"]
    /\ UNCHANGED <<resource, graph, call, job>>

InvalidateVersion(r, v) ==
    /\ ~GraphLocked(r)
    /\ versions[r][v].status \notin {"none", "invalidated"}
    /\ graph[r].current = v => graph[r].status = "archived"
    /\ versions' = [versions EXCEPT ![r][v].status = "invalidated"]
    /\ graph' = [graph EXCEPT ![r].current = IF @ = v THEN 0 ELSE @]
    /\ UNCHANGED <<resource, call, job>>

\* Every stream has a version, so resource_id is never cleared.
ArchiveGraph(r) ==
    /\ ~GraphLocked(r) /\ graph[r].status # "none"
    /\ graph' = [graph EXCEPT ![r].status = "archived"]
    /\ UNCHANGED <<resource, versions, call, job>>

-----------------------------------------------------------------------------
(* API: lifecycle of the resource *)

ArchiveResource(r) ==
    /\ ~ResourceLocked(r) /\ ~resource[r].deleted
    /\ resource' = [resource EXCEPT ![r].status = "archived", ![r].archived = TRUE]
    /\ UNCHANGED <<graph, versions, call, job>>

DeleteResource(r) ==
    /\ ~ResourceLocked(r) /\ ~resource[r].deleted
    /\ resource' = [resource EXCEPT ![r].status = "deleted", ![r].archived = TRUE,
                                    ![r].deleted = TRUE]
    /\ UNCHANGED <<graph, versions, call, job>>

RestoreResource(r) ==
    /\ ~ResourceLocked(r) /\ Inactive(resource[r])
    /\ resource' = [resource EXCEPT ![r].status = "active", ![r].archived = FALSE,
                                    ![r].deleted = FALSE]
    /\ UNCHANGED <<graph, versions, call, job>>

-----------------------------------------------------------------------------
(* Worker: the transaction of run_index for a Git resource *)

\* Under the row lock: ingest.  A scheduled refresh may find the source
\* unchanged and keep the current snapshot.
Ingest(w, r) ==
    /\ job[w].pc = "idle" /\ ~ResourceLocked(r) /\ ~Inactive(resource[r])
    /\ \E snap \in {resource[r].snap + 1} \cup ({resource[r].snap} \ {0}) :
         /\ snap <= MaxSnapshot
         /\ job' = [job EXCEPT ![w] = [IdleJob EXCEPT !.pc = "ingested", !.res = r, !.snap = snap]]
    /\ UNCHANGED <<resource, graph, versions, call>>

\* An unlocked read of the resource's active graph, kept for the transaction.
LoadGraph(w) ==
    LET row == graph[job[w].res] IN
    /\ job[w].pc = "ingested"
    /\ job' = [job EXCEPT ![w].pc = "loaded", ![w].active = row.status = "active",
                          ![w].current = IF row.status = "active" THEN row.current ELSE 0]
    /\ UNCHANGED <<resource, graph, versions, call>>

\* Variant: the current version's snapshot is compared with the one before.
GraphIsCurrentBefore(w) ==
    LET r == job[w].res IN
    /\ job[w].current # 0
    /\ versions[r][job[w].current].status = "published"
    /\ versions[r][job[w].current].snap = resource[r].snap

\* The loaded graph's current version is published and of this snapshot.
GraphIsCurrent(w) ==
    LET r == job[w].res IN
    /\ job[w].current # 0
    /\ versions[r][job[w].current].status = "published"
    /\ versions[r][job[w].current].snap = job[w].snap

\* Nothing to do, or compile and publish; both wait for the graph lock only
\* when they write.  An archive that commits after LoadGraph goes unnoticed.
\* An archived or an empty graph raises: RefreshFails.
SyncGraph(w) ==
    LET r == job[w].res IN
    /\ job[w].pc = "loaded"
    /\ \/ /\ GraphIsCurrent(w)
          /\ job' = [job EXCEPT ![w].pc = "unchanged"]
       \/ /\ ~GraphIsCurrent(w)
          /\ job[w].active \/ graph[r].status # "archived"
          /\ \E v \in Compiled(r, job[w].snap) :
               job' = [job EXCEPT ![w].pc = "synced", ![w].version = v]
    /\ UNCHANGED <<resource, graph, versions, call>>

CommitRefresh(w) ==
    LET r == job[w].res
        v == job[w].version
    IN
    /\ job[w].pc \in {"unchanged", "synced"}
    /\ resource' = [resource EXCEPT ![r].snap = job[w].snap, ![r].status = "active"]
    /\ IF job[w].pc = "synced"
         THEN /\ versions' = [versions EXCEPT ![r] = Published(Drafted(@, v, job[w].snap), v)]
              /\ graph' = [graph EXCEPT ![r].current = v,
                                        ![r].status = IF @ = "none" THEN "active" ELSE @]
         ELSE UNCHANGED <<versions, graph>>
    /\ job' = [job EXCEPT ![w] = IdleJob]
    /\ UNCHANGED call

\* Any exception: the transaction rolls back, the row is marked failed.
RefreshFails(w) ==
    /\ job[w].pc # "idle"
    /\ resource' = [resource EXCEPT ![job[w].res].status = "failed"]
    /\ job' = [job EXCEPT ![w] = IdleJob]
    /\ UNCHANGED <<graph, versions, call>>

\* A run that finds its resource inactive fails and marks the row all the same.
RefuseInactive(r) ==
    /\ ~ResourceLocked(r) /\ Inactive(resource[r])
    /\ resource' = [resource EXCEPT ![r].status = "failed"]
    /\ UNCHANGED <<graph, versions, call, job>>

-----------------------------------------------------------------------------

CallStep(q) ==
    \/ \E r \in Resources : ResolveForCompile(q, r) \/ LoadGraphToPublish(q, r)
    \/ CompileDraft(q)
    \/ \E v \in Versions : LoadVersionToPublish(q, v)
    \/ PublishDraft(q)

RowStep(r) ==
    \/ \E v \in Versions : InvalidateVersion(r, v)
    \/ ArchiveGraph(r)
    \/ ArchiveResource(r) \/ DeleteResource(r) \/ RestoreResource(r)
    \/ RefuseInactive(r)

WorkerStep(w) ==
    \/ \E r \in Resources : Ingest(w, r)
    \/ LoadGraph(w) \/ SyncGraph(w) \/ CommitRefresh(w) \/ RefreshFails(w)

Next ==
    \/ \E q \in Requests : CallStep(q)
    \/ \E r \in Resources : RowStep(r)
    \/ \E w \in Workers : WorkerStep(w)

Spec == Init /\ [][Next]_vars

-----------------------------------------------------------------------------
(* Properties *)

\* A stream's current version is its one published version, whatever stale
\* copies publish calls, refreshes and invalidations decide on
\* (publish_graph_version_record supersedes what a fresh query finds).
PublishedIsCurrent ==
    \A r \in Resources, v \in Versions :
        versions[r][v].status = "published" <=> graph[r].current = v

\* The step of SnapshotBringsGraph.
BringsGraph ==
    \A r \in Resources :
        resource'[r].snap # resource[r].snap =>
            /\ graph'[r].current # 0
            /\ versions'[r][graph'[r].current].snap = resource'[r].snap
            /\ versions'[r][graph'[r].current].status = "published"

\* A changed Git commit never becomes current unless the matching graph version
\* is published in the same transaction (SPEC.md 13.1), although the refresh
\* read the graph before it locked it.
SnapshotBringsGraph == [][BringsGraph]_vars

\* "For every active Git resource with a current published resource graph, the
\* service invariant is: graph.current_version.source_snapshot_id ==
\* resource.current_snapshot_id" (SPEC.md 13.1), in spite of drafts compiled for
\* an older snapshot, publish calls under way and refreshes that fail.
GraphFollowsSnapshot ==
    \A r \in Resources :
        graph[r].current # 0 => versions[r][graph[r].current].snap = resource[r].snap

-----------------------------------------------------------------------------
(* The inductive invariant *)

\* One refresh at a time, of the current snapshot or the next one; what it is
\* about to publish is a new version or a draft of that snapshot.
JobsAgree ==
    \A w \in Workers : job[w].pc # "idle" =>
        LET r == job[w].res IN
        /\ r \in Resources
        /\ \A x \in Workers : job[x].pc # "idle" /\ job[x].res = r => x = w
        /\ job[w].snap = resource[r].snap \/ job[w].snap = resource[r].snap + 1
        /\ job[w].pc = "unchanged" => job[w].snap = resource[r].snap
        /\ job[w].pc = "synced" =>
             /\ job[w].version \in Versions
             /\ \/ versions[r][job[w].version].status = "none"
                \/ versions[r][job[w].version].snap = job[w].snap

CallsAgree ==
    \A q \in Requests : call[q].pc \in {"compile", "graph", "publish"} =>
        /\ call[q].res \in Resources
        /\ call[q].pc = "publish" => call[q].version \in Versions
        /\ call[q].pc = "compile" => call[q].snap <= resource[call[q].res].snap

\* No version is of a snapshot that the resource has not had.
NoVersionAhead ==
    \A r \in Resources, v \in Versions : versions[r][v].snap <= resource[r].snap

\* What every step keeps, whoever takes it: streams and resources agree, and so
\* do the copies that the refreshes and calls under way have made of them.
StreamsAgree ==
    /\ TypeOK /\ PublishedIsCurrent /\ GraphFollowsSnapshot
    /\ JobsAgree /\ CallsAgree /\ NoVersionAhead
=============================================================================
