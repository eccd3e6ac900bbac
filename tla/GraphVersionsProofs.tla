------------------------- MODULE GraphVersionsProofs -------------------------
(***************************************************************************)
(* Proofs about GraphVersions: StreamsAgree is inductive for any sets of   *)
(* resources, calls and workers and any bounds, and the properties follow. *)
(* The steps that write graph or versions are proved one lemma each; the   *)
(* others keep the three agreements because what they read is unchanged.   *)
(***************************************************************************)
EXTENDS GraphVersions, TLAPS

-----------------------------------------------------------------------------
(* The helper operators *)

\* Published leaves one published version and moves no version's snapshot.
LEMMA PublishedFacts ==
  ASSUME NEW rows \in [Versions -> Version], NEW v \in Versions
  PROVE  /\ Published(rows, v) \in [Versions -> Version]
         /\ \A u \in Versions : /\ Published(rows, v)[u].snap = rows[u].snap
                                /\ Published(rows, v)[u].status = "published" <=> u = v
                                /\ rows[u].status # "none" => Published(rows, v)[u].status # "none"
<1>1. \A u \in Versions : rows[u] \in Version
  OBVIOUS
<1> QED BY <1>1 DEF Published, Version

\* Drafted adds at most one draft, of the given snapshot.
LEMMA DraftedFacts ==
  ASSUME NEW rows \in [Versions -> Version], NEW v \in Versions, NEW snap \in 0..MaxSnapshot
  PROVE  /\ Drafted(rows, v, snap) \in [Versions -> Version]
         /\ Drafted(rows, v, snap)[v].status # "none"
         /\ rows[v].status = "none" => /\ Drafted(rows, v, snap)[v].snap = snap
                                       /\ Drafted(rows, v, snap)[v].status = "draft"
         /\ rows[v].status # "none" => Drafted(rows, v, snap)[v] = rows[v]
         /\ \A u \in Versions : u # v => Drafted(rows, v, snap)[u] = rows[u]
BY DEF Drafted, Version

\* compile_graph_version yields a new version or a draft of that snapshot.
LEMMA CompiledFacts ==
  ASSUME NEW r \in Resources, NEW snap, NEW v \in Compiled(r, snap)
  PROVE  /\ v \in Versions
         /\ \/ versions[r][v].status = "none"
            \/ versions[r][v].status = "draft" /\ versions[r][v].snap = snap
BY DEF Compiled, NextVersion, LatestDraft

-----------------------------------------------------------------------------
(* Steps *)

\* The first state is typed, and nothing is published or under way in it.
LEMMA InitAgrees == Init => StreamsAgree
<1> SUFFICES ASSUME Init PROVE StreamsAgree
  OBVIOUS
<1> USE GraphConstants
<1>1. TypeOK
  BY DEF Init, TypeOK, Resource, Graph, Version, Versions, Call, Job, IdleJob, Blank
<1>2. PublishedIsCurrent /\ GraphFollowsSnapshot /\ NoVersionAhead
  BY DEF Init, PublishedIsCurrent, GraphFollowsSnapshot, NoVersionAhead, Versions
<1>3. JobsAgree /\ CallsAgree
  BY DEF Init, JobsAgree, CallsAgree, IdleJob, Blank
<1> QED BY <1>1, <1>2, <1>3 DEF StreamsAgree

\* A step of a call that writes no table.
LEMMA ReadingCallAgrees ==
  ASSUME StreamsAgree, NEW q \in Requests,
         UNCHANGED <<resource, graph, versions, job>>,
         \/ Finish(q)
         \/ \E r \in Resources : ResolveForCompile(q, r)
         \/ \E r \in Resources : LoadGraphToPublish(q, r)
         \/ \E v \in Versions : LoadVersionToPublish(q, v)
  PROVE  StreamsAgree'
<1> USE GraphConstants
<1>1. TypeOK'
  <2>1. TypeOK /\ \A p \in Requests : call[p] \in Call
    BY DEF StreamsAgree, TypeOK
  <2>2. CASE Finish(q)
    BY <2>1, <2>2 DEF TypeOK, Finish, Blank, Call
  <2>3. ASSUME NEW r \in Resources, ResolveForCompile(q, r)
        PROVE  TypeOK'
    <3>1. resource[r].snap \in 0..MaxSnapshot
      BY <2>1 DEF TypeOK, Resource
    <3> QED BY <2>1, <2>3, <3>1, ZenonT(60) DEF TypeOK, ResolveForCompile, Call
  <2>4. ASSUME NEW r \in Resources, LoadGraphToPublish(q, r)
        PROVE  TypeOK'
    BY <2>1, <2>4 DEF TypeOK, LoadGraphToPublish, Call
  <2>5. ASSUME NEW v \in Versions, LoadVersionToPublish(q, v), ~Finish(q)
        PROVE  TypeOK'
    <3>1. v \in 0..MaxVersion
      BY DEF Versions
    <3> QED BY <2>1, <2>5, <3>1 DEF TypeOK, LoadVersionToPublish, Call
  <2> QED BY <2>2, <2>3, <2>4, <2>5
<1>2. (PublishedIsCurrent /\ GraphFollowsSnapshot /\ NoVersionAhead /\ JobsAgree)'
  BY DEF StreamsAgree, PublishedIsCurrent, GraphFollowsSnapshot, NoVersionAhead, JobsAgree
<1>3. CallsAgree'
  <2> SUFFICES ASSUME NEW p \in Requests, call'[p].pc \in {"compile", "graph", "publish"}
               PROVE  /\ call'[p].res \in Resources
                      /\ call'[p].pc = "publish" => call'[p].version \in Versions
                      /\ call'[p].pc = "compile" => call'[p].snap <= resource[call'[p].res].snap
    BY DEF CallsAgree
  <2>1. CASE p # q
    <3>1. call'[p] = call[p]
      BY <2>1 DEF StreamsAgree, TypeOK, Finish, ResolveForCompile, LoadGraphToPublish,
                  LoadVersionToPublish
    <3> QED BY <3>1 DEF StreamsAgree, CallsAgree
  <2>2. CASE p = q
    <3>1. CASE Finish(q)
      BY <2>2, <3>1 DEF StreamsAgree, TypeOK, Finish, Blank
    <3>2. ASSUME NEW r \in Resources, ResolveForCompile(q, r)
          PROVE  call'[q].pc = "compile" /\ call'[q].res = r /\ call'[q].snap = resource[r].snap
      BY <3>2 DEF StreamsAgree, TypeOK, ResolveForCompile, Call
    <3>3. ASSUME NEW r \in Resources, LoadGraphToPublish(q, r)
          PROVE  call'[q].pc = "graph" /\ call'[q].res = r
      BY <3>3 DEF StreamsAgree, TypeOK, LoadGraphToPublish, Call
    <3>4. ASSUME NEW v \in Versions, LoadVersionToPublish(q, v), ~Finish(q)
          PROVE  /\ call[q].pc = "graph" /\ call'[q].pc = "publish"
                 /\ call'[q].res = call[q].res /\ call'[q].version = v
      BY <3>4 DEF StreamsAgree, TypeOK, LoadVersionToPublish, Call
    <3>5. \A r \in Resources : resource[r].snap \in Int
      BY DEF StreamsAgree, TypeOK, Resource
    <3> QED BY <2>2, <3>1, <3>2, <3>3, <3>4, <3>5 DEF StreamsAgree, CallsAgree
  <2> QED BY <2>1, <2>2
<1> QED BY <1>1, <1>2, <1>3 DEF StreamsAgree

\* A call that ends still leaves the others as they were.
LEMMA FinishFacts ==
  ASSUME TypeOK, NEW q \in Requests, Finish(q)
  PROVE  /\ call' \in [Requests -> Call]
         /\ call'[q].pc = "done"
         /\ \A p \in Requests : p # q => call'[p] = call[p]
BY GraphConstants DEF TypeOK, Finish, Blank, Call

\* compile writes one draft of a snapshot the resource has had.
LEMMA CompileAgrees ==
  ASSUME StreamsAgree, NEW q \in Requests, CompileDraft(q)
  PROVE  StreamsAgree'
<1> USE GraphConstants
<1> DEFINE r == call[q].res
           snap == call[q].snap
<1>1. /\ r \in Resources /\ snap <= resource[r].snap /\ snap \in 0..MaxSnapshot
      /\ TypeOK /\ ~ResourceLocked(r) /\ Finish(q) /\ UNCHANGED <<resource, job>>
  BY DEF CompileDraft, StreamsAgree, CallsAgree, TypeOK, Call
<1>2. CASE UNCHANGED <<graph, versions>>
  BY <1>1, <1>2, ReadingCallAgrees
<1>3. ASSUME NEW v \in Compiled(r, snap),
             versions' = [versions EXCEPT ![r] = Drafted(versions[r], v, snap)],
             graph' = [graph EXCEPT ![r].status = "active"]
      PROVE  StreamsAgree'
  <2> HIDE DEF r, snap
  <2>1. v \in Versions /\ versions[r] \in [Versions -> Version]
    BY <1>1, CompiledFacts DEF TypeOK
  <2>2. /\ versions'[r] = Drafted(versions[r], v, snap)
        /\ \A x \in Resources : x # r => versions'[x] = versions[x]
        /\ \A x \in Resources : graph'[x].current = graph[x].current
    BY <1>1, <1>3 DEF TypeOK, Graph
  <2>3. \A u \in Versions :
           /\ versions'[r][u].status = "published" <=> versions[r][u].status = "published"
           /\ versions[r][u].status # "none" => versions'[r][u] = versions[r][u]
           /\ versions'[r][u].snap <= resource[r].snap
    <3>1. \A u \in Versions : versions[r][u].snap <= resource[r].snap
      BY <1>1 DEF StreamsAgree, NoVersionAhead
    <3> QED BY <1>1, <2>1, <2>2, <3>1, DraftedFacts
  <2>4. TypeOK'
    <3>1. Drafted(versions[r], v, snap) \in [Versions -> Version]
      BY <1>1, <2>1, DraftedFacts
    <3> QED BY <1>1, <1>3, <3>1, FinishFacts DEF TypeOK, Graph
  <2>5. PublishedIsCurrent'
    BY <1>1, <2>2, <2>3 DEF StreamsAgree, PublishedIsCurrent
  <2>6. GraphFollowsSnapshot'
    <3> SUFFICES ASSUME NEW x \in Resources, graph'[x].current # 0
                 PROVE  versions'[x][graph'[x].current].snap = resource'[x].snap
      BY DEF GraphFollowsSnapshot
    <3>1. graph[x].current \in Versions
      BY <1>1, <2>2 DEF TypeOK, Graph, Versions
    <3>2. versions[x][graph[x].current].status = "published"
      BY <3>1 DEF StreamsAgree, PublishedIsCurrent
    <3>3. versions'[x][graph[x].current] = versions[x][graph[x].current]
      BY <2>2, <2>3, <3>1, <3>2
    <3> QED BY <1>1, <2>2, <3>3 DEF StreamsAgree, GraphFollowsSnapshot
  <2>7. NoVersionAhead'
    BY <1>1, <2>2, <2>3 DEF StreamsAgree, NoVersionAhead
  <2>8. JobsAgree'
    <3>1. \A w \in Workers : job[w].pc # "idle" => job[w].res # r
      BY <1>1 DEF ResourceLocked
    <3> QED BY <1>1, <2>2, <3>1 DEF StreamsAgree, JobsAgree
  <2>9. CallsAgree'
    BY <1>1, FinishFacts DEF StreamsAgree, CallsAgree
  <2> QED BY <2>4, <2>5, <2>6, <2>7, <2>8, <2>9 DEF StreamsAgree
<1> QED BY <1>2, <1>3 DEF CompileDraft

\* A publication: v is of the snapshot that the resource has after it.
LEMMA PublicationAgrees ==
  ASSUME StreamsAgree, NEW r \in Resources, NEW v \in Versions,
         NEW rows \in [Versions -> Version],
         versions' = [versions EXCEPT ![r] = Published(rows, v)],
         \A x \in Resources : x # r => graph'[x].current = graph[x].current,
         graph'[r].current = v,
         \A x \in Resources : x # r => resource'[x].snap = resource[x].snap,
         resource'[r].snap = rows[v].snap,
         \A u \in Versions : rows[u].snap <= rows[v].snap
  PROVE  (PublishedIsCurrent /\ GraphFollowsSnapshot /\ NoVersionAhead)'
<1>1. /\ versions'[r] = Published(rows, v)
      /\ \A x \in Resources : x # r => versions'[x] = versions[x]
  BY DEF StreamsAgree, TypeOK
<1>2. \A u \in Versions : /\ versions'[r][u].snap = rows[u].snap
                          /\ versions'[r][u].status = "published" <=> u = v
  BY <1>1, PublishedFacts
<1>3. PublishedIsCurrent'
  BY <1>1, <1>2 DEF StreamsAgree, PublishedIsCurrent
<1>4. GraphFollowsSnapshot'
  BY <1>1, <1>2 DEF StreamsAgree, GraphFollowsSnapshot
<1>5. NoVersionAhead'
  BY <1>1, <1>2 DEF StreamsAgree, NoVersionAhead
<1> QED BY <1>3, <1>4, <1>5

\* publish: the resource is locked by nobody, and the draft is of its snapshot.
LEMMA PublishAgrees ==
  ASSUME StreamsAgree, NEW q \in Requests, PublishDraft(q)
  PROVE  StreamsAgree'
<1> DEFINE r == call[q].res
           v == call[q].version
<1>1. /\ r \in Resources /\ v \in Versions
      /\ TypeOK /\ ~ResourceLocked(r) /\ Finish(q) /\ UNCHANGED <<resource, job>>
  BY DEF PublishDraft, StreamsAgree, CallsAgree
<1>2. CASE UNCHANGED <<versions, graph>>
  BY <1>1, <1>2, ReadingCallAgrees
<1>3. ASSUME versions[r][v].snap = resource[r].snap,
             versions' = [versions EXCEPT ![r] = Published(versions[r], v)],
             graph' = [graph EXCEPT ![r].current = v]
      PROVE  StreamsAgree'
  <2> HIDE DEF r, v
  <2>1. /\ versions[r] \in [Versions -> Version]
        /\ \A u \in Versions : versions[r][u].snap <= resource[r].snap
    BY <1>1 DEF StreamsAgree, TypeOK, NoVersionAhead
  <2>2. /\ graph'[r].current = v
        /\ \A x \in Resources : x # r => graph'[x].current = graph[x].current
    BY <1>1, <1>3 DEF TypeOK, Graph
  <2>3. TypeOK'
    <3>1. Published(versions[r], v) \in [Versions -> Version]
      BY <1>1, <2>1, PublishedFacts
    <3>2. v \in 0..MaxVersion
      BY <1>1 DEF Versions
    <3> QED BY <1>1, <1>3, <3>1, <3>2, FinishFacts DEF TypeOK, Graph
  <2>4. (PublishedIsCurrent /\ GraphFollowsSnapshot /\ NoVersionAhead)'
    BY <1>1, <1>3, <2>1, <2>2, PublicationAgrees
  <2>5. JobsAgree'
    <3>1. \A w \in Workers : job[w].pc # "idle" => job[w].res # r
      BY <1>1 DEF ResourceLocked
    <3>2. \A x \in Resources : x # r => versions'[x] = versions[x]
      BY <1>1, <1>3 DEF TypeOK
    <3> QED BY <1>1, <3>1, <3>2 DEF StreamsAgree, JobsAgree
  <2>6. CallsAgree'
    BY <1>1, FinishFacts DEF StreamsAgree, CallsAgree
  <2> QED BY <2>3, <2>4, <2>5, <2>6 DEF StreamsAgree
<1> QED BY <1>2, <1>3 DEF PublishDraft

\* invalidate takes the pointer away with the status, and no refresh is about
\* to publish while the graph row is free.
LEMMA InvalidateAgrees ==
  ASSUME StreamsAgree, NEW r \in Resources, NEW v \in Versions, InvalidateVersion(r, v)
  PROVE  StreamsAgree'
<1> USE GraphConstants
<1>1. TypeOK /\ UNCHANGED <<resource, call, job>> /\ versions[r][v] \in Version
  BY DEF InvalidateVersion, StreamsAgree, TypeOK
<1>2. /\ \A x \in Resources : x # r => /\ versions'[x] = versions[x]
                                       /\ graph'[x] = graph[x]
      /\ \A u \in Versions : u # v => versions'[r][u] = versions[r][u]
      /\ versions'[r][v].snap = versions[r][v].snap
      /\ versions'[r][v].status = "invalidated"
      /\ graph'[r].current = IF graph[r].current = v THEN 0 ELSE graph[r].current
  BY <1>1 DEF InvalidateVersion, TypeOK, Graph, Version
<1>3. TypeOK'
  <2>1. versions' \in [Resources -> [Versions -> Version]]
    <3> DEFINE row == [versions[r][v] EXCEPT !.status = "invalidated"]
               rows == [versions[r] EXCEPT ![v] = row]
    <3>1. row \in Version
      BY <1>1 DEF Version
    <3>2. rows \in [Versions -> Version]
      BY <1>1, <3>1 DEF TypeOK
    <3>3. versions' = [versions EXCEPT ![r] = rows]
      BY <1>1 DEF InvalidateVersion, TypeOK
    <3> QED BY <1>1, <3>2, <3>3 DEF TypeOK
  <2>2. graph' \in [Resources -> Graph]
    <3>1. 0 \in 0..MaxVersion /\ graph[r].current \in 0..MaxVersion
      BY <1>1 DEF TypeOK, Graph
    <3> QED BY <1>1, <3>1 DEF InvalidateVersion, TypeOK, Graph
  <2> QED BY <1>1, <2>1, <2>2 DEF TypeOK
<1>4. PublishedIsCurrent'
  <2>1. 0 \notin Versions
    BY DEF Versions
  <2> QED BY <1>2, <2>1 DEF StreamsAgree, PublishedIsCurrent
<1>5. GraphFollowsSnapshot'
  <2> SUFFICES ASSUME NEW x \in Resources, graph'[x].current # 0
               PROVE  versions'[x][graph'[x].current].snap = resource'[x].snap
    BY DEF GraphFollowsSnapshot
  <2>1. graph'[x].current = graph[x].current
    BY <1>2
  <2>2. graph[x].current \in Versions
    BY <1>1, <2>1 DEF TypeOK, Graph, Versions
  <2>3. versions'[x][graph[x].current].snap = versions[x][graph[x].current].snap
    BY <1>2, <2>2
  <2> QED BY <1>1, <2>1, <2>3 DEF StreamsAgree, GraphFollowsSnapshot
<1>6. NoVersionAhead'
  BY <1>1, <1>2 DEF StreamsAgree, NoVersionAhead
<1>7. JobsAgree'
  <2>1. \A w \in Workers : job[w].pc = "synced" => job[w].res # r
    BY DEF InvalidateVersion, GraphLocked
  <2> QED BY <1>1, <1>2, <2>1 DEF StreamsAgree, JobsAgree
<1>8. CallsAgree'
  BY <1>1 DEF StreamsAgree, CallsAgree
<1> QED BY <1>3, <1>4, <1>5, <1>6, <1>7, <1>8 DEF StreamsAgree

\* A step that moves no snapshot, no version and no pointer.
LEMMA StatusStepAgrees ==
  ASSUME StreamsAgree, TypeOK', UNCHANGED <<versions, call, job>>,
         \A x \in Resources : /\ graph'[x].current = graph[x].current
                              /\ resource'[x].snap = resource[x].snap
  PROVE  StreamsAgree'
<1>1. PublishedIsCurrent' /\ NoVersionAhead'
  BY DEF StreamsAgree, PublishedIsCurrent, NoVersionAhead
<1>2. GraphFollowsSnapshot'
  BY DEF StreamsAgree, GraphFollowsSnapshot
<1>3. JobsAgree'
  BY DEF StreamsAgree, JobsAgree
<1>4. CallsAgree'
  BY DEF StreamsAgree, CallsAgree
<1> QED BY <1>1, <1>2, <1>3, <1>4 DEF StreamsAgree

\* What the lifecycle calls may write of a resource row: not its snapshot.
LEMMA ResourceStepFacts ==
  ASSUME TypeOK, NEW r \in Resources,
         \/ ArchiveResource(r) \/ DeleteResource(r) \/ RestoreResource(r) \/ RefuseInactive(r)
  PROVE  /\ resource' \in [Resources -> Resource]
         /\ \A x \in Resources : resource'[x].snap = resource[x].snap
         /\ UNCHANGED graph
<1>1. resource[r] \in Resource
  BY DEF TypeOK
<1>2. ASSUME NEW row \in Resource, row.snap = resource[r].snap,
             resource' = [resource EXCEPT ![r] = row]
      PROVE  /\ resource' \in [Resources -> Resource]
             /\ \A x \in Resources : resource'[x].snap = resource[x].snap
  BY <1>2 DEF TypeOK
<1>3. CASE ArchiveResource(r)
  <2> DEFINE row == [resource[r] EXCEPT !.status = "archived", !.archived = TRUE]
  <2>1. row \in Resource /\ row.snap = resource[r].snap
    BY <1>1 DEF Resource
  <2>2. resource' = [resource EXCEPT ![r] = row] /\ UNCHANGED graph
    BY <1>3 DEF ArchiveResource, TypeOK
  <2> HIDE DEF row
  <2> QED BY <1>2, <2>1, <2>2
<1>4. CASE DeleteResource(r)
  <2> DEFINE row == [resource[r] EXCEPT !.status = "deleted", !.archived = TRUE,
                                        !.deleted = TRUE]
  <2>1. row \in Resource /\ row.snap = resource[r].snap
    BY <1>1 DEF Resource
  <2>2. resource' = [resource EXCEPT ![r] = row] /\ UNCHANGED graph
    BY <1>4 DEF DeleteResource, TypeOK
  <2> HIDE DEF row
  <2> QED BY <1>2, <2>1, <2>2
<1>5. CASE RestoreResource(r)
  <2> DEFINE row == [resource[r] EXCEPT !.status = "active", !.archived = FALSE,
                                        !.deleted = FALSE]
  <2>1. row \in Resource /\ row.snap = resource[r].snap
    BY <1>1 DEF Resource
  <2>2. resource' = [resource EXCEPT ![r] = row] /\ UNCHANGED graph
    BY <1>5 DEF RestoreResource, TypeOK
  <2> HIDE DEF row
  <2> QED BY <1>2, <2>1, <2>2
<1>6. CASE RefuseInactive(r)
  <2> DEFINE row == [resource[r] EXCEPT !.status = "failed"]
  <2>1. row \in Resource /\ row.snap = resource[r].snap
    BY <1>1 DEF Resource
  <2>2. resource' = [resource EXCEPT ![r] = row] /\ UNCHANGED graph
    BY <1>6 DEF RefuseInactive, TypeOK
  <2> HIDE DEF row
  <2> QED BY <1>2, <2>1, <2>2
<1> QED BY <1>3, <1>4, <1>5, <1>6

\* archive, delete and restore, and the run that refuses an inactive resource.
LEMMA LifecycleAgrees ==
  ASSUME StreamsAgree, NEW r \in Resources,
         \/ ArchiveGraph(r) \/ ArchiveResource(r) \/ DeleteResource(r)
         \/ RestoreResource(r) \/ RefuseInactive(r)
  PROVE  StreamsAgree'
<1>1. TypeOK /\ UNCHANGED <<versions, call, job>>
  BY DEF StreamsAgree, ArchiveGraph, ArchiveResource, DeleteResource, RestoreResource,
         RefuseInactive
<1>2. CASE ArchiveGraph(r)
  <2>1. TypeOK' /\ resource' = resource
    BY <1>1, <1>2 DEF ArchiveGraph, TypeOK, Graph
  <2>2. \A x \in Resources : graph'[x].current = graph[x].current
    BY <1>1, <1>2 DEF ArchiveGraph, TypeOK, Graph
  <2> QED BY <1>1, <2>1, <2>2, StatusStepAgrees
<1>3. CASE ArchiveResource(r) \/ DeleteResource(r) \/ RestoreResource(r) \/ RefuseInactive(r)
  <2>1. TypeOK' /\ graph' = graph
    BY <1>1, <1>3, ResourceStepFacts DEF TypeOK
  <2> QED BY <1>1, <1>3, <2>1, ResourceStepFacts, StatusStepAgrees
<1> QED BY <1>2, <1>3

-----------------------------------------------------------------------------
(* Steps of a refresh *)

\* A step of one job that writes no table.
LEMMA JobStepAgrees ==
  ASSUME StreamsAgree, NEW w \in Workers, UNCHANGED <<resource, graph, versions, call>>,
         NEW new \in Job, job' = [job EXCEPT ![w] = new],
         new.pc # "idle" =>
            LET r == new.res IN
            /\ r \in Resources
            /\ \A x \in Workers : x # w /\ job[x].pc # "idle" => job[x].res # r
            /\ new.snap = resource[r].snap \/ new.snap = resource[r].snap + 1
            /\ new.pc = "unchanged" => new.snap = resource[r].snap
            /\ new.pc = "synced" =>
                 /\ new.version \in Versions
                 /\ \/ versions[r][new.version].status = "none"
                    \/ versions[r][new.version].snap = new.snap
  PROVE  StreamsAgree'
<1>1. job'[w] = new /\ \A x \in Workers : x # w => job'[x] = job[x]
  BY DEF StreamsAgree, TypeOK
<1>2. TypeOK'
  BY DEF StreamsAgree, TypeOK
<1>3. (PublishedIsCurrent /\ GraphFollowsSnapshot /\ NoVersionAhead /\ CallsAgree)'
  BY DEF StreamsAgree, PublishedIsCurrent, GraphFollowsSnapshot, NoVersionAhead, CallsAgree
<1>4. JobsAgree'
  BY <1>1 DEF StreamsAgree, JobsAgree
<1> QED BY <1>2, <1>3, <1>4 DEF StreamsAgree

\* Ingest: the resource is locked by nobody else.
LEMMA IngestAgrees ==
  ASSUME StreamsAgree, NEW w \in Workers, NEW r \in Resources, Ingest(w, r)
  PROVE  StreamsAgree'
<1> USE GraphConstants
<1>1. PICK snap \in {resource[r].snap + 1} \cup ({resource[r].snap} \ {0}) :
         /\ snap <= MaxSnapshot
         /\ job' = [job EXCEPT ![w] = [IdleJob EXCEPT !.pc = "ingested", !.res = r, !.snap = snap]]
  BY DEF Ingest
<1> DEFINE new == [IdleJob EXCEPT !.pc = "ingested", !.res = r, !.snap = snap]
<1>2. resource[r].snap \in 0..MaxSnapshot
  BY DEF StreamsAgree, TypeOK, Resource
<1>3. snap \in 0..MaxSnapshot
  BY <1>1, <1>2
<1>4. new \in Job /\ new.pc = "ingested" /\ new.res = r /\ new.snap = snap
  <2>1. IdleJob \in Job
    BY DEF Job, IdleJob
  <2> QED BY <1>3, <2>1 DEF Job
<1>5. \A x \in Workers : job[x].pc # "idle" => job[x].res # r
  BY DEF Ingest, ResourceLocked
<1>6. UNCHANGED <<resource, graph, versions, call>>
  BY DEF Ingest
<1> HIDE DEF new
<1> QED BY <1>1, <1>4, <1>5, <1>6, JobStepAgrees DEF new

\* LoadGraph only remembers what it read.
LEMMA LoadGraphAgrees ==
  ASSUME StreamsAgree, NEW w \in Workers, LoadGraph(w)
  PROVE  StreamsAgree'
<1> USE GraphConstants
<1> DEFINE row == graph[job[w].res]
           new == [job[w] EXCEPT !.pc = "loaded", !.active = row.status = "active",
                                 !.current = IF row.status = "active" THEN row.current ELSE 0]
<1>1. job[w] \in Job /\ job[w].pc = "ingested" /\ job[w].res \in Resources
  BY DEF LoadGraph, StreamsAgree, TypeOK, JobsAgree
<1>2. row.current \in 0..MaxVersion
  BY <1>1 DEF StreamsAgree, TypeOK, Graph
<1>3. new \in Job /\ new.pc = "loaded" /\ new.res = job[w].res /\ new.snap = job[w].snap
  <2>1. (row.status = "active") \in BOOLEAN
    OBVIOUS
  <2>2. (IF row.status = "active" THEN row.current ELSE 0) \in 0..MaxVersion
    BY <1>2
  <2> HIDE DEF row
  <2> QED BY <1>1, <2>1, <2>2 DEF Job
<1>4. job' = [job EXCEPT ![w] = new] /\ UNCHANGED <<resource, graph, versions, call>>
  BY <1>1 DEF LoadGraph, StreamsAgree, TypeOK
<1> HIDE DEF new, row
<1>5. \A x \in Workers : x # w /\ job[x].pc # "idle" => job[x].res # new.res
  BY <1>1, <1>3 DEF StreamsAgree, JobsAgree
<1>6. new.snap = resource[new.res].snap \/ new.snap = resource[new.res].snap + 1
  BY <1>1, <1>3 DEF StreamsAgree, JobsAgree
<1>7. new.pc # "unchanged" /\ new.pc # "synced" /\ new.res \in Resources
  BY <1>1, <1>3
<1> HIDE GraphConstants
<1> QED BY <1>3, <1>4, <1>5, <1>6, <1>7, JobStepAgrees

\* SyncGraph: an unchanged graph is of the current snapshot, because the
\* published version is; a version to publish is new or of the next snapshot.
LEMMA SyncGraphAgrees ==
  ASSUME StreamsAgree, NEW w \in Workers, SyncGraph(w)
  PROVE  StreamsAgree'
<1> USE GraphConstants
<1> DEFINE r == job[w].res
<1>1. /\ job[w] \in Job /\ job[w].pc = "loaded" /\ r \in Resources
      /\ UNCHANGED <<resource, graph, versions, call>>
      /\ \A x \in Workers : x # w /\ job[x].pc # "idle" => job[x].res # r
      /\ job[w].snap = resource[r].snap \/ job[w].snap = resource[r].snap + 1
  BY DEF SyncGraph, StreamsAgree, TypeOK, JobsAgree
<1>2. CASE GraphIsCurrent(w) /\ job' = [job EXCEPT ![w].pc = "unchanged"]
  <2> DEFINE new == [job[w] EXCEPT !.pc = "unchanged"]
  <2>1. new \in Job /\ new.pc = "unchanged" /\ new.res = r /\ new.snap = job[w].snap
    BY <1>1 DEF Job
  <2>2. job' = [job EXCEPT ![w] = new]
    BY <1>2 DEF StreamsAgree, TypeOK
  <2>3. job[w].snap = resource[r].snap
    <3>1. job[w].current \in Versions
      BY <1>1, <1>2 DEF GraphIsCurrent, Job, Versions
    <3>2. graph[r].current = job[w].current
      BY <1>1, <1>2, <3>1 DEF GraphIsCurrent, StreamsAgree, PublishedIsCurrent
    <3> QED BY <1>1, <1>2, <3>2 DEF GraphIsCurrent, StreamsAgree, GraphFollowsSnapshot
  <2> HIDE DEF new
  <2> QED BY <1>1, <2>1, <2>2, <2>3, JobStepAgrees
<1>3. ASSUME NEW v \in Compiled(r, job[w].snap),
             job' = [job EXCEPT ![w].pc = "synced", ![w].version = v]
      PROVE  StreamsAgree'
  <2> DEFINE new == [job[w] EXCEPT !.pc = "synced", !.version = v]
  <2>1. v \in Versions /\ (\/ versions[r][v].status = "none"
                           \/ versions[r][v].snap = job[w].snap)
    BY <1>1, CompiledFacts
  <2>2. v \in 0..MaxVersion
    BY <2>1 DEF Versions
  <2>3. /\ new \in Job /\ new.pc = "synced" /\ new.res = r /\ new.snap = job[w].snap
        /\ new.version = v
    BY <1>1, <2>2 DEF Job
  <2>4. job' = [job EXCEPT ![w] = new]
    BY <1>1, <1>3 DEF StreamsAgree, TypeOK
  <2> HIDE DEF new, r
  <2> QED BY <1>1, <2>1, <2>3, <2>4, JobStepAgrees DEF r
<1> QED BY <1>2, <1>3 DEF SyncGraph

\* The end of a refresh: its job is idle, the others are of other resources.
LEMMA EndedJobFacts ==
  ASSUME StreamsAgree, NEW w \in Workers, job' = [job EXCEPT ![w] = IdleJob]
  PROVE  /\ job' \in [Workers -> Job]
         /\ job'[w].pc = "idle"
         /\ \A x \in Workers : x # w => job'[x] = job[x]
BY GraphConstants DEF StreamsAgree, TypeOK, Job, IdleJob

\* The committed snapshot is the version's, and no version is ahead of it.
LEMMA CommitAgrees ==
  ASSUME StreamsAgree, NEW w \in Workers, CommitRefresh(w)
  PROVE  StreamsAgree' /\ BringsGraph
<1> USE GraphConstants
<1> DEFINE r == job[w].res
           v == job[w].version
           snap == job[w].snap
           rows == Drafted(versions[r], v, snap)
<1>1. /\ TypeOK /\ job[w] \in Job /\ r \in Resources /\ UNCHANGED call
      /\ \A x \in Workers : x # w /\ job[x].pc # "idle" => job[x].res # r
      /\ snap = resource[r].snap \/ snap = resource[r].snap + 1
      /\ job[w].pc = "unchanged" => snap = resource[r].snap
      /\ job' = [job EXCEPT ![w] = IdleJob]
  BY DEF CommitRefresh, StreamsAgree, TypeOK, JobsAgree
<1>2. snap \in 0..MaxSnapshot
  BY <1>1 DEF Job
<1>3. /\ resource' \in [Resources -> Resource]
      /\ resource'[r].snap = snap
      /\ \A x \in Resources : x # r => resource'[x] = resource[x]
      /\ \A x \in Resources : resource[x].snap \in Nat /\ resource[x].snap <= resource'[x].snap
  <2> DEFINE row == [resource[r] EXCEPT !.snap = snap, !.status = "active"]
  <2>1. row \in Resource /\ row.snap = snap
    BY <1>1, <1>2, ZenonT(60) DEF TypeOK, Resource
  <2>2. resource' = [resource EXCEPT ![r] = row]
    BY <1>1 DEF CommitRefresh, TypeOK
  <2>3. \A x \in Resources : resource[x].snap \in Nat
    BY <1>1 DEF TypeOK, Resource
  <2> HIDE DEF row, r, snap
  <2>4. /\ resource' \in [Resources -> Resource]
        /\ resource'[r] = row
        /\ \A x \in Resources : x # r => resource'[x] = resource[x]
    BY <1>1, <2>1, <2>2 DEF TypeOK
  <2> QED BY <1>1, <2>1, <2>3, <2>4
<1>4. CallsAgree'
  BY <1>1, <1>3 DEF StreamsAgree, CallsAgree, TypeOK, Call
<1>5. CASE job[w].pc = "unchanged"
  <2>1. UNCHANGED <<versions, graph>> /\ \A x \in Resources : resource'[x].snap = resource[x].snap
    BY <1>1, <1>3, <1>5 DEF CommitRefresh
  <2>2. TypeOK'
    BY <1>1, <1>3, <2>1, EndedJobFacts DEF TypeOK
  <2>3. (PublishedIsCurrent /\ GraphFollowsSnapshot /\ NoVersionAhead)'
    BY <2>1 DEF StreamsAgree, PublishedIsCurrent, GraphFollowsSnapshot, NoVersionAhead
  <2>4. JobsAgree'
    <3>1. \A x \in Workers : job'[x].pc # "idle" => job'[x] = job[x] /\ job[x].res # r
      BY <1>1, EndedJobFacts
    <3> HIDE DEF r
    <3> QED BY <1>1, <1>3, <2>1, <3>1 DEF StreamsAgree, JobsAgree
  <2> QED BY <1>4, <2>1, <2>2, <2>3, <2>4 DEF StreamsAgree, BringsGraph
<1>6. CASE job[w].pc = "synced"
  <2>1. /\ versions[r] \in [Versions -> Version] /\ v \in Versions
        /\ versions[r][v].status = "none" \/ versions[r][v].snap = snap
        /\ \A u \in Versions : versions[r][u].snap <= resource[r].snap
    BY <1>1, <1>6 DEF StreamsAgree, TypeOK, JobsAgree, NoVersionAhead
  <2>2. /\ versions' = [versions EXCEPT ![r] = Published(rows, v)]
        /\ graph' = [graph EXCEPT ![r].current = v,
                                  ![r].status = IF @ = "none" THEN "active" ELSE @]
    BY <1>6 DEF CommitRefresh
  <2>3. rows \in [Versions -> Version] /\ rows[v].snap = snap
    BY <1>2, <2>1, DraftedFacts
  <2>4. \A u \in Versions : rows[u].snap <= snap
    <3>1. \A u \in Versions : u # v => rows[u] = versions[r][u]
      BY <1>2, <2>1, DraftedFacts
    <3>2. \A u \in Versions : versions[r][u].snap \in Nat
      BY <2>1 DEF Version
    <3>3. resource[r].snap \in Nat /\ resource[r].snap <= snap
      BY <1>1, <1>3
    <3>4. rows[v].snap <= snap
      <4>1. snap \in Nat
        BY <1>2, GraphConstants
      <4> QED BY <2>3, <4>1
    <3>5. ASSUME NEW u \in Versions, u # v
          PROVE  rows[u].snap <= snap
      <4> HIDE DEF rows, v, snap, r
      <4>1. versions[r][u].snap \in Nat /\ versions[r][u].snap <= resource[r].snap
        BY <2>1, <3>2
      <4>2. snap \in Nat
        BY <1>2, GraphConstants
      <4> QED BY <3>1, <3>3, <3>5, <4>1, <4>2
    <3> QED BY <3>4, <3>5
  <2> HIDE DEF rows, v, snap, r
  <2>5. /\ graph' \in [Resources -> Graph]
        /\ graph'[r].current = v
        /\ \A x \in Resources : x # r => graph'[x].current = graph[x].current
    <3>1. v \in 0..MaxVersion
      BY <2>1 DEF Versions
    <3> QED BY <1>1, <2>2, <3>1, ZenonT(60) DEF TypeOK, Graph
  <2>6. /\ versions' \in [Resources -> [Versions -> Version]]
        /\ versions'[r] = Published(rows, v)
        /\ \A x \in Resources : x # r => versions'[x] = versions[x]
    <3>1. Published(rows, v) \in [Versions -> Version]
      BY <2>1, <2>3, PublishedFacts
    <3> QED BY <1>1, <2>2, <3>1 DEF TypeOK
  <2>7. TypeOK'
    BY <1>1, <1>3, <2>5, <2>6, EndedJobFacts DEF TypeOK
  <2>8. (PublishedIsCurrent /\ GraphFollowsSnapshot /\ NoVersionAhead)'
    <3>1. /\ \A x \in Resources : x # r => resource'[x].snap = resource[x].snap
          /\ resource'[r].snap = rows[v].snap
          /\ \A u \in Versions : rows[u].snap <= rows[v].snap
          /\ r \in Resources /\ v \in Versions /\ rows \in [Versions -> Version]
      BY <1>1, <1>3, <2>1, <2>3, <2>4
    <3> QED BY <2>2, <2>5, <3>1, PublicationAgrees
  <2>9. JobsAgree'
    <3>1. \A x \in Workers : job'[x].pc # "idle" => job'[x] = job[x] /\ job[x].res # r
      BY <1>1, EndedJobFacts DEF r
    <3> QED BY <1>1, <1>3, <2>6, <3>1 DEF StreamsAgree, JobsAgree
  <2>10. BringsGraph
    <3> SUFFICES ASSUME NEW x \in Resources, resource'[x].snap # resource[x].snap
                 PROVE  /\ graph'[x].current # 0
                        /\ versions'[x][graph'[x].current].snap = resource'[x].snap
                        /\ versions'[x][graph'[x].current].status = "published"
      BY DEF BringsGraph
    <3>1. x = r
      BY <1>3
    <3> QED BY <1>1, <1>3, <2>1, <2>3, <2>5, <2>6, <3>1, PublishedFacts DEF Versions
  <2> QED BY <1>4, <2>7, <2>8, <2>9, <2>10 DEF StreamsAgree
<1> QED BY <1>5, <1>6 DEF CommitRefresh

\* A refresh that fails leaves the resource's snapshot where it was.
LEMMA FailureAgrees ==
  ASSUME StreamsAgree, NEW w \in Workers, RefreshFails(w)
  PROVE  StreamsAgree'
<1>1. /\ TypeOK /\ job[w].res \in Resources /\ UNCHANGED <<graph, versions, call>>
      /\ job' = [job EXCEPT ![w] = IdleJob]
  BY DEF RefreshFails, StreamsAgree, JobsAgree
<1>2. /\ resource' \in [Resources -> Resource]
      /\ \A x \in Resources : resource'[x].snap = resource[x].snap
  BY <1>1, SMTT(60) DEF RefreshFails, TypeOK, Resource
<1>3. TypeOK'
  BY <1>1, <1>2, EndedJobFacts DEF TypeOK
<1>4. (PublishedIsCurrent /\ GraphFollowsSnapshot /\ NoVersionAhead)'
  BY <1>1, <1>2 DEF StreamsAgree, PublishedIsCurrent, GraphFollowsSnapshot, NoVersionAhead
<1>5. JobsAgree'
  <2>1. \A x \in Workers : job'[x].pc # "idle" => job'[x] = job[x]
    BY <1>1, EndedJobFacts
  <2> QED BY <1>1, <1>2, <2>1 DEF StreamsAgree, JobsAgree
<1>6. CallsAgree'
  BY <1>1, <1>2 DEF StreamsAgree, CallsAgree
<1> QED BY <1>3, <1>4, <1>5, <1>6 DEF StreamsAgree

-----------------------------------------------------------------------------
(* Theorems *)

\* Every step keeps the agreement, and only a commit moves a snapshot.
LEMMA StepAgrees == StreamsAgree /\ [Next]_vars => StreamsAgree' /\ BringsGraph
<1> SUFFICES ASSUME StreamsAgree, [Next]_vars
             PROVE  StreamsAgree' /\ BringsGraph
  OBVIOUS
<1>1. ASSUME \A x \in Resources : resource'[x].snap = resource[x].snap
      PROVE  BringsGraph
  BY <1>1 DEF BringsGraph
<1>2. ASSUME NEW q \in Requests, CallStep(q)
      PROVE  StreamsAgree' /\ BringsGraph
  <2>1. UNCHANGED resource
    BY <1>2 DEF CallStep, ResolveForCompile, LoadGraphToPublish, CompileDraft,
                LoadVersionToPublish, PublishDraft
  <2>2. CASE \E r \in Resources : ResolveForCompile(q, r) \/ LoadGraphToPublish(q, r)
    BY <1>1, <2>1, <2>2, ReadingCallAgrees DEF ResolveForCompile, LoadGraphToPublish
  <2>3. CASE CompileDraft(q)
    BY <1>1, <2>1, <2>3, CompileAgrees
  <2>4. CASE \E v \in Versions : LoadVersionToPublish(q, v)
    BY <1>1, <2>1, <2>4, ReadingCallAgrees DEF LoadVersionToPublish
  <2>5. CASE PublishDraft(q)
    BY <1>1, <2>1, <2>5, PublishAgrees
  <2> QED BY <1>2, <2>2, <2>3, <2>4, <2>5 DEF CallStep
<1>3. ASSUME NEW r \in Resources, RowStep(r)
      PROVE  StreamsAgree' /\ BringsGraph
  <2>1. \A x \in Resources : resource'[x].snap = resource[x].snap
    <3>1. TypeOK
      BY DEF StreamsAgree
    <3>2. CASE UNCHANGED resource
      BY <3>2
    <3>3. CASE ~UNCHANGED resource
      BY <1>3, <3>1, <3>3, ResourceStepFacts DEF RowStep, InvalidateVersion, ArchiveGraph
    <3> QED BY <3>2, <3>3
  <2>2. CASE \E v \in Versions : InvalidateVersion(r, v)
    BY <1>1, <2>1, <2>2, InvalidateAgrees
  <2>3. CASE ~\E v \in Versions : InvalidateVersion(r, v)
    BY <1>1, <1>3, <2>1, <2>3, LifecycleAgrees DEF RowStep
  <2> QED BY <2>2, <2>3
<1>4. ASSUME NEW w \in Workers, WorkerStep(w)
      PROVE  StreamsAgree' /\ BringsGraph
  <2>1. CASE \E r \in Resources : Ingest(w, r)
    BY <1>1, <2>1, IngestAgrees DEF Ingest
  <2>2. CASE LoadGraph(w)
    BY <1>1, <2>2, LoadGraphAgrees DEF LoadGraph
  <2>3. CASE SyncGraph(w)
    BY <1>1, <2>3, SyncGraphAgrees DEF SyncGraph
  <2>4. CASE CommitRefresh(w)
    BY <2>4, CommitAgrees
  <2>5. CASE RefreshFails(w)
    <3>1. \A x \in Resources : resource'[x].snap = resource[x].snap
      BY <2>5 DEF RefreshFails, StreamsAgree, TypeOK, Resource
    <3> QED BY <1>1, <2>5, <3>1, FailureAgrees
  <2> QED BY <1>4, <2>1, <2>2, <2>3, <2>4, <2>5 DEF WorkerStep
<1>5. CASE UNCHANGED vars
  <2>1. UNCHANGED <<resource, graph, versions, call, job>>
    BY <1>5 DEF vars
  <2>2. TypeOK'
    BY <2>1 DEF StreamsAgree, TypeOK
  <2> QED BY <1>1, <2>1, <2>2, StatusStepAgrees
<1> QED BY <1>2, <1>3, <1>4, <1>5 DEF Next

\* Streams, resources and the copies made of them agree in every state.
THEOREM StreamsAlwaysAgree == Spec => []StreamsAgree
BY InitAgrees, StepAgrees, PTL DEF Spec

\* A stream's one published version is its current one, for any number of
\* concurrent publish calls, refreshes and invalidations.
THEOREM PublishedAlwaysCurrent == Spec => []PublishedIsCurrent
<1>1. StreamsAgree => PublishedIsCurrent
  BY DEF StreamsAgree
<1> QED BY <1>1, StreamsAlwaysAgree, PTL

\* The current version is always of the resource's current snapshot.
THEOREM GraphAlwaysFollows == Spec => []GraphFollowsSnapshot
<1>1. StreamsAgree => GraphFollowsSnapshot
  BY DEF StreamsAgree
<1> QED BY <1>1, StreamsAlwaysAgree, PTL

\* A new current snapshot comes with its published graph, in one step.
THEOREM SnapshotAlwaysBringsGraph == Spec => SnapshotBringsGraph
<1>1. StreamsAgree /\ [Next]_vars => [BringsGraph]_vars
  BY StepAgrees
<1> QED BY <1>1, StreamsAlwaysAgree, PTL DEF Spec, SnapshotBringsGraph

=============================================================================
