----------------------------- MODULE GraphMerges -----------------------------
(***************************************************************************)
(* Graph merges: versions compiled from published graph versions of two or *)
(* more resources, the reconcile candidates a reviewer accepts or rejects, *)
(* and the refresh of an input, which invalidates the merges that use it.  *)
(*                                                                         *)
(* Every merge endpoint works under the lock of the merge row, on rows it  *)
(* loads after it; the inputs and the current version it only reads.  The  *)
(* worker takes no merge lock: it selects the dependents of the graph it   *)
(* publishes and writes their status when it commits.                      *)
(*                                                                         *)
(* Nodes and edges are abstracted to the inputs, the candidates to a set   *)
(* found in every merge; there is one strategy.                            *)
(***************************************************************************)
EXTENDS GraphVersions, FiniteSets

CONSTANTS
    Merges,           \* merge keys
    NoMerge,          \* of an idle caller
    Reviewers,        \* callers: compile and publish calls in progress at once
    Candidates,       \* what a compile finds to reconcile
    MaxMergeVersion   \* bounds the versions of a merge

ASSUME MergeConstants ==
    MaxMergeVersion \in Nat /\ IsFiniteSet(Candidates) /\ NoMerge \notin Merges

VARIABLES
    merge,          \* graph_merges rows; current is a version number, 0 is NULL
    mergeVersions,  \* graph_merge_versions with their inputs and candidates
    mergeCall,      \* progress of each merge call
    dependents      \* the merge versions each refresh has selected

mergeVars == <<merge, mergeVersions, mergeCall, dependents>>

-----------------------------------------------------------------------------
(* Types *)

MergeVersionNumbers == 1..MaxMergeVersion

Merge == [status : {"none", "active", "archived"}, current : 0..MaxMergeVersion]

Review == {"open", "reviewed"}   \* accepted or rejected

MergeVersion ==
    [status : {"none", "draft", "published", "superseded", "invalidated"},
     inputs : [Resources -> 0..MaxVersion],                        \* 0: not an input
     review : [Candidates -> Review],
     unresolved : Nat,                                \* unresolved_candidate_count
     acknowledged : BOOLEAN]   \* published with a comment that acknowledges open ones

MergeCall ==
    [pc : {"idle", "compile", "insert", "publish"},
     merge : Merges \cup {NoMerge},
     inputs : [Resources -> 0..MaxVersion],
     version : 0..MaxMergeVersion,
     was : {"none", "published", "invalidated"},      \* status of current as loaded
     acknowledges : BOOLEAN]

MergeTypeOK ==
    /\ merge \in [Merges -> Merge]
    /\ mergeVersions \in [Merges -> [MergeVersionNumbers -> MergeVersion]]
    /\ mergeCall \in [Reviewers -> MergeCall]
    /\ \A q \in Reviewers : mergeCall[q].pc # "idle" => mergeCall[q].merge \in Merges
    /\ dependents \in [Workers -> SUBSET (Merges \X MergeVersionNumbers)]

NoInputs == [r \in Resources |-> 0]

NoMergeVersion == [status |-> "none", inputs |-> NoInputs,
                   review |-> [c \in Candidates |-> "open"], unresolved |-> 0, acknowledged |-> FALSE]

IdleCall == [pc |-> "idle", merge |-> NoMerge, inputs |-> NoInputs, version |-> 0,
             was |-> "none", acknowledges |-> FALSE]

MergeInit ==
    /\ Init
    /\ merge = [m \in Merges |-> [status |-> "none", current |-> 0]]
    /\ mergeVersions = [m \in Merges |-> [v \in MergeVersionNumbers |-> NoMergeVersion]]
    /\ mergeCall = [q \in Reviewers |-> IdleCall]
    /\ dependents = [w \in Workers |-> {}]

-----------------------------------------------------------------------------
(* Helpers *)

\* Variant: the merge is loaded without FOR UPDATE.
NeverLocked(m) == FALSE

\* A publish call keeps the merge row locked from its check to its commit.
MergeLocked(m) == \E q \in Reviewers : mergeCall[q].pc = "publish" /\ mergeCall[q].merge = m

Chosen(inputs) == {r \in Resources : inputs[r] # 0}

OpenCandidates(row) == {c \in Candidates : row.review[c] = "open"}

NextMergeVersion(m) ==
    {v \in MergeVersionNumbers :
        /\ mergeVersions[m][v].status = "none"
        /\ \A u \in 1..(v - 1) : mergeVersions[m][u].status # "none"}

\* The latest draft, when it is of these inputs: compile returns it unchanged.
ReusedDraft(m, inputs) ==
    {v \in MergeVersionNumbers :
        /\ mergeVersions[m][v].status = "draft" /\ mergeVersions[m][v].inputs = inputs
        /\ \A u \in (v + 1)..MaxMergeVersion : mergeVersions[m][u].status # "draft"}

\* The reviews of a candidate in earlier versions of the same inputs.
PriorReviews(m, inputs, c) ==
    {v \in MergeVersionNumbers :
        /\ mergeVersions[m][v].status # "none" /\ mergeVersions[m][v].inputs = inputs
        /\ mergeVersions[m][v].review[c] # "open"}

\* The latest of them is carried over.
Carried(m, inputs, c, review) ==
    LET prior == PriorReviews(m, inputs, c) IN
    \/ prior = {} /\ review = "open"
    \/ \E v \in prior : /\ \A u \in prior : u <= v
                        /\ review = mergeVersions[m][v].review[c]

\* Variant: the candidates are counted by a query before they are flushed.
UncountedDraft(inputs, review) ==
    [status |-> "draft", inputs |-> inputs, review |-> review,
     unresolved |-> 0, acknowledged |-> FALSE]

MergeDraft(inputs, review) ==
    [status |-> "draft", inputs |-> inputs, review |-> review,
     unresolved |-> Cardinality({c \in Candidates : review[c] = "open"}),
     acknowledged |-> FALSE]

\* The draft is reused or added; nothing else in the stream changes.
DraftMerge(m, inputs) ==
    \/ ReusedDraft(m, inputs) # {} /\ UNCHANGED mergeVersions
    \/ /\ ReusedDraft(m, inputs) = {}
       /\ \E v \in NextMergeVersion(m), review \in [Candidates -> Review] :
            /\ \A c \in Candidates : Carried(m, inputs, c, review[c])
            /\ mergeVersions' = [mergeVersions EXCEPT ![m][v] = MergeDraft(inputs, review)]

FinishMergeCall(q) == mergeCall' = [mergeCall EXCEPT ![q] = IdleCall]

-----------------------------------------------------------------------------
(* API: compile *)

\* The inputs are read without a lock: published versions of active graphs whose
\* resources are not withdrawn, two or more.  Anything else is refused.
ResolveInputs(q, m, inputs) ==
    /\ mergeCall[q].pc = "idle" /\ Cardinality(Chosen(inputs)) >= 2
    /\ \A r \in Chosen(inputs) :
         /\ graph[r].status = "active" /\ versions[r][inputs[r]].status = "published"
         /\ ~Withdrawn(resource[r])
    /\ mergeCall' = [mergeCall EXCEPT
         ![q] = [IdleCall EXCEPT !.pc = "compile", !.merge = m, !.inputs = inputs]]
    /\ UNCHANGED <<merge, mergeVersions, dependents>>

\* The merge exists: under its lock, an archived one is refused.
CompileMerge(q) ==
    LET m == mergeCall[q].merge IN
    /\ mergeCall[q].pc = "compile"
    /\ merge[m].status # "none" /\ ~MergeLocked(m)
    /\ \/ merge[m].status = "archived" /\ UNCHANGED mergeVersions
       \/ merge[m].status = "active" /\ DraftMerge(m, mergeCall[q].inputs)
    /\ FinishMergeCall(q)
    /\ UNCHANGED <<merge, dependents>>

\* It does not exist yet: nothing is locked.
FindNoMerge(q) ==
    /\ mergeCall[q].pc = "compile"
    /\ merge[mergeCall[q].merge].status = "none"
    /\ mergeCall' = [mergeCall EXCEPT ![q].pc = "insert"]
    /\ UNCHANGED <<merge, mergeVersions, dependents>>

\* The keys the insert may get: the one asked for, or a suffixed one when
\* another call has inserted that one before this one looks for a free key.
InsertKeys(m) ==
    {m} \cup (IF merge[m].status = "none" THEN {}
              ELSE {n \in Merges : merge[n].status = "none"})

\* The insert, or after an IntegrityError the merge another call has inserted;
\* that one is not asked whether it has been archived since.
InsertMerge(q) ==
    /\ mergeCall[q].pc = "insert"
    /\ \E m \in InsertKeys(mergeCall[q].merge) :
         /\ ~MergeLocked(m)
         /\ DraftMerge(m, mergeCall[q].inputs)
         /\ merge' = [merge EXCEPT ![m].status = IF @ = "none" THEN "active" ELSE @]
    /\ FinishMergeCall(q)
    /\ UNCHANGED dependents

-----------------------------------------------------------------------------
(* API: publish *)

InputUsable(row, r) ==
    /\ versions[r][row.inputs[r]].status \in {"published", "superseded"}
    /\ ~Withdrawn(resource[r])

\* assert_graph_merge_publishable, under the locks of merge and version; then
\* the current version is loaded without a lock.  Callers acknowledge what they
\* must: advanced inputs, and open candidates if the counter says there are any.
CheckMerge(q, m, v) ==
    LET row == mergeVersions[m][v] IN
    /\ mergeCall[q].pc = "idle" /\ ~MergeLocked(m)
    /\ merge[m].status = "active" /\ row.status = "draft"
    /\ \A r \in Chosen(row.inputs) : InputUsable(row, r)
    /\ mergeCall' = [mergeCall EXCEPT
         ![q] = [IdleCall EXCEPT
                   !.pc = "publish", !.merge = m, !.version = v,
                   !.acknowledges = row.unresolved > 0,
                   !.was = IF merge[m].current = 0 THEN "none"
                           ELSE mergeVersions[m][merge[m].current].status]]
    /\ UNCHANGED <<merge, mergeVersions, dependents>>

\* Variant: the current version is not superseded.
NoneReplaced(q) == {}

\* The version that was current and published when it was loaded is superseded,
\* whatever the worker has written to it since.
Replaced(q) == IF mergeCall[q].was = "published" THEN {merge[mergeCall[q].merge].current} ELSE {}

PublishMerge(q) ==
    LET m == mergeCall[q].merge
        v == mergeCall[q].version
    IN
    /\ mergeCall[q].pc = "publish"
    /\ mergeVersions' = [mergeVersions EXCEPT ![m] =
         [u \in MergeVersionNumbers |->
            IF u = v THEN [@[u] EXCEPT !.status = "published",
                                       !.acknowledged = mergeCall[q].acknowledges]
            ELSE IF u \in Replaced(q) THEN [@[u] EXCEPT !.status = "superseded"]
            ELSE @[u]]]
    /\ merge' = [merge EXCEPT ![m].current = v]
    /\ FinishMergeCall(q)
    /\ UNCHANGED dependents

-----------------------------------------------------------------------------
(* API: invalidate, archive and review, each under the lock of the merge *)

InvalidateMergeVersion(m, v) ==
    /\ ~MergeLocked(m)
    /\ mergeVersions[m][v].status \notin {"none", "invalidated"}
    /\ merge[m].current = v => merge[m].status = "archived"
    /\ mergeVersions' = [mergeVersions EXCEPT ![m][v].status = "invalidated",
                                              ![m][v].acknowledged = FALSE]
    /\ merge' = [merge EXCEPT ![m].current = IF @ = v THEN 0 ELSE @]
    /\ UNCHANGED <<mergeCall, dependents>>

ArchiveMerge(m) ==
    /\ ~MergeLocked(m) /\ merge[m].status # "none"
    /\ merge' = [merge EXCEPT ![m].status = "archived"]
    /\ UNCHANGED <<mergeVersions, mergeCall, dependents>>

\* In versions of any status.  The open candidates are counted by a query that
\* runs before the new status is flushed.
ReviewCandidate(m, v, c) ==
    /\ ~MergeLocked(m) /\ mergeVersions[m][v].status # "none"
    /\ mergeVersions' = [mergeVersions EXCEPT
         ![m][v].review[c] = "reviewed",
         ![m][v].unresolved = Cardinality(OpenCandidates(mergeVersions[m][v]))]
    /\ UNCHANGED <<merge, mergeCall, dependents>>

-----------------------------------------------------------------------------
(* Worker: the refresh of an input *)

\* Current published versions of active merges that use another version of r.
Dependents(r, version) ==
    {d \in Merges \X MergeVersionNumbers :
        LET row == mergeVersions[d[1]][d[2]] IN
        /\ merge[d[1]].status = "active" /\ merge[d[1]].current = d[2]
        /\ row.status = "published"
        /\ row.inputs[r] \notin {0, version}}

SyncAndSelect(w) ==
    /\ SyncGraph(w)
    /\ dependents' = [dependents EXCEPT
         ![w] = IF job'[w].pc = "synced" THEN Dependents(job[w].res, job'[w].version) ELSE {}]
    /\ UNCHANGED <<merge, mergeVersions, mergeCall>>

\* The pointer of an invalidated merge is kept.
CommitAndInvalidate(w) ==
    /\ CommitRefresh(w)
    /\ mergeVersions' = [m \in Merges |-> [v \in MergeVersionNumbers |->
         IF <<m, v>> \in dependents[w]
           THEN [mergeVersions[m][v] EXCEPT !.status = "invalidated",
                                              !.acknowledged = FALSE]
           ELSE mergeVersions[m][v]]]
    /\ dependents' = [dependents EXCEPT ![w] = {}]
    /\ UNCHANGED <<merge, mergeCall>>

FailWithDependents(w) ==
    /\ RefreshFails(w)
    /\ dependents' = [dependents EXCEPT ![w] = {}]
    /\ UNCHANGED <<merge, mergeVersions, mergeCall>>

-----------------------------------------------------------------------------

\* Steps of the graph streams that neither read nor write a merge.
StreamStep ==
    /\ \/ \E q \in Requests : CallStep(q)
       \/ \E r \in Resources : RowStep(r)
       \/ \E w \in Workers : LoadGraph(w) \/ \E r \in Resources : Ingest(w, r)
    /\ UNCHANGED mergeVars

RefreshStep(w) == SyncAndSelect(w) \/ CommitAndInvalidate(w) \/ FailWithDependents(w)

MergeCallStep(q) ==
    \/ \E m \in Merges, inputs \in [Resources -> 0..MaxVersion] : ResolveInputs(q, m, inputs)
    \/ CompileMerge(q) \/ FindNoMerge(q) \/ InsertMerge(q)
    \/ \E m \in Merges, v \in MergeVersionNumbers : CheckMerge(q, m, v)
    \/ PublishMerge(q)

MergeRowStep(m) ==
    \/ \E v \in MergeVersionNumbers :
         \/ InvalidateMergeVersion(m, v)
         \/ \E c \in Candidates : ReviewCandidate(m, v, c)
    \/ ArchiveMerge(m)

MergeNext ==
    \/ StreamStep
    \/ \E w \in Workers : RefreshStep(w)
    \/ /\ \/ \E q \in Reviewers : MergeCallStep(q)
          \/ \E m \in Merges : MergeRowStep(m)
       /\ UNCHANGED vars

MergeSpec == MergeInit /\ [][MergeNext]_<<vars, mergeVars>>

-----------------------------------------------------------------------------
(* Properties *)

\* A merge points to a published version, or to one that a refresh of an input
\* has invalidated (E1-graph-merge 4.2), and no other version is published: a
\* publish call and a refresh that write the current version in either order
\* leave no second published one and no pointer to a superseded one.
MergePointer ==
    \A m \in Merges :
        /\ merge[m].current # 0 =>
             mergeVersions[m][merge[m].current].status \in {"published", "invalidated"}
        /\ \A v \in MergeVersionNumbers :
             mergeVersions[m][v].status = "published" => merge[m].current = v

\* "if unresolved candidates exist, publish returns 422 unless" they are
\* acknowledged: a published version with an open candidate says so, although
\* the check looks at a counter that reviews, recompiles and carried reviews
\* maintain.
OpenIsAcknowledged ==
    \A m \in Merges, v \in MergeVersionNumbers :
        LET row == mergeVersions[m][v] IN
        row.status = "published" /\ OpenCandidates(row) # {} => row.acknowledged

\* What publish calls and refreshes under way rely on: the version being
\* published is still a draft of a merge nobody else publishes; the current
\* version is as it was loaded, or invalidated meanwhile; the versions a refresh
\* is about to invalidate have been published; and a counter at zero means that
\* no candidate is open.  With the type invariant it is inductive.
MergeCallAgrees(q) ==
    LET m == mergeCall[q].merge
        row == mergeVersions[m][mergeCall[q].version]
        c == merge[m].current
    IN
    /\ m \in Merges /\ mergeCall[q].version \in MergeVersionNumbers
    /\ row.status = "draft"
    /\ OpenCandidates(row) # {} => mergeCall[q].acknowledges
    /\ mergeCall[q].was = "none" <=> c = 0
    /\ mergeCall[q].was = "invalidated" => mergeVersions[m][c].status = "invalidated"
    /\ \A p \in Reviewers : mergeCall[p].pc = "publish" /\ mergeCall[p].merge = m => p = q

MergeCallsAgree == \A q \in Reviewers : mergeCall[q].pc = "publish" => MergeCallAgrees(q)

DependentsWerePublished ==
    \A w \in Workers : \A d \in dependents[w] :
        mergeVersions[d[1]][d[2]].status \in {"published", "superseded", "invalidated"}

CounterCoversOpen ==
    \A m \in Merges, v \in MergeVersionNumbers :
        LET row == mergeVersions[m][v] IN
        row.status # "none" /\ row.unresolved = 0 => OpenCandidates(row) = {}

MergesAgree ==
    /\ MergeTypeOK
    /\ MergePointer /\ OpenIsAcknowledged
    /\ MergeCallsAgree /\ DependentsWerePublished /\ CounterCoversOpen

-----------------------------------------------------------------------------
(* What the repository says and the code does not keep *)

\* "E1 candidate review updates candidate status and publish gating": a draft
\* without open candidates is not gated any more.
ReviewedIsPublishable ==
    \A m \in Merges, v \in MergeVersionNumbers :
        LET row == mergeVersions[m][v] IN
        row.status = "draft" /\ OpenCandidates(row) = {} => row.unresolved = 0
=============================================================================
