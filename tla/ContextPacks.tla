---------------------------- MODULE ContextPacks ----------------------------
(***************************************************************************)
(* Context artifacts, packs and skill exports, and the hard purge of a     *)
(* resource, which is refused while they refer to it.                      *)
(*                                                                         *)
(* Every change of a pack works under the lock of the pack's parent row on *)
(* versions it loads after it, and is one step.  What is not locked has    *)
(* several: a review writes an artifact it has read before, a draft is     *)
(* made of artifacts checked before, and a purge deletes in statements     *)
(* that come after the ones that looked for references.                    *)
(*                                                                         *)
(* An artifact is a resource map of one snapshot; its content, citations   *)
(* and hash are left out, as are titles and files.                         *)
(***************************************************************************)
EXTENDS Naturals, FiniteSets

CONSTANTS
    Resources, Artifacts, Packs,  \* rows of resources and artifacts, pack keys
    NoResource, NoArtifact, NoPack,
    Drafters, Reviewers, Purgers, \* calls in progress at once, by endpoint
    MaxSnapshot,                  \* bounds the snapshots of a resource
    MaxPackVersion, MaxExport     \* bound the versions of a pack, their exports

ASSUME PackConstants ==
    /\ MaxSnapshot \in Nat /\ MaxPackVersion \in Nat /\ MaxExport \in Nat
    /\ NoResource \notin Resources /\ NoArtifact \notin Artifacts /\ NoPack \notin Packs

VARIABLES
    resource,      \* resources rows; snap numbers the current snapshot, 0 is NULL
    artifact,      \* context_artifacts rows
    packVersions,  \* context_pack_versions with their artifact rows
    exports,       \* skill_exports rows, by pack version
    drafting,      \* what each draft call has checked
    reviewing,     \* the artifact each review call has read as a draft
    purging        \* the resource each purge call has found unreferenced

packVars == <<resource, artifact, packVersions, exports, drafting, reviewing, purging>>

-----------------------------------------------------------------------------
(* Types *)

PackNumbers == 1..MaxPackVersion
ExportNumbers == 1..MaxExport

Resource == [status : {"live", "deleted", "purged"}, snap : 0..MaxSnapshot]

Artifact == [status : {"none", "draft", "approved", "rejected", "failed", "purged"},
             res : Resources \cup {NoResource}, snap : 0..MaxSnapshot]

PackVersion ==
    [status : {"none", "draft", "published", "superseded", "rolled_back",
               "invalidated", "failed"},
     artifacts : SUBSET Artifacts]

\* files: files_json is not empty.
Export == [status : {"none", "draft", "approved", "rejected", "invalidated", "failed"},
           files : BOOLEAN]

PackTypeOK ==
    /\ resource \in [Resources -> Resource]
    /\ artifact \in [Artifacts -> Artifact]
    /\ packVersions \in [Packs -> [PackNumbers -> PackVersion]]
    /\ exports \in [Packs -> [PackNumbers -> [ExportNumbers -> Export]]]
    /\ drafting \in [Drafters -> [pack : Packs \cup {NoPack}, artifacts : SUBSET Artifacts]]
    /\ reviewing \in [Reviewers -> Artifacts \cup {NoArtifact}]
    /\ purging \in [Purgers -> Resources \cup {NoResource}]

NoVersion == [status |-> "none", artifacts |-> {}]
NoExport == [status |-> "none", files |-> FALSE]
NoDraft == [pack |-> NoPack, artifacts |-> {}]

PackInit ==
    /\ resource = [r \in Resources |-> [status |-> "live", snap |-> 0]]
    /\ artifact = [x \in Artifacts |-> [status |-> "none", res |-> NoResource, snap |-> 0]]
    /\ packVersions = [k \in Packs |-> [v \in PackNumbers |-> NoVersion]]
    /\ exports = [k \in Packs |-> [v \in PackNumbers |-> [e \in ExportNumbers |-> NoExport]]]
    /\ drafting = [q \in Drafters |-> NoDraft]
    /\ reviewing = [q \in Reviewers |-> NoArtifact]
    /\ purging = [q \in Purgers |-> NoResource]

-----------------------------------------------------------------------------
(* Helpers *)

Covers(row) == {artifact[x].res : x \in row.artifacts}

\* The number the next version gets: one more than the largest.
Next1(rows, numbers) ==
    {v \in numbers : rows[v].status = "none" /\ \A u \in 1..(v - 1) : rows[u].status # "none"}

SetPack(k, v, status) == packVersions' = [packVersions EXCEPT ![k][v].status = status]

PublishedVersions(k) == {v \in PackNumbers : packVersions[k][v].status = "published"}

\* Two artifacts for the same snapshot of a resource fail the validation.
Duplicates(xs) ==
    \E x, y \in xs : /\ x # y
                     /\ artifact[x].res = artifact[y].res /\ artifact[x].snap = artifact[y].snap

-----------------------------------------------------------------------------
(* Resources, as far as packs depend on them *)

\* A refresh commits a snapshot.
IndexResource(r) ==
    /\ resource[r].status = "live" /\ resource[r].snap < MaxSnapshot
    /\ resource' = [resource EXCEPT ![r].snap = @ + 1]
    /\ UNCHANGED <<artifact, packVersions, exports, drafting, reviewing, purging>>

DeleteResource(r) ==
    /\ resource[r].status = "live"
    /\ resource' = [resource EXCEPT ![r].status = "deleted"]
    /\ UNCHANGED <<artifact, packVersions, exports, drafting, reviewing, purging>>

RestoreResource(r) ==
    /\ resource[r].status = "deleted"
    /\ resource' = [resource EXCEPT ![r].status = "live"]
    /\ UNCHANGED <<artifact, packVersions, exports, drafting, reviewing, purging>>

-----------------------------------------------------------------------------
(* Artifacts *)

\* Compile: a build with the hash of an earlier one is not stored again, but the
\* hash covers the name of the resource, so a snapshot may have several.
CompileArtifact(x, r) ==
    /\ artifact[x].status = "none"
    /\ resource[r].status = "live" /\ resource[r].snap # 0
    /\ \E status \in {"draft", "failed"} :
         artifact' = [artifact EXCEPT
           ![x] = [status |-> status, res |-> r, snap |-> resource[r].snap]]
    /\ UNCHANGED <<resource, packVersions, exports, drafting, reviewing, purging>>

\* Approve and reject check a row they read without a lock ...
ReadForReview(q, x) ==
    /\ reviewing[q] = NoArtifact /\ artifact[x].status = "draft"
    /\ reviewing' = [reviewing EXCEPT ![q] = x]
    /\ UNCHANGED <<resource, artifact, packVersions, exports, drafting, purging>>

\* ... and write it later; the UPDATE of a row that is gone raises.
WriteReview(q, decision) ==
    /\ reviewing[q] # NoArtifact
    /\ artifact' = IF artifact[reviewing[q]].status = "purged" THEN artifact
                   ELSE [artifact EXCEPT ![reviewing[q]].status = decision]
    /\ reviewing' = [reviewing EXCEPT ![q] = NoArtifact]
    /\ UNCHANGED <<resource, packVersions, exports, drafting, purging>>

-----------------------------------------------------------------------------
(* Pack versions *)

\* The artifacts are checked before the pack is locked ...
CheckArtifacts(q, k, xs) ==
    /\ drafting[q] = NoDraft
    /\ xs # {} /\ \A x \in xs : artifact[x].status = "approved"
    /\ drafting' = [drafting EXCEPT ![q] = [pack |-> k, artifacts |-> xs]]
    /\ UNCHANGED <<resource, artifact, packVersions, exports, reviewing, purging>>

\* ... and the version is inserted under its lock; a purged artifact breaks the
\* foreign key and the call.
InsertPackVersion(q) ==
    LET k == drafting[q].pack
        xs == drafting[q].artifacts
    IN
    /\ k # NoPack
    /\ \/ /\ \E x \in xs : artifact[x].status = "purged"
          /\ UNCHANGED packVersions
       \/ /\ \A x \in xs : artifact[x].status # "purged"
          /\ \E v \in Next1(packVersions[k], PackNumbers) :
               packVersions' = [packVersions EXCEPT
                 ![k][v] = [status |-> IF Duplicates(xs) THEN "failed" ELSE "draft",
                            artifacts |-> xs]]
    /\ drafting' = [drafting EXCEPT ![q] = NoDraft]
    /\ UNCHANGED <<resource, artifact, exports, reviewing, purging>>

PublishPack(k, v) ==
    /\ packVersions[k][v].status = "draft"
    /\ packVersions' = [packVersions EXCEPT ![k] =
         [u \in PackNumbers |->
            IF u = v THEN [@[u] EXCEPT !.status = "published"]
            ELSE IF @[u].status = "published" THEN [@[u] EXCEPT !.status = "superseded"]
            ELSE @[u]]]
    /\ UNCHANGED <<resource, artifact, exports, drafting, reviewing, purging>>

\* The current version is taken back for good, an earlier one returns.
RollBackPack(k, v) ==
    /\ packVersions[k][v].status = "superseded" /\ PublishedVersions(k) # {}
    /\ packVersions' = [packVersions EXCEPT ![k] =
         [u \in PackNumbers |->
            IF u = v THEN [@[u] EXCEPT !.status = "published"]
            ELSE IF @[u].status = "published" THEN [@[u] EXCEPT !.status = "rolled_back"]
            ELSE @[u]]]
    /\ UNCHANGED <<resource, artifact, exports, drafting, reviewing, purging>>

InvalidatePack(k, v) ==
    /\ packVersions[k][v].status \notin {"none", "invalidated"}
    /\ SetPack(k, v, "invalidated")
    /\ UNCHANGED <<resource, artifact, exports, drafting, reviewing, purging>>

-----------------------------------------------------------------------------
(* Skill exports, each under the lock of the pack version or of the export *)

\* An export with the hash of an earlier one is not stored again.
GenerateExport(k, v) ==
    /\ packVersions[k][v].status = "published"
    /\ \E e \in Next1(exports[k][v], ExportNumbers), row \in
            {[status |-> "draft", files |-> TRUE], [status |-> "failed", files |-> FALSE]} :
         exports' = [exports EXCEPT ![k][v][e] = row]
    /\ UNCHANGED <<resource, artifact, packVersions, drafting, reviewing, purging>>

\* Whatever the status of the pack version has become.
ReviewExport(k, v, e) ==
    /\ \E decision \in {"approved", "rejected"} :
         /\ \/ exports[k][v][e].status = "draft"
            \/ exports[k][v][e].status = "failed" /\ decision = "rejected"
         /\ exports' = [exports EXCEPT ![k][v][e].status = decision]
    /\ UNCHANGED <<resource, artifact, packVersions, drafting, reviewing, purging>>

\* The files are scrubbed.
InvalidateExport(k, v, e) ==
    /\ exports[k][v][e].status \notin {"none", "invalidated"}
    /\ exports' = [exports EXCEPT ![k][v][e] = [status |-> "invalidated", files |-> FALSE]]
    /\ UNCHANGED <<resource, artifact, packVersions, drafting, reviewing, purging>>

-----------------------------------------------------------------------------
(* Hard purge *)

HeldByPack(r) ==
    \E k \in Packs, v \in PackNumbers :
        LET row == packVersions[k][v] IN
        /\ r \in Covers(row)
        /\ \/ row.status # "invalidated"
           \/ \E e \in ExportNumbers : exports[k][v][e].files

\* The statements that look for references, of a resource read as deleted.
CheckPurge(q, r) ==
    /\ purging[q] = NoResource
    /\ resource[r].status = "deleted" /\ ~HeldByPack(r)
    /\ purging' = [purging EXCEPT ![q] = r]
    /\ UNCHANGED <<resource, artifact, packVersions, exports, drafting, reviewing>>

ArtifactsOf(r) == {x \in Artifacts : artifact[x].res = r}

\* The statements that delete.
PurgeRows(q) ==
    LET r == purging[q] IN
    /\ r # NoResource
    /\ resource' = [resource EXCEPT ![r] = [status |-> "purged", snap |-> 0]]
    /\ artifact' = [x \in Artifacts |->
         IF x \in ArtifactsOf(r) THEN [artifact[x] EXCEPT !.status = "purged"] ELSE artifact[x]]
    /\ packVersions' = [k \in Packs |-> [v \in PackNumbers |->
         [packVersions[k][v] EXCEPT !.artifacts = @ \ ArtifactsOf(r)]]]
    /\ purging' = [purging EXCEPT ![q] = NoResource]
    /\ UNCHANGED <<exports, drafting, reviewing>>

\* A foreign key, or the row is gone: rolled back.
PurgeFails(q) ==
    /\ purging[q] # NoResource
    /\ purging' = [purging EXCEPT ![q] = NoResource]
    /\ UNCHANGED <<resource, artifact, packVersions, exports, drafting, reviewing>>

-----------------------------------------------------------------------------

PackStep ==
    \/ \E r \in Resources : IndexResource(r) \/ DeleteResource(r) \/ RestoreResource(r)
    \/ \E x \in Artifacts, r \in Resources : CompileArtifact(x, r)
    \/ \E q \in Reviewers, x \in Artifacts : ReadForReview(q, x)
    \/ \E q \in Reviewers, decision \in {"approved", "rejected"} : WriteReview(q, decision)
    \/ \E q \in Drafters, k \in Packs, xs \in SUBSET Artifacts : CheckArtifacts(q, k, xs)
    \/ \E q \in Drafters : InsertPackVersion(q)
    \/ \E k \in Packs, v \in PackNumbers :
         \/ PublishPack(k, v) \/ RollBackPack(k, v) \/ InvalidatePack(k, v)
         \/ GenerateExport(k, v)
         \/ \E e \in ExportNumbers : ReviewExport(k, v, e) \/ InvalidateExport(k, v, e)
=============================================================================
