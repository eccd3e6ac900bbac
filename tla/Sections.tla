------------------------------ MODULE Sections ------------------------------
(***************************************************************************)
(* Folder bundles in versions.  Each upload is a resource of its own that  *)
(* may supersede an earlier one of the family; a worker splits its files   *)
(* into sections, which the versions of a family share, and takes over     *)
(* those of files that did not change.  Purging a version races with the   *)
(* workers of the others; foreign keys decide.                             *)
(***************************************************************************)
EXTENDS Naturals, FiniteSets, Sequences

CONSTANTS
    MaxVersions,   \* bounds the uploads; version 1 is the root of the family
    Files,         \* paths, every one of a kind that is split into sections
    Texts,         \* contents: the sequence of the hashes of their sections
    Missing,       \* stands for no file
    Bundles        \* what is uploaded: a text for every path, or Missing

ASSUME SectionConstants ==
    /\ MaxVersions \in Nat \ {0} /\ IsFiniteSet(Files)
    /\ Missing \notin Texts /\ \A t \in Texts : t \in Seq(Nat)
    /\ Bundles \subseteq [Files -> Texts \cup {Missing}]
    /\ \A files \in Bundles : \E p \in Files : files[p] # Missing

VARIABLES
    versions,      \* the resources of the family, with manifest and snapshot sections
    sections,      \* the sections table
    builds,        \* what the worker of a version has read
    purges         \* versions whose purge has passed its checks

sectionVars == <<versions, sections, builds, purges>>

-----------------------------------------------------------------------------
(* Types *)

VersionNumbers == 1..MaxVersions
FamilyRoot == 1

\* What logical_section_key hashes, inside a family and for one extraction policy.
SectionKey == [path : Files, hash : Nat, ordinal : Nat]

KeysOf(p, text) ==
    IF text = Missing THEN {}
    ELSE {[path |-> p, hash |-> text[i], ordinal |-> i] : i \in DOMAIN text}

SectionRow(key, from) == [key |-> key, from |-> from]

NoCounts == [previous |-> 0, deleted |-> 0, absent |-> 0]

\* over is the superseded version, 0 for none; a row's from is the version whose
\* snapshot it was reused from, 0 when it was extracted.
NewVersion(files, over) ==
    [state |-> "queued", deleted |-> FALSE, over |-> over, files |-> files, rows |-> {},
     counts |-> NoCounts]

Unuploaded == [state |-> "none", deleted |-> FALSE, over |-> 0,
               files |-> [p \in Files |-> Missing], rows |-> {}, counts |-> NoCounts]

NoBuild == [step |-> "none", previous |-> {}, known |-> {}]

SectionTypeOK ==
    /\ \A v \in VersionNumbers :
        /\ versions[v].state \in {"none", "queued", "running", "indexed", "failed", "purged"}
        /\ versions[v].over \in 0..(v - 1)
        /\ versions[v].files \in [Files -> Texts \cup {Missing}]
        /\ \A row \in versions[v].rows : row.key \in SectionKey /\ row.from \in 0..(v - 1)
        /\ builds[v].step \in {"none", "previous", "selected"} /\ builds[v].known \subseteq SectionKey
    /\ sections \subseteq SectionKey
    /\ purges \subseteq VersionNumbers

SectionInit ==
    /\ versions = [v \in VersionNumbers |-> Unuploaded]
    /\ sections = {}
    /\ builds = [v \in VersionNumbers |-> NoBuild]
    /\ purges = {}

Present(v) == versions[v].state \notin {"none", "purged"}

-----------------------------------------------------------------------------
(* Upload, delete, restore *)

\* The superseded resource is not deleted.
UploadVersion(v) ==
    /\ versions[v].state = "none" /\ \A w \in 1..(v - 1) : versions[w].state # "none"
    /\ \E files \in Bundles,
          over \in IF v = FamilyRoot THEN {0}
                   ELSE {w \in 1..(v - 1) : Present(w) /\ ~versions[w].deleted} :
        versions' = [versions EXCEPT ![v] = NewVersion(files, over)]
    /\ UNCHANGED <<sections, builds, purges>>

\* The worker of v holds its row from reading it to its commit.
ToggleDeleted(v) ==
    /\ Present(v) /\ builds[v].step = "none"
    /\ versions' = [versions EXCEPT ![v].deleted = ~@]
    /\ UNCHANGED <<sections, builds, purges>>

-----------------------------------------------------------------------------
(* The worker: ingest_resource down to build_snapshot_sections *)

\* The staged zip is gone when a run ends, so that a version is indexed once or never.
FailBuild(v) ==
    /\ versions[v].state \in {"queued", "running"}
    /\ versions' = [versions EXCEPT ![v].state = "failed"]
    /\ builds' = [builds EXCEPT ![v] = NoBuild]
    /\ UNCHANGED <<sections, purges>>

\* _previous_sections: a superseded version without a snapshot leaves nothing to reuse.
PreviousRows(v) ==
    LET w == versions[v].over
    IN  IF w # 0 /\ versions[w].state = "indexed" THEN versions[w].rows ELSE {}

ReadPrevious(v) ==
    /\ versions[v].state = "queued" /\ ~versions[v].deleted
    /\ versions' = [versions EXCEPT ![v].state = "running"]
    /\ builds' = [builds EXCEPT ![v] = [step |-> "previous", previous |-> PreviousRows(v), known |-> {}]]
    /\ UNCHANGED <<sections, purges>>

At(rows, p) == {row \in rows : row.key.path = p}

\* Mutant: the hash of the file is not compared.
UnchangedByPath(v, p) == versions[v].files[p] # Missing /\ At(builds[v].previous, p) # {}

\* A file keeps its sections when its hash is that of the superseded version's.
Unchanged(v, p) ==
    /\ versions[v].files[p] # Missing /\ At(builds[v].previous, p) # {}
    /\ versions[versions[v].over].files[p] = versions[v].files[p]

Kept(v) == {p \in Files : Unchanged(v, p)}
ToExtract(v) == UNION {KeysOf(p, versions[v].files[p]) : p \in Files \ Kept(v)}

\* _upsert_section takes a section that is there.
SelectKnown(v) ==
    /\ builds[v].step = "previous"
    /\ builds' = [builds EXCEPT ![v].step = "selected", ![v].known = ToExtract(v) \cap sections]
    /\ UNCHANGED <<versions, sections, purges>>

\* The section of the superseded version that an extracted one continues: the one at
\* its own place, else the first of its path and text that none has claimed.
Claimed(key, previous, taken) ==
    LET free == {l \in previous \ taken : l.path = key.path /\ l.hash = key.hash}
    IN  IF key \in previous THEN {key}
        ELSE {l \in free : \A other \in free : l.ordinal <= other.ordinal}

MappedAt(v, p) ==
    LET previous == {row.key : row \in At(builds[v].previous, p)}
        text == versions[v].files[p]
        after[i \in 0..Len(text)] ==
            IF i = 0 THEN {}
            ELSE after[i - 1] \cup Claimed([path |-> p, hash |-> text[i], ordinal |-> i], previous, after[i - 1])
    IN  IF text = Missing THEN {} ELSE IF Unchanged(v, p) THEN previous ELSE after[Len(text)]

Counts(v) ==
    LET previous == builds[v].previous
    IN  [previous |-> Cardinality(previous),
         deleted |-> Cardinality({row \in previous : versions[v].files[row.key.path] = Missing}),
         absent |-> Cardinality({row.key : row \in previous} \ UNION {MappedAt(v, p) : p \in Files})]

\* The database takes the rows: no section is added that was there or came in the
\* meantime, and what the rows refer to has not been purged.
Insertable(v, rows) ==
    LET over == versions[v].over
    IN  /\ (ToExtract(v) \ builds[v].known) \cap sections = {}
        /\ \A row \in rows : row.key \in sections \cup (ToExtract(v) \ builds[v].known)
        /\ rows # {} => Present(FamilyRoot)
        /\ (\E row \in rows : row.from # 0) => Present(over)

NewRows(v) ==
    {SectionRow(key, 0) : key \in ToExtract(v)}
        \cup {SectionRow(row.key, versions[v].over) : row \in UNION {At(builds[v].previous, p) : p \in Kept(v)}}

CommitBuild(v) ==
    /\ builds[v].step = "selected" /\ Insertable(v, NewRows(v))
    /\ sections' = sections \cup ToExtract(v)
    /\ versions' = [versions EXCEPT ![v].state = "indexed", ![v].rows = NewRows(v), ![v].counts = Counts(v)]
    /\ builds' = [builds EXCEPT ![v] = NoBuild]
    /\ UNCHANGED purges

-----------------------------------------------------------------------------
(* Purge *)

\* The root of a family goes last: no version may have compiled sections.
CheckPurge(v) ==
    /\ Present(v) /\ versions[v].deleted /\ versions[v].state \notin {"queued", "running"}
    /\ v = FamilyRoot => \A w \in VersionNumbers \ {v} : versions[w].rows = {}
    /\ purges' = purges \cup {v}
    /\ UNCHANGED <<versions, sections, builds>>

\* Only sections filed under the purged resource itself are dropped, and it files them
\* when it is the root.
LeftSections(v) ==
    IF v = FamilyRoot
    THEN sections \cap {row.key : row \in UNION {versions[w].rows : w \in VersionNumbers \ {v}}}
    ELSE sections

\* Foreign keys on what other versions reused or filed under the root end the purge.
Purgeable(v) ==
    /\ \A w \in VersionNumbers \ {v} : \A row \in versions[w].rows : row.from # v
    /\ v = FamilyRoot => LeftSections(v) = {}

Purge(v) ==
    /\ v \in purges /\ Present(v)
    /\ purges' = purges \ {v}
    /\ \/ /\ Purgeable(v)
          /\ sections' = LeftSections(v)
          /\ versions' = [versions EXCEPT ![v] = [Unuploaded EXCEPT !.state = "purged", !.over = versions[v].over]]
       \/ ~Purgeable(v) /\ UNCHANGED <<versions, sections>>
    /\ UNCHANGED builds

SectionNext ==
    \E v \in VersionNumbers :
        \/ UploadVersion(v) \/ ToggleDeleted(v)
        \/ ReadPrevious(v) \/ SelectKnown(v) \/ CommitBuild(v) \/ FailBuild(v)
        \/ CheckPurge(v) \/ Purge(v)

SectionSpec == SectionInit /\ [][SectionNext]_sectionVars

-----------------------------------------------------------------------------
(* Properties *)

\* The sections of an indexed version are those of its own files, at their places,
\* and stand in the sections table, whichever versions extracted them, were
\* indexed at the same time or purged since (build_snapshot_sections, purge_resource_artifacts).
VersionsAreWhole ==
    \A v \in VersionNumbers : versions[v].state = "indexed" =>
        /\ {row.key : row \in versions[v].rows} = UNION {KeysOf(p, versions[v].files[p]) : p \in Files}
        /\ \A row \in versions[v].rows : row.key \in sections

OfText(keys, p, h) == {key \in keys : key.path = p /\ key.hash = h}

\* The occurrences of a text in its file beyond those that are left, each with its number.
LostTexts(before, now) ==
    UNION {{<<key.path, key.hash, n>> :
                n \in (Cardinality(OfText(now, key.path, key.hash)) + 1)
                        ..Cardinality(OfText(before, key.path, key.hash))} : key \in before}

\* The absent sections a version reports are at least those whose text occurs less
\* often in its file than before, and none that stands where it stood; those of
\* deleted files are among them (build_snapshot_sections).
AbsentIsBounded ==
    [][\A v \in VersionNumbers : CommitBuild(v) =>
        LET before == {row.key : row \in builds[v].previous}
            now == {row.key : row \in versions'[v].rows}
            counts == versions'[v].counts
        IN  /\ Cardinality(LostTexts(before, now)) <= counts.absent
            /\ counts.deleted <= counts.absent
            /\ counts.absent <= Cardinality(before \ now)]_sectionVars

\* Indexed versions keep their own sections, and report what they lost.
\* (build_snapshot_sections, purge_resource_artifacts)
SectionsAreKept == [](SectionTypeOK /\ VersionsAreWhole) /\ AbsentIsBounded

=============================================================================
