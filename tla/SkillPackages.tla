--------------------------- MODULE SkillPackages ---------------------------
(***************************************************************************)
(* The packages of skill exports (skill_exports.py): one published version *)
(* of a context pack is compiled into files that agents download.  What    *)
(* the version pins does not change; the names of its resources do, while  *)
(* the compiler reads them more than once.  ContextPacks has the life of   *)
(* packs around it and lets only published versions be exported; here the  *)
(* version stays published and an export has its files.                    *)
(*                                                                         *)
(* A text is a member of a small set.  Private texts are those that        *)
(* _safe_text replaces (credentials in URLs, local paths, tokens), Barred  *)
(* ones those that the scan forbids and _safe_text lets through.  A title  *)
(* stands for title and summary.  A published version covers a resource.   *)
(***************************************************************************)
EXTENDS Naturals, Sequences, FiniteSets

CONSTANTS
    SkillTitles, ResourceNames, Comments, \* texts callers may send
    Private, Barred, Redacted,
    Covered,                      \* resources the version covers
    Pins,                         \* what a version may pin
    RoutePaths, GroupOf, KindsOf, \* paths in their order; group and route kinds of a path
    ManifestLimit, FileLimit,     \* rows read (1000) and shown (120)
    RouteLimit, SectionLimit,     \* paths of a route (12), sections shown (80)
    RowLimit,                     \* rows that fit a file
    SnapshotFileLimit, MarkerLimit, \* pinned files looked at (200), their lines looked for (100)
    MaxSkillExports

\* The long lines of the files of the pinned snapshots.
LinesOf(files) == UNION {files[i] : i \in DOMAIN files}

ASSUME SkillPackagesAssumption ==
    /\ RoutePaths \subseteq Nat /\ Covered # {}
    /\ {ManifestLimit, FileLimit, RouteLimit, SectionLimit, RowLimit, SnapshotFileLimit,
        MarkerLimit} \subseteq Nat \ {0}
    /\ Private \cap Barred = {} /\ Redacted \notin Private \cup Barred
    /\ \A p \in RoutePaths : GroupOf[p] \in Nat
    \* What redaction writes is shorter than the lines the scan looks for (48 characters).
    /\ \A pin \in Pins :
         /\ pin.paths \subseteq RoutePaths /\ IsFiniteSet(pin.paths)
         /\ IsFiniteSet(DOMAIN pin.files) /\ IsFiniteSet(LinesOf(pin.files))
         /\ Redacted \notin LinesOf(pin.files)

VARIABLES
    pinned,      \* what the version pins
    named,       \* names of the covered resources
    compiling,   \* the compilation that holds the lock of the version
    packages     \* stored exports, by export_version

packageVars == <<pinned, named, compiling, packages>>

NoCompile == [title |-> "none"]

RouteKinds == {"docs", "runtime", "tests", "ci_release", "config"}

\* Every file but the manifest; fixed stands for the glossary, patterns, pitfalls, citation
\* policy and verify script.
PackageFiles ==
    {"skill", "readme", "structure", "map", "coverage", "freshness", "routes",
     "onboarding", "architecture", "debugging", "impact", "smoke", "fixed"}

PackageInit ==
    /\ pinned \in Pins
    /\ named \in [Covered -> ResourceNames]
    /\ compiling = NoCompile
    /\ packages = <<>>

-----------------------------------------------------------------------------
(* Rows *)

Safe(text) == IF text \in Private THEN Redacted ELSE text

SafeNames(names) == {Safe(names[r]) : r \in Covered}

Ahead(paths, p) == {q \in paths : q < p}

\* The first files of the manifests in the order of their paths.
ManifestRows == {p \in pinned.paths : Cardinality(Ahead(pinned.paths, p)) < ManifestLimit}

\* Groups take turns: first the first path of each, then the second of each.
Turn(paths, p) == Cardinality({q \in Ahead(paths, p) : GroupOf[q] = GroupOf[p]})

Dealt(paths, p) ==
    {q \in paths : \/ Turn(paths, q) < Turn(paths, p)
                   \/ Turn(paths, q) = Turn(paths, p) /\ GroupOf[q] < GroupOf[p]}

Balanced(paths, limit) == {p \in paths : Cardinality(Dealt(paths, p)) < limit}

RouteRows(kinds) ==
    UNION {{[kind |-> k, path |-> p] :
              p \in Balanced({p \in ManifestRows : k \in KindsOf[p]}, RouteLimit)} : k \in kinds}

Headings == SubSeq(pinned.headings, 1, IF Len(pinned.headings) < SectionLimit
                                       THEN Len(pinned.headings) ELSE SectionLimit)

HeadingTexts == {Headings[i] : i \in DOMAIN Headings}

-----------------------------------------------------------------------------
(* Files.  rows are paths or routes, or the resources a warning is about. *)

Shows(texts, rows) == [texts |-> texts, rows |-> rows]

Skill(title) == Shows({Safe(title)}, {})

Readme(title) == Shows({Safe(title)}, {})

\* Their text is always the same, and the terms of the glossary are single words.
Fixed == Shows({}, {})

DataStructure(first) ==
    Shows(SafeNames(first) \cup {Safe(t) : t \in HeadingTexts}, Balanced(ManifestRows, FileLimit))

ResourceMap(later) == Shows(SafeNames(later) \cup {Safe(t) : t \in pinned.titles}, {})

SourceCoverage(first) == Shows(SafeNames(first), {r \in Covered : pinned.cited[r] = 0})

FreshnessPage(first) == Shows(SafeNames(first), {})

TaskRoutes == Shows({}, RouteRows(RouteKinds))

Playbook(kinds) == Shows({}, RouteRows(kinds))

\* Asks about the first resource.
SmokeQueries(first) == Shows({CHOOSE t \in SafeNames(first) : TRUE}, {})

Rendered(title, first, later) ==
    [skill |-> Skill(title), readme |-> Readme(title),
     structure |-> DataStructure(first), map |-> ResourceMap(later),
     coverage |-> SourceCoverage(first), freshness |-> FreshnessPage(first),
     routes |-> TaskRoutes, onboarding |-> Playbook({"docs", "config"}),
     architecture |-> Playbook({"docs", "runtime", "config"}),
     debugging |-> Playbook({"runtime", "tests", "config", "ci_release"}),
     impact |-> Playbook(RouteKinds), smoke |-> SmokeQueries(first), fixed |-> Fixed]

Manifest(title, first, pages) ==
    [texts |-> {Safe(title)} \cup SafeNames(first), inventory |-> pages,
     status |-> "draft", comment |-> "none"]

\* The hash covers the files and the manifest without its status and approval.
PackageHash(pages, manifest) == <<pages, manifest.texts>>

\* All of a set, or as many as the limit lets through, in no order.
UpTo(limit, set) == {part \in SUBSET set : \/ part = set /\ Cardinality(set) <= limit
                                          \/ Cardinality(part) = limit}

\* Lines that the scan looks for, of the files that the query returned.
Markers ==
    UNION {UpTo(MarkerLimit, UNION {pinned.files[i] : i \in seen}) :
             seen \in UpTo(SnapshotFileLimit, DOMAIN pinned.files)}

\* One row per resource, file and section makes the data structure the longest file.
TooManyRows ==
    Cardinality(Covered) + Cardinality(Balanced(ManifestRows, FileLimit)) + Len(Headings) > RowLimit

Findings(pages, manifest, markers) ==
    LET unfit == Private \cup Barred \cup markers IN
    {f \in PackageFiles : pages[f].texts \cap unfit # {}}
      \cup (IF manifest.texts \cap unfit # {} THEN {"manifest"} ELSE {})
      \cup (IF TooManyRows THEN {"structure"} ELSE {})

\* A file is stored with its checksum.
Sealed(content) == [content |-> content, sha |-> content]

Unsealed == [pages |-> <<>>, manifest |-> [reason |-> "scrubbed"]]

Compiled(title, first, later, markers) ==
    LET pages == Rendered(title, first, later)
        manifest == Manifest(title, first, pages)
        findings == Findings(pages, manifest, markers)
    IN  [status |-> IF findings = {} THEN "draft" ELSE "failed",
         hash |-> PackageHash(pages, manifest), findings |-> findings,
         files |-> IF findings # {} THEN Unsealed
                   ELSE [pages |-> [f \in PackageFiles |-> Sealed(pages[f])],
                         manifest |-> Sealed(manifest)],
         \* what went in, for the properties only
         read |-> {title} \cup {first[r] : r \in Covered} \cup {later[r] : r \in Covered}
                    \cup HeadingTexts \cup pinned.titles]

-----------------------------------------------------------------------------
(* Generation, under the lock of the version *)

StartGenerate(title) ==
    /\ compiling = NoCompile
    /\ Len(packages) < MaxSkillExports
    /\ compiling' = [title |-> title, first |-> named]
    /\ UNCHANGED <<pinned, named, packages>>

\* The rows of artifacts and citations join the names again.  A package that is
\* stored already is returned as it is, whatever became of it.
FinishGenerate ==
    /\ compiling # NoCompile
    /\ \E markers \in Markers :
         LET new == Compiled(compiling.title, compiling.first, named, markers) IN
         packages' = IF \E e \in DOMAIN packages : packages[e].hash = new.hash
                     THEN packages ELSE Append(packages, new)
    /\ compiling' = NoCompile
    /\ UNCHANGED <<pinned, named>>

StopGenerate ==
    /\ compiling # NoCompile
    /\ compiling' = NoCompile
    /\ UNCHANGED <<pinned, named, packages>>

RenameResource(r, name) ==
    /\ named' = [named EXCEPT ![r] = name]
    /\ UNCHANGED <<pinned, compiling, packages>>

-----------------------------------------------------------------------------
(* Reviews, under the lock of the export *)

\* A plausible slip: the manifest is rewritten and keeps its old checksum.
ApprovedUnsealed(e, comment) ==
    [packages[e] EXCEPT
       !.status = "approved",
       !.files.manifest.content.status = "approved",
       !.files.manifest.content.comment = comment]

Approved(e, comment) ==
    LET manifest == [packages[e].files.manifest.content EXCEPT
                       !.status = "approved", !.comment = comment]
    IN  [packages[e] EXCEPT !.status = "approved", !.files.manifest = Sealed(manifest)]

ApproveExport(e, comment) ==
    /\ packages[e].status = "draft" /\ packages[e].findings = {}
    /\ packages' = [packages EXCEPT ![e] = Approved(e, comment)]
    /\ UNCHANGED <<pinned, named, compiling>>

RejectExport(e) ==
    /\ packages[e].status \in {"draft", "failed"}
    /\ packages' = [packages EXCEPT ![e].status = "rejected"]
    /\ UNCHANGED <<pinned, named, compiling>>

ScrubExport(e) ==
    /\ packages[e].status # "invalidated"
    /\ packages' = [packages EXCEPT ![e].status = "invalidated", ![e].files = Unsealed]
    /\ UNCHANGED <<pinned, named, compiling>>

PackageNext ==
    \/ \E title \in SkillTitles : StartGenerate(title)
    \/ FinishGenerate
    \/ StopGenerate
    \/ \E r \in Covered, name \in ResourceNames : RenameResource(r, name)
    \/ \E e \in DOMAIN packages :
         \/ \E comment \in Comments : ApproveExport(e, comment)
         \/ RejectExport(e)
         \/ ScrubExport(e)

PackageSpec == PackageInit /\ [][PackageNext]_packageVars

-----------------------------------------------------------------------------
(* Properties *)

Kept == {e \in DOMAIN packages : packages[e].files # Unsealed}

PageOf(e, f) == packages[e].files.pages[f]

ManifestOf(e) == packages[e].files.manifest

\* The sources are small enough for the scan to see every file and to look for every line.
ScanSeesAll ==
    /\ Cardinality(DOMAIN pinned.files) <= SnapshotFileLimit
    /\ Cardinality(LinesOf(pinned.files)) <= MarkerLimit

\* No file that is kept shows a text that ought to be hidden; nor, of sources of up to
\* two hundred files with up to a hundred long lines between them, one of those lines.
\* Of larger sources a title may repeat a line the scan never looked for.
HidesWhatItMust ==
    \A e \in Kept :
      LET shown == ManifestOf(e).content.texts
                     \cup UNION {PageOf(e, f).content.texts : f \in PackageFiles}
      IN  /\ shown \cap (Private \cup Barred) = {}
          /\ ScanSeesAll => shown \cap LinesOf(pinned.files) = {}

\* A package fails for a text that redaction lets through, for a source line or for
\* its size, and then it does fail: private names and titles alone never stop one.
FailsForAReason ==
    \A e \in DOMAIN packages :
      LET read == packages[e].read IN
      /\ read \cap Barred # {} => packages[e].findings # {}
      /\ packages[e].findings # {} =>
           \/ read \cap (Barred \cup LinesOf(pinned.files)) # {}
           \/ TooManyRows
      /\ packages[e].findings # {} => packages[e].status \in {"failed", "rejected", "invalidated"}

\* What is kept can be verified: each checksum is of the file it stands with, after the
\* approval as before, the manifest lists the files there are and says how they stand,
\* and the hash is that of no other export.
IsSealed ==
    /\ \A e \in Kept :
         LET manifest == ManifestOf(e).content IN
         /\ ManifestOf(e).sha = manifest
         /\ \A f \in PackageFiles : PageOf(e, f).sha = PageOf(e, f).content
         /\ manifest.inventory = [f \in PackageFiles |-> PageOf(e, f).sha]
         /\ (manifest.status = "approved") = (packages[e].status = "approved")
         /\ packages[e].hash = PackageHash(manifest.inventory, manifest)
    /\ \A d, e \in DOMAIN packages : packages[d].hash = packages[e].hash => d = e

\* The files shown are dealt fairly: while a group has a path left out, no other group
\* has two paths more; and a path is left out only where the file is full.
DealsFairly ==
    \A e \in Kept :
      LET shown == PageOf(e, "structure").content.rows
          share == [p \in RoutePaths |-> {q \in shown : GroupOf[q] = GroupOf[p]}]
      IN  \A p \in ManifestRows \ shown :
            /\ Cardinality(shown) = FileLimit
            /\ \A q \in shown :
                 Cardinality(share[q]) <= Cardinality(share[p]) + 1

\* A review changes the manifest and nothing else of a package; what is scrubbed or
\* decided stays so, although generating again may return it.
ReviewsKeepFiles ==
    /\ Len(packages') >= Len(packages)
    /\ \A e \in DOMAIN packages :
         LET old == packages[e]
             new == packages'[e]
         IN  /\ new.hash = old.hash
             /\ new.files = Unsealed \/ new.files.pages = old.files.pages
             /\ new.files.manifest # old.files.manifest =>
                  new.status \in {"approved", "invalidated"} /\ new.status # old.status
             /\ old.status = "invalidated" => new = old
             /\ new.status = "approved" => old.status \in {"draft", "approved"}

\* Packages of skill exports are safe to hand out, can be verified, and give every group
\* of paths its share.
SkillPackagesAreSound ==
    /\ [](HidesWhatItMust /\ FailsForAReason /\ IsSealed /\ DealsFairly)
    /\ [][ReviewsKeepFiles]_packageVars

=============================================================================
