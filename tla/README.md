# SourceBrief: TLA+ models and proofs

SourceBrief indexes Git repositories, folder bundles, URLs and notes into
snapshots, builds resource graphs, merges and context packs from them, and
serves them to agents. This directory models its way from an upload to an
agent's answer: staging and ingestion, the life of a resource and its index runs,
the refresh scheduler, graph streams, merges and the knowledge reviewed by hand
(artifacts, packs, exports, repo agents), retrieval and the tools that read
what was indexed, remote code calls, evaluation and Gate A, accounts, and the
command-line tools that change files on a user's machine. TLC checks small
instances of all of it; TLAPS proves, for every size, the safety properties of
all but a few of the models ("What is proved" names them).

## The system

The program is a FastAPI service (`src/apps/api/sourcebrief_api`), an RQ worker
and a scheduler (`src/packages/worker/sourcebrief_worker`), code they share
(`src/packages/shared/sourcebrief_shared`), a CLI and a web console. They share
one PostgreSQL database, at READ COMMITTED, and one Redis queue. There is no
other channel: every interaction is a row, a row lock or a queued job.

Two habits of the code shape most of what is hard here.

* A session keeps the first copy it loads of a row while the program holds on
  to it. `SELECT ... FOR UPDATE` waits for the lock and then returns the old
  copy, unless the query says `populate_existing`, as `run_index` does and the
  publish endpoints do not.
* Sessions are made with `autoflush=False` (`shared/db.py:27`): a query does not
  see the assignments made before it in the same transaction.

### Components

| component | state | operations | what makes it hard | what makes it correct |
|---|---|---|---|---|
| resources and index runs (`routers/resource_core.py`, `resource_lifecycle.py`, `services/resource_purge.py`) | `resources`, `index_runs` | create, upload, refresh, update, archive, delete, restore, purge, review | checks on unlocked reads; the enqueue is outside the transaction; handlers die between commits | one active run per resource; a purge leaves nothing; a failed enqueue strands nothing |
| index worker (`jobs.py`, `ingestion.py`) | the same, snapshots, graphs | `run_index` | job order, orphan jobs, timeouts after the commit, a row changed between two transactions | a snapshot advances only by an active run on a live row; runs move forward |
| refresh scheduler (`maintenance.py`, `lifecycle.py`) | `next_refresh_at`, runs | one pass: lock a batch, queue due resources, commit | passes, calls and workers interleave; one resource of a batch fails | no second run; only live rows; a due resource is served |
| resource graph versions (`graph_versions.py`, `routers/graphs.py`, `jobs.py`) | `graphs`, `graph_versions` | compile, publish, invalidate, archive, automatic publication by a refresh | decisions on stale copies of three tables | published = current; graph and snapshot advance together |
| graph merges (`graph_merges.py`, `routers/graphs.py`) | `graph_merges`, versions, inputs, candidates | compile, review, publish, invalidate, archive, find a path | inputs change after they are checked; counts read before the flush | published = current; unresolved candidates need an acknowledgement; stale merges are not served |
| ingestion (`ingestion.py`, `code_intel.py`, `graph_index.py`) | none outside its transaction | fetch, walk, chunk, index, reuse | budgets that cut off in the middle; a refresh that finds the configuration changed | what is missing is reported; no letter is lost between chunks |
| staged uploads and bundles (`bundle_ingest.py`, `manifest*.py`) | staged zips, manifests | stage, clean up, unpack, compare, page | a clean-up that does not know whose file it removes; names that collide on disk | a zip waits a day for its worker; every entry has one row |
| sections (`section_store.py`, `section_extraction.py`) | sections, shared by the versions of a bundle | upload, build, purge | versions that build and purge at the same time | an indexed version keeps its own sections |
| context artifacts and packs (`resource_artifacts.py`, `context_packs.py`) | artifacts, packs, pack versions | draft, approve, reject, publish, roll back, invalidate | one published version per pack under concurrent publish and rollback | packs hold approved artifacts only |
| skill exports (`skill_exports.py`) | exports | compile, approve, reject, invalidate | names change while a package is compiled; limits, redaction and scan decide what it shows; approval rewrites a sealed file | a package hides private text, can be verified, and is not changed by its review |
| repo agents (`repo_agents.py`) | agents, agent versions | refresh, publish, roll back, archive, invalidate, scrub, delete | dependencies on packs and exports that other calls invalidate | current = published; published evidence is retained |
| retrieval (`retrieval.py`, `context_packets.py`) | query runs and their hits | build a packet | statements that see different commits; caps that drop candidates | a packet holds the best of what was served while it was built |
| agent runtime, MCP (`services/runtime_*.py`, `agent_context_*.py`) | none of their own | search, read a section, ask, graphs, listings | locators used long after they were found; character budgets, cursors | what was found can be read; answers cite what they quote |
| remote code (`routers/remote_code.py`, `remote_code.py`) | patch proposals, pull-request records | search, grep, read, propose, approve | a refresh or purge between the statements of a call | an answer is of one snapshot; an approval of the commit that was proposed |
| evaluation (`retrieval_evals.py`, `eval_manifest.py`) | evaluation runs | ask, persist, list, read; validate a report | resources that go while questions are asked; who may read the result later | an evaluation is seen by no token that could not have asked it; a worse report has no better verdict |
| Gate A (`gate_a_eval.py`, `gate_a_internal_outcome.py`) | receipts of a campaign | validate, score | the validator sees receipts, not what happened; two scorers | an accepted campaign was run fairly |
| self-improvement (`self_improvement_*.py`, `staged_adoption.py`, `review_*.py`) | files below one directory | review, propose, gate, stage, sleep | files edited by hand; a staging that dies | nothing rejected or harmful is staged, nothing staged is lost |
| CLI (`runtime_apply.py`, `skill_install.py`) | files of the user, receipts | apply, roll back, install, uninstall | a user who edits; a call that dies between two files | what was applied can be undone, and nothing else is |
| accounts (`auth_workspace.py`, `auth.py`, `bootstrap_admin.py`) | users, workspaces, members, projects, tokens | log in, add, change and remove members, tokens; bootstrap at start | no row is locked; replicas start at once | a workspace keeps an administrator; roles reach every project |
| audits, other CLI commands, scripts, web console | reports | batch tools and clients | none: sequential | - |

`PROJECT.json` lists all of them, with what is modelled and what is not, and
under `hazards` the places where the code can go wrong in a way a test would
hardly reach.

## The modules

| module | what it is |
|---|---|
| `IndexRuns` | the resources and index_runs tables, the queue, API calls, workers and scheduler passes |
| `RefreshSlots` | what the refresh protocol promises: each resource has one slot |
| `IndexRunsInvariant` | the inductive invariant of `IndexRuns` |
| `IndexRunsProofs` | the theorems about `IndexRuns` and their proofs |
| `MCIndexRuns` | constants, symmetry and bounds for TLC |
| `GraphVersions` | graph streams, publish calls and the refresh that advances snapshot and graph; its inductive invariant is `StreamsAgree` |
| `GraphVersionsProofs` | the theorems about `GraphVersions` and their proofs |
| `GraphMerges` | merges, their versions and candidates, composed with `GraphVersions`: the refresh of an input invalidates the merges that use it; its inductive invariant is `MergesAgree` |
| `GraphMergesProofs` | the theorems about `GraphMerges` and their proofs |
| `MCGraphMerges` | constants, symmetry and the bound on the inputs for TLC |
| `ContextPacks` | context artifacts, packs and skill exports, and the purge of a resource they refer to |
| `RepoAgents` | repo agents, composed with `ContextPacks`: versions pin packs and exports they do not lock; its inductive invariant is `AgentsAgree` |
| `RepoAgentsProofs` | the theorems about `RepoAgents` and their proofs |
| `MCRepoAgents` | constants, symmetry and the bound on what is stored for TLC |
| `UploadStaging` | the directory of staged zips: uploads, workers and the clean-up of whatever is a day old |
| `Bundles` | what an archive may hold and where it lands, the sections of a text, the difference of two manifests and its pages |
| `Sections` | the versions of a bundle family, the sections they share, and purges that race with builds |
| `Ingestion` | a page fetched, a clone walked, a text cut, an index filled up to its budgets, a snapshot kept or made anew |
| `Retrieval` | a context packet from its query run to its hits, beside publications and purges |
| `RuntimeReads` | the reading tools of MCP between refreshes, archives, purges and publications |
| `AgentAnswers` | the budget, labels, caveats and confidence of an answer, pages of a listing, names of resources |
| `RemoteCode` | remote code calls in two steps, patch proposals and pull-request records |
| `CodeReads` | pages of a file, globs, the scan budget, grep and search |
| `EvalRuns` | an evaluation from its authorisation to the tokens that list it |
| `EvalReports` | the requests of a manifest and the validation of a graded report |
| `GateScoring` | path rules, blinded rows, traces, and the verdicts of the gate and of the founder's outcome |
| `GateEvidence` | a Gate A campaign with its receipts, and the validators that see only those |
| `ReviewLoop` | reviews, proposals, gates, staging and sleep over the files of one directory |
| `RuntimeApply` | runtime apply and rollback on the configuration file of a runtime |
| `SkillInstall` | skill install and uninstall, file by file |
| `SkillPackages` | what the packages of skill exports show, how they are scanned, sealed and reviewed |
| `Accounts` | members, projects, tokens and the bootstrap of replicas, every call in two steps |
| `ServicesProofs` | the theorems about `RemoteCode`, `CodeReads`, `RuntimeReads`, `AgentAnswers`, `EvalRuns`, `Accounts`, `EvalReports` and `SkillPackages`, with their inductive invariants |
| `WritersProofs` | those about `RuntimeApply`, `SkillInstall`, `Sections` and `ReviewLoop` |
| `PipelineProofs` | those about `UploadStaging`, `Bundles`, `GateEvidence`, `GateScoring`, `Ingestion` and `Retrieval` |
| `NumberFacts` | least and greatest members of sets of numbers, the first members of an order, functions defined step by step, induction along them and sums, which the other proofs rest on |
| `MCServices`, `MCWriters`, `MCPipeline` | compose these modules side by side for TLC and give their constants |
| `MCRuntimeReads`, `MCAccounts` | instances of `RuntimeReads` and of `Accounts` by themselves |

### IndexRuns

`rows`, `runs` and `queue` are the two tables and the waiting jobs; `call`, `job`
and `scan` hold how far each API request, worker and scheduler pass has come and
the copies it made on the way; `lock` says who holds a resource row. A step is what the code
does between two points where another process can act: a commit, a wait for a
lock, a call to Redis. `refresh_resource`, for example, is
`ResolveForRefresh` (an unlocked read), `ClaimRefresh` (lock, check, insert,
commit), `Enqueue` (Redis) and `ConfirmEnqueued` or `AbortRefresh` (a second
transaction). `run_index` is `TakeJob`, `BeginRun`, `LockResource`, `CommitRun`,
and `RunRaises` and `RecordFailure` for its exception path. The lifecycle
endpoints read in `ResolveLifecycle` and write what they decided in
`WriteLifecycle`; `Changed` is the UPDATE of the columns the handler assigned,
because that is all the ORM writes. A scheduler pass is `StartScan`, one
`Decide` per row, `EnqueueDue` or `SkipResource`, and `CommitScan` or
`ScanRollback`.

Ingestion is one step inside `CommitRun`: its inserts are invisible until the
commit and a failure rolls them back, so all the rest of the system sees of it
is the snapshot. Time is abstract: a row's next refresh is none, future or due,
and `TimePasses` turns future into due.

`Ops` and `Faults` select what an instance may do. The faults are a failed
enqueue, an enqueue that raises although the job was stored, a crash of an API
process, worker or scheduler, and a job timeout that fires after the last
commit.

### GraphVersions

`resource.snap` numbers the snapshot, `graph.current` and `versions` are the
stream. `call` holds the copies of a compile or publish call, `job` those of a
refresh between its row lock and its commit. A publish call reads the graph
(`LoadGraphToPublish`) and the version (`LoadVersionToPublish`) without a lock;
`PublishDraft` is the locked rest, which decides on these copies but on a fresh
resource row. The refresh is `Ingest`, `LoadGraph` (unlocked), `SyncGraph`
(compile, which takes the graph lock) and `CommitRefresh`. A version's content
hash is a function of the snapshot and of the resource's name and uri; the model
keeps the snapshot and lets a draft be reused or not.

### GraphMerges

The module extends `GraphVersions` and shares its variables: `merge` and
`mergeVersions` are the tables of merges, with the inputs and the candidates of
a version kept in its row. A compile call reads its inputs without a lock
(`ResolveInputs`) and then drafts under the lock of the merge (`CompileMerge`), or finds
that there is none (`FindNoMerge`) and inserts it (`InsertMerge`), where it may
meet the row another call has inserted and get that merge or a suffixed key. A
publish call holds the lock of the merge from `CheckMerge` to `PublishMerge`;
the status of the current version is loaded at the check, without a lock of
that version. Invalidation, archiving and reviews are single locked steps.

The worker takes no merge lock. `SyncAndSelect` is `SyncGraph` of
`GraphVersions` with the selection of the dependents, and `CommitAndInvalidate`
writes their status with the commit of the refresh; a merge call may run in
between. Nodes and edges are abstracted to the inputs. A candidate is open or
reviewed: accepted and rejected differ in nothing the properties look at.
Callers acknowledge only what they must, which leaves the gate nothing to
forgive.

### ContextPacks and RepoAgents

`ContextPacks` has the tables of artifacts, pack versions (with the artifacts
each holds, and so the resources it covers) and skill exports. What works under
a lock is one step: `PublishPack`, `RollBackPack` and `InvalidatePack` hold the
pack's parent row and load the versions after it, `GenerateExport`,
`ReviewExport` and `InvalidateExport` the row they change. What does not is two:
a review reads an artifact (`ReadForReview`) and writes it (`WriteReview`), a draft
checks its artifacts (`CheckArtifacts`) before it locks the pack
(`InsertPackVersion`), a purge looks for references (`CheckPurge`) before it deletes (`PurgeRows`).
A purge here starts after the checks on runs and graphs, which `IndexRuns` and
`GraphVersions` model.

`RepoAgents` adds the agents. Every mutation locks the agent row, so `agentCall` has
one call per agent. Refresh and rollback draft read what they pin
(`StartRefresh`, `StartRollback`) and insert the draft with the commit
(`FinishCompile`); publish validates (`StartPublish`) and commits
(`FinishPublish`); pack, export and resource may change in between. Archive,
invalidate, scrub and delete read only the agent's own rows and are single
steps. A purge asks for agents too and is stopped by the foreign key of one that has
come since (`PurgeUnlessHeld`).

A version's hash is a function of its `inputs`: snapshot, pack version, export, and
the version it rolls back to, which stands for the hash of that version. An
artifact has no content: two of the same snapshot stand for two builds with
different hashes, because the hash covers the resource's name. One type of
export is modelled, as the code has one.

### Sources: UploadStaging, Bundles, Sections, Ingestion

`UploadStaging` has one file per upload and its age in days. An upload writes
(`WritePart`), renames (`StageUpload`), commits a run and enqueues it; it may crash
between any two. `BeginBundle` is the first transaction of the worker with its
`cleanup_stale_uploads`, `ExtractBundle` the unpacking. `Tick` is a day.

In `Sections` a build reads its predecessor's sections (`ReadPrevious`), looks up
which of those it extracted exist already (`SelectKnown`) and commits
(`CommitBuild`, which fails on a unique or a foreign key); a purge asks and then deletes
(`CheckPurge`, `Purge`). A section is its key: path, text and the
occurrence of that text. Sessions do not block each other but where two insert
the same key, and there the database lets one of them fail.

`Bundles` and `Ingestion` are functions of their inputs: archives of
up to two entries, texts of up to six lines or letters, chains of four hops, trees
of files with their budgets. Their initial states enumerate the inputs, and a
step follows only where the code does something over time: a client paging
through a difference, a refresh that meets a changed commit or configuration. A
letter or a line is what decides about it (blank, a separator, a heading); a file
is its kind and its size.

### Readers: Retrieval, RuntimeReads, AgentAnswers, RemoteCode, CodeReads

`Retrieval` builds one packet: `StartPacket` commits the query run with the
status of the embedding namespace, `LexicalSearch`, `VectorSearch` and
`ScoreGraphAndRerank` are the statements, each on the tables as they are then,
`RecordPacket` stores the hits and fails on one whose chunk was purged. Which
rows match is a choice, limited as the statements limit it; scores are 0 or 1. All six profiles are
there with their weights; multipliers and pool limits are scaled down (`Plain`, `Pool`). The hybrid
ones run the graph statement although its score has no weight: it still lets a candidate past the check
that the offline provider makes. The namespace of an embedding has the deployment's identifier
as `_safe_deployment_id` leaves it, which the constant `SafeDeployment` gives: in the instance "a b" and
"a-b" share a namespace, and the vectors of the two are compared, although `docs/MILESTONE-14.md:56`
says that it keeps swapped deployments from mixing.
The selection (promotion of siblings, diversity, the fill from what was deferred)
is computed from every ranking of the corpus.

`RuntimeReads` holds what the tools read: sources with their numbered snapshots,
pack versions, graph versions, merges. The tools are operators, what an agent
keeps of an answer is `held`. `AgentAnswers` and `CodeReads` are functions of one
request each, enumerated: texts are lengths, lines are whether they match.

`RemoteCode` splits a call where another transaction can commit: it resolves the
resource and checks (`StartRead`, `StartPatch`, `StartOpenPr`), then reads or
inserts by what it resolved (`FinishRead`, `FinishPatch`, `FinishOpenPr`).

### Judges: EvalRuns, EvalReports, GateScoring, GateEvidence, ReviewLoop

`EvalRuns` asks the questions of an evaluation one by one while resources are
archived, deleted and restored, and stores the two columns that later decide who
may see it. `EvalReports` enumerates manifests and graded reports.

`GateEvidence` separates what happened (`ghost`, `current`, `mounted`) from what the
validators see (`stamp`, `compiles`, `freezes`): a campaign goes through its
steps, may take some out of order or rebuild a pack, and is then judged. `GateScoring`
enumerates paths with patterns, rows of work, blinding tables, traces and outcomes,
and scores each as the gate and as the founder's own script does.

`ReviewLoop` has numbered proposal files and staging directories. A person may
settle a proposal or rewrite what it says (`Settle`, `Rewrite`) between commands; a
staging writes its files one by one and may die; sleep groups the proposals of the directory
by the failure they are about. Of the texts of a proposal the model has the proposed check,
which the gate reads and sleep passes on; the failure mode, which sleep groups by, is not
edited, nor is a staged copy. The gate's result names the identifier of the proposal, and staging
compares nothing else (`staged_adoption.py:155`): a text edited after the gate is staged with
the result of before, and `StagedAreFit` says "harmless" only of identifiers whose text nobody
has edited (`Unedited`).

### Tools and accounts: RuntimeApply, SkillInstall, SkillPackages, Accounts

`RuntimeApply` and `SkillInstall` make every read, copy and replacement of a file
a step, beside a user who edits and calls that die anywhere. An apply replaces the file by a
rename; a rollback copies its backup straight onto it (`runtime_apply.py:392`), so that one that
dies there (`BeginCopy`, `EndCopy`) leaves the beginning of the file: `emptied` stands for every
beginning that parses as YAML, `cut` for one that does not. A torn file differs from every
receipt, so that only a rollback with `--force` mends it (`TornIsMended`). The copy an apply makes into
its backup may be torn too, but the receipt that names it is written later. `calm` records
that nobody else touched the files since a call began: nothing is locked, so an edit
between a check and the write that follows is lost, and the properties about the
user's own edits are for calls nobody disturbed.

`SkillPackages` compiles the export of a version that stays published: `StartGenerate` reads
the names of its resources and `FinishGenerate` reads them again with the artifacts, cuts
files and routes to their limits (`Balanced`), redacts (`Safe`), scans (`Findings`) and
stores the files with their checksums, or returns the package that has the same hash. A text
is private (redaction replaces it), barred (the scan finds what redaction leaves), a line of the
sources, or plain. Two things it says of the code that its properties have to except: the comment of an
approval goes into `manifest.json` after the scan, although
docs/context-artifact-compiler/C2-skill-pack-compiler-spec.md:186 has downloads "leak-scanned
across all package files"; and the scan looks at two hundred files of the sources and for the first
hundred long lines in them, in no particular order (`SnapshotFileLimit`, `MarkerLimit`), so a
source of more files or of longer ones is covered in part.

In `Accounts` a call authenticates, checks and loads (`UpdateMember`,
`UpsertMember`, `CreateProject`, ...) and then commits what it changed of its
copies (`CommitMember`, ...). `BootRead` and `BootCommit` are the bootstrap of a
starting process. Calls overlap: a commit of roles or of a project marks the other open calls
as `overtaken`, and `mixed` records that one of those has committed. Nothing in the code notices
it. Two calls that overlap can take away the last administrator (run `last_admin`), and a
project committed by a creator who was demoted meanwhile is owned by them (`GrantsFollow` says
it of the states before).

## What TLC checks

Deadlock checking is off: a service with a bounded number of requests left stops.

| run | instance | checks | shows |
|---|---|---|---|
| `lifecycle` | a Git resource and a bundle, 2 runs, 3 calls, 2 workers; failed enqueue, crash, late timeout | `OneActiveRunPerResource`, `PurgedLeavesNothing`, `IInv`, `SnapshotAdvance` | runs are exclusive, purges complete, snapshots only advance by a run that is active on a live row |
| `scheduler` | 2 passes with a limit of 1, 2 resources, 1 call, 1 worker; failed enqueue, crash | `ScheduledOnlyWhileLive`, `ImplementsSlots` | passes and calls never make a second run and queue only live resources; the code implements `RefreshSlots` |
| `progress` | 3 calls, 1 worker; failed enqueue; fair | `NoStrandedRun`, `RunsMoveForward`, `ActiveRunsEnd` | without crashes no run is lost, none goes backward, every active run ends |
| `due` | 1 pass at a time, 2 resources, ambiguous enqueue; fair | `DueIsScheduled` | a due, live resource gets a run |
| `merges` | a resource alone: 3 compile or publish calls, 2 workers, 2 snapshots, 4 versions; or 2 resources, 1 refresh, 1 merge with 2 versions, 2 merge calls, 1 candidate | `GraphFollowsSnapshot`, `StreamsAgree` (with `PublishedIsCurrent`), `SnapshotBringsGraph`, `MergePointer`, `OpenIsAcknowledged`, `MergesAgree` | the published version of a stream is the current one and of the current snapshot, whatever stale copies are used; whatever a publish call and a refresh write to the current version of a merge, one version is published and the pointer finds it; nothing with an open candidate is published unacknowledged |
| `agents` | 1 resource, 2 artifacts, 1 pack with 2 versions of 1 export, 1 agent with 2 versions, one draft, review and purge call each | `AgentPointer`, `AgentEvidence`, `DetachedIsScrubbed`, `PurgeIsComplete`, `AgentsAgree` | what an agent version pins without a lock stays retrievable until it is scrubbed; agents let go of a resource only when nothing names it; a purge leaves nothing |
| `services` | 2 users, 2 workspaces with 2 projects, 2 calls, 2 replicas; 2 snapshots, 2 calls, 1 proposal; 2 sources, the second snapshot of one in two chunks; 2 questions, 1 evaluation; 2 exports of a version with 2 resources and 6 paths | `CodeAnswers`, `ReadsAreExact`, `EvidenceHolds`, `AnswersAreGrounded`, `EvalsArePrivate`, `EvalsAreHonest`, `AccountsAreGoverned`, `SkillPackagesAreSound` | what people and agents are told is of one snapshot, complete, readable later and theirs to see; a call that no other overtakes leaves a workspace its administrator; a package can be handed out and verified |
| `writers` | 2 plans for 2 servers, 2 shells, 1 edit; 2 packages, 2 installs; 1 review, 3 proposal files, 1 edited text; 3 versions of 2 files | `AppliesAreUndoable`, `SkillsAreTidy`, `LoopIsGuarded`, `SectionsAreKept` | what a call wrote before it died can be undone or taken up; nothing unfit is staged; indexed versions keep their sections |
| `pipeline` | 3 uploads; archives of 2 entries, texts of 6; 4 chunks of 3 resources; 3 tasks; a campaign of 4 days with 2 compilations and 1 slip | `StagingIsSafe`, `BundlesAreFaithful`, `IndexIsFaithful`, `RetrievalIsSound`, `AccessIsContained`, `VerdictIsEarned`, `CampaignWasFair` | a source gets into the index without silent loss and out of it without stale evidence; Gate A accepts no unfair campaign |
| `unreviewed`, `suggested_read`, `last_admin` | small | one documented statement each | the code does not keep it (below) |

The components of `services`, `writers` and `pipeline` share no state. A run
starts in one of them, chosen by `part`, and only that one moves: the states are
those of the components one after the other, not their product. Each property is the
conjunction, by name, of what its module promises, and speaks of one component.

Bounds. Two runs and two jobs are the fewest for a stale job beside a new run;
three calls are the fewest for "check, something else commits, write" with a
resource that exists; two passes against one call give every order of two
claims. `ScanLimit` 1 makes the limit bite with two resources in `scheduler`; `due` has room for
both, so that a batch filled by resources that stay due is not covered. Two snapshots
and four versions let a draft of the old snapshot meet the new one and leave
room for a superseded, a published and two draft versions. `Bound` (`MCGraphMerges`) divides the
run `merges` in two. In the one no merge is made and one resource moves (`StreamAlone`): streams
of different resources share no row.
`MaxSnapshot` and `MaxVersion` are guards of `Ingest` and `NextVersion` and cut
off longer histories; the theorems have no such bound on their values.
In the other (`MergesOverStreams`) two calls are the fewest that compete for a merge row, two
resources the fewest a merge has, and two versions let a published one be replaced. It
keeps the second resource at its first snapshot and cuts the behaviours after a resource
failed or was deleted, or after a stream was archived or lost a version: those happen in the first
half, and no merge step reads more of them than `InputUsable` and `ResolveInputs` do. Nobody publishes a
graph in it, because what a publish call of a graph does to a merge input (replace it) the
refresh does too.
In `agents` two versions of the agent let one be replaced and the
other be rolled back to, two pack versions let a published pack be superseded and
return, and two artifacts let a pack fail its validation. `Bound` keeps at most five
rows stored, four beside a second artifact: enough for a pack, its export and two
agent versions, of which one is a rollback draft. Calls of one agent exclude
each other and agents share nothing but what they read, so one agent is enough; so
is one purge, because a second one finds the same rows.

In `services` two replicas are the fewest that race for the bootstrap while members change, and two
callers the fewest that overlap. `AccountsBound` divides them: calls that follow one another
run beside tokens, a second replica and a second workspace; calls that overlap, and the states they
lead to, do so without these. Two snapshots let a call resolve the
first and answer after the second. Two sources tell a token limited to one of them
from one that is not, and a source without files from one with. Two resources may change
their names between the two reads of a compilation, and of the five pinned contents one
leaves paths out, one shows a source line the scan may miss behind another line, one has such a line
in the third of its files where the scan looks at two (`SnapshotFileLimit`), one is too long and one shows what is
barred. Three files of up to two lines (`MaxFiles`, `MaxRows`) let a limit of one or two cut
a scan inside a file and between files. `ServicesSymmetry` permutes callers, replicas and commits, which the model only compares
with each other.
In `writers` two shells are the fewest that apply over each other and roll back
in another order (after an edit of the user two calls that run at once are rollbacks, `ApplyBound`; `MCSymmetry`
permutes shells, agents, and plans with the servers they name); `LoopBound` lets people edit the text of the one finding of a report, as that needs
no second one; two packages share a file, so that one can hide the other's. Three
versions are the fewest in which a third is built from the first's sections while
the second that shares them is purged. `MCBundles` has a text that occurs twice,
one inserted before it, and a deleted file.
In `pipeline` a limit of two files, of depth one or of four bytes is met and passed by the
enumerated inputs; windows of up to four letters overlap by up to three. Four chunks hold two
snapshots of one resource, a text that occurs twice and a chunk of a third; `MCPool` caps the
candidates at two. Two uploads race and a third finds what they left. The first cycle of the
campaign ends on its first day, so that claims of it are refused, and the second leaves room
for a campaign with one slip.

Fairness (`Fairness` in `IndexRuns`) is weak fairness of each step of a handler,
worker and scheduler that has begun, of taking a queued job, and of starting a
pass: `maintenance.py:250-280` loops for ever, RQ takes the oldest job, and
request handlers do not stop by themselves. Nothing obliges a user to make a
call. Crashes are excluded from the liveness runs, because the code has nothing
that recovers the run of a dead worker.

### Where documents and code differ

Three statements have a run that shows them broken; the `findings` of
`PROJECT.json` give the lines.

* `unreviewed`: reviewing the last open candidate leaves the counter that gates
  the publication at one, because the open candidates are counted before the new
  status is flushed.
* `suggested_read`: ask suggests to read its first citation with
  `read_section`, and gives the hash of the chunk where the tool looks for the hash of
  the whole file. With a file of two chunks the suggested call is refused.
* `last_admin`: the specification of the feature says that the last administrator cannot be
  downgraded or deactivated. Two calls that each demote one of two administrators both count
  two before either writes, and leave none.

The others are behaviours of the models; the properties are stated so as to hold
beside them.

* The scheduler enqueues before it commits the run (`maintenance.py:118`): a worker that is faster
  finds no row and the run stays queued (`docs/MILESTONE-1.md:157`). TLC finds it in the instance of
  `progress` with `Schedulers = {s1}`.
* Purge checks an unlocked copy (`resource_lifecycle.py:357`): a restore in between is lost and
  a live resource is purged (`docs/MILESTONE-12.md:68`).
* Rows whose frequency parses to nothing head every batch (`maintenance.py:86`) and keep due rows
  out of it (`docs/MILESTONE-12.md:31`). `due` has no such row.
* A publish call that waited for the lock decides on the status it read before
  (`graph_versions.py:268`): a superseded or invalidated version is published.
* `users/page.tsx:56` of the web console says the final active administrator
  cannot be disabled; `update_workspace_member` counts the administrators of the
  workspace it is called for and disables the account in all of them.
* `docs/SLEEP_REPLAY_LOOP.md:30` calls a one-off finding noise; sleep counts every proposal
  file, copies and staged ones included.
* `B0-resource-map-spec.md:187` promises no orphaned sections; a purge removes only those filed under
  the resource it purges (`resource_purge.py:163`), not those of the family's other versions.
* `docs/GATE_A_EVAL_V2.md` keeps search away from forbidden files; a search of `src/secrets` with
  `src/secret*/x` forbidden is accepted, and so are lint and type checks above a forbidden file.
* MCP search without a pack returns chunks of snapshots that are not current
  (`runtime_query.py:128`; `docs/ARCHITECTURE.md:80`), says so, and the section can be read.
* Smaller ones: `start_line` and `end_line` are ignored for a section locator without a
  citation (`runtime_query.py:208`); a name is looked up in eleven rows before the token's
  filter applies; `get_context_pack` pages citations but not artifacts; the thresholds of an
  evaluation manifest are validated (`eval_manifest.py:131`) and used nowhere; the symbols of
  the document at which the chunk budget ends are indexed although its file is not stored;
  `uninstall` ignores whether a file existed before.

## What is proved

The theorems hold for any sets of resources, runs, calls, workers, schedulers,
files, users, questions and tasks and for any limits that meet the named
assumptions of the modules (`...Constants`), which TLC evaluates on every run. A
theorem that needs more says so with `ASSUME`; each such assumption excludes a
fault or an overlap under which the code does not keep the property.

### Refresh, graphs, merges, agents

`IndexRunsProofs` assumes `NoAmbiguousEnqueue`: no enqueue raises although its
job was stored. Under that fault the code does make two runs
active. The invariant `IInv` adds to the type: who holds which row lock and why;
that the claim of a call or a pass is the only active run of its resource; that
an active run belongs to a call, a pass, a job or a worker; and that what a
purge removed is referenced only by processes that will notice. The properties
alone are not inductive: `OneActiveRunPerResource` depends on the row lock
between the check and the insert, and the lock on the stage of its holder. From
`Invariance` follow `TypeCorrect`, `OneActiveRun`, `PurgeIsComplete`, and the
step properties `SnapshotAdvances` and `ScheduledRunsAreLive`.

Three theorems need more than `NoAmbiguousEnqueue`.

* `SlotsRefinement`: `IndexRuns` implements `RefreshSlots`. Every step maps to
  a claim, an advance, a release of one slot, or to a stutter, because by `IInv` the claim
  of a call is the only active run of its resource. `NoUploads`: the upload handler
  writes `queued` over whatever its run's status has become, which claims no slot.
* `StatusMovesForward`: the status of a run never goes back. `NoUploads` again, and
  `NoLateTimeout`, because an alarm after the last commit makes a succeeded run fail.
  `FailingRuns`, the run a handler is about to fail has not ended, is inductive beside `IInv`.
* `NobodyIsStranded`: every active run has a call, a queued job or a worker that carries it.
  `NoUploads`, `NoCrash` and `NoScheduling`: a dead process strands its run, and so does a
  scheduler whose job is taken before the run is committed.

`GraphVersionsProofs` proves `StreamsAgree` and from it `PublishedAlwaysCurrent`,
`GraphAlwaysFollows` and `SnapshotAlwaysBringsGraph`. The strengthening says what
the copies are worth. A refresh is alone on its resource and works on the
current snapshot or the next (`JobsAgree`), so an unchanged graph is of the
snapshot about to be committed, and a version about to be published is new or a
draft of that snapshot. A call names a version that exists (`CallsAgree`), and no
version is ahead of its resource (`NoVersionAhead`), which is why a draft of an
older snapshot can never become current by accident. Publication is proved once
(`PublicationAgrees`) and used by the publish call and by the refresh.

`GraphMergesProofs` proves `MergesAgree` and from it `MergesAlwaysAgree`,
`PointerAlwaysHolds` and `OpenAlwaysAcknowledged`. It needs nothing of the
streams but which variables their steps leave alone. `MergePointer` is not
inductive because two processes write the current version from copies: the
publish call supersedes what it loaded as published, the worker invalidates what
it selected. The strengthening says that the copy of a call is the current
version as it is, or as it was before a refresh invalidated it (`MergeCallsAgree`), and that what a
refresh selected has been published (`DependentsWerePublished`), so it can
never invalidate a draft a call is about to publish. `CounterCoversOpen` is what
makes the gate sound although the counter may be too high: it is never zero
while a candidate is open.

`RepoAgentsProofs` proves `AgentsAgree` and from it `AgentsAlwaysAgree`,
`AgentPointerHolds`, `AgentEvidenceHolds`, `DetachedAlwaysScrubbed` and
`PurgeAlwaysComplete`. The proof turns the invariant into a conjunction over the
agents (`AllFit`, with `AgentFits` for one of them): a step of an agent disturbs its
own part, a step of a pack no agent's pointer. `AgentEvidence` is not inductive: a
call carries what it has compiled over steps of others (`CallAgrees`), a version
names the resource of its agent (`RowsAgree`), and a pack version covers a
resource for as long as that resource is not purged, which is where the proof
needs `PurgeIsComplete`: a purge that an agent's reference does not stop would take the
coverage away. That no step takes a pack version or an export back to where it cannot be looked up is
one lemma, `KeptFits`, for all steps of packs but the purge.

### What is answered: `ServicesProofs`

The invariants say what is still true of what a call, a caller or an evaluation
holds while the store moves on.

* `CodeAnswered` (`RemoteCode`), from `CodeIInv`: the snapshot a call resolved is one the
  resource had, and keeps its commit until the purge (`CallsAreOfTheirTime`); the proposal
  it approved is still of the commit the approval was for (`ApprovalsLast`), which is what lets
  `FinishOpenPr` record it without asking again.
* `ReadsExact` (`CodeReads`), from `ReadsIInv`: a client that reads page after page has the lines up to where
  it goes on. The rest is about the operators. The table LIKE fills says of each cell whether the
  pattern up to there can be laid over the path up to there (`TableFilled`), no other function solves its
  recursion (`TableIsOne`), and laying it over the path is what `fnmatch` does. A scan of grep has found, at each
  line, the first matches up to that line or as many as it was asked for (`FoundUntil`); the
  files of search are the first of an order (`FirstMembers`); and the bytes of a scan grow
  file by file, so that a limit met somewhere is met in the end.
* `EvidenceIsHeld` (`RuntimeReads`), from `ReadIInv`: a hit is pinned by the pack version it was found
  under or is of a snapshot at most the current one (`HeldIsPinned`); a purge takes the
  source out of every pack version, or is refused (`PinsAreIndexed`).
* `AnswersGrounded` (`AgentAnswers`) is about the operators: the parts of a context with the separators between
  them keep to the budget and, until one does not fit, there is one per entry (`FitsUntil`); the
  rows up to a cursor are on the pages before it, and each page moves it by at least one row
  (`ListedUntil`). A name is looked up in rows that no two share, so one match is one resource.
* `EvalsPrivate` (`EvalRuns`), from `EvalIInv`: what was authorised when the evaluation began bounds every
  answer it got later, although resources were archived or restored since (`StaysAuthorised`).
* `AccountsGoverned` (`Accounts`), from `AccountIInv`, for calls that overlap in any way: the copies of a
  call that no other has overtaken are what is in the tables but for what a bootstrap raises (`CopiesHold`),
  and the count it made is worth its decision (`CountHolds`). Of a call that was overtaken nothing
  is left to say, and the code does not keep the last administrator there.
* `EvalsHonest` (`EvalReports`) is about the operators: requests cut a manifest into consecutive
  pieces no longer than the API takes, and a verdict follows from the grades.
* `PackagesAreSound` (`SkillPackages`), from `PackageIInv`: a package is what one compilation made of a title, of
  two readings of the names and of the lines it looked for, whatever was renamed in between and
  whoever reviewed it since (`IsMadeOf`). What it hides and how it fails is read off that. For the shares,
  the path that was left out first in its group has as many paths before it as the limit
  leaves room for (`DealtFairly`). An assumption says that redaction writes less than the
  shortest line the scan looks for: the package would otherwise bar its own words.

### What is written: `WritersProofs`

* `AppliesCanBeUndone` (`RuntimeApply`), from `ApplyIInv`: a receipt and its backup are there before the
  file they belong to (`WriteAhead`), no two applies write one receipt (`OwnReceipts`),
  and a call nobody disturbed still finds the file it read (`CallsHold`). What a rollback tears has a
  receipt with a whole backup behind it: the call that copied from it had compared the two, and neither is
  written again (`TornIsMended`).
* `SkillsStayTidy` (`SkillInstall`), from `SkillIInv`: every file stands on a receipt that will stay until
  it is gone, on an open install or on one that died (`FilesStand`); an uninstall that has
  passed a path no longer stands for it, which is why two packages may share files.
* `SectionsStayWhole` (`Sections`), from `SectionIInv`: what a build read of its predecessor is what that
  one still holds, unless it was purged and its sections with it (`PreviousIsOfOver`); the foreign
  keys then make the commit fail.
* `SectionsStayKept` (`Sections`) adds what a version reports, from `RowsAreDistinct` as well: no two rows of a snapshot are
  of one section. Each place of a new file claims at most one section, of its own text, and its own when it is there
  (`ClaimedUntil`), so that a text has at least as many absent sections as it lost occurrences
  (`AbsentOfOneText`); a set that has no more members of any kind than another is no larger (`NoMoreOfAKind`).
* `LoopStaysGuarded` (`ReviewLoop`), from `LoopIInv`: a finding that may become a proposal names a claim
  (`FindingsCarry`), a text is that of the claim for as long as none under its identifier was edited
  (`TextsTell`), and the gate has accepted nothing harmful under such an identifier (`GatesKnow`), however often
  sleep has wrapped it up. What was edited after the gate is not covered, as the code does not ask.

### What is judged and staged: `PipelineProofs`

* `StagingSafe` (`UploadStaging`), from `StagingIInv`: which file is there at each step of the handler
  and the run, and that one that is gone while it is needed was a day old.
* `BundlesFaithful` (`Bundles`), from `BundleIInv`: as far as an archive is unpacked there is one row of each file, since
  the names were compared before, and the disk holds every file that is not too large or an archive itself, since count and bytes of
  all of them were within the quotas before the first was written (`UnpackedUntil`). A line
  of a text is in the section of the last start before it, and in no other (`StartsPartition`). The pages read so
  far hold the rows up to the cursor, each once, in order (`DiffRead`).
* `CampaignsAreFair` (`GateEvidence`), from `EvidenceIInv`: what really happened shows in the receipts. Work
  on a pack after the release leaves a receipt that is not earlier (`LateWorkShows`), and two
  attempts that ran at once both ran through some day that is over (`OverlapShows`).
* `AccessContained` (`GateScoring`): the validators' glob is a recursive function over positions of path and
  pattern. The proof gives the table it computes in closed form, shows that the table satisfies the recursion and,
  by the least position where two solutions differ, that no other does. The rest reads matches
  off the table.
* `VerdictsAreEarned` (`GateScoring`) assumes `OneTaskBehind`, `HumanGap = 1`: the founder's
  script has the gap to the human pack written out, where the gate takes its threshold
  (`gate_a_eval.py:131`); with another threshold the two scorers do disagree.
* `IndexFaithful` (`Ingestion`), from `IngestIInv`. A snapshot is kept only if the fingerprint is the one of the
  configuration, and the fingerprint holds all of it (`IngestConstants`). The other parts say what
  holds all along a scan: each window begins at most one letter behind the one before it and behind its
  beginning, so that they reach the end of the text in as many steps as it has letters (`StartsUntil`); a file
  left out is noted (`WalkedUntil`); and with the budgets (`IndexedUntil`) each document has the share of the symbols
  that its place leaves it, so that the graph, which counts them again over the stored files only, comes to
  the same numbers: a document that is not stored before a stored one has no chunk and hence no symbol.
* `RetrievalSound` (`Retrieval`), from `RetrievalIInv`: what a statement found it could see, and
  until a resource changes the status of the namespace says whether the vector statement can find any (`VectorsMatch`), whatever
  the cleaning of deployment identifiers makes one. The chunk in place
  i of a ranking is the one with i - 1 above it; there is exactly one (`OneAtEachPlace`), so that
  sorting loses and repeats none (`SortingSorts`) and the capped batch is the best of what was found. Promotion
  permutes (`PromotionPermutes`). As far as a ranking is placed none is lost until the selection is full, and what is deferred
  is crowded out (`PlacedUntil`), which more selected chunks do not change (`CrowdedStays`): a near-duplicate that
  fills up leaves out only such chunks.

Induction: the theorems of the library that take a predicate as a parameter are
of no use to the provers. `NumberFacts` proves that a set of naturals that is not empty has a least
member, and a finite one a greatest; where a claim is about every number, the proof looks at the least counterexample.
What a recursive function of the models computes needs a solution of its equation first: `StepByStep` proves that
a function exists whose every value is made from the one before it, and `HoldsAll` that
what holds at its start and is kept by each step holds all along, with the claim written as a function
to the Booleans instead of a predicate.

### Only model-checked

Liveness, `ActiveRunsEnd` and `DueIsScheduled`: the proof system has no rule for ENABLED, and the `WF_` and
`SF_` formulas they rest on say what is enabled. Every other property of a passing run is stated by a theorem.

## What is not modelled, and why

* Refusals that change nothing (authorization outside `Accounts`, 404, 409 of
  purge while a graph, pack or agent refers to the resource).
* Parsers, text search, embeddings and ranking arithmetic: what they
  return is a choice among what the code lets them return.
* The scheduler's dry run and the agent card audits, which write one row under
  the lock the scheduler's pass shows.
* The content of artifacts, packs, briefs and agent bundles, and the wording of export files.
* The schema of Gate A manifests and receipts, digests and rubrics; the golden
  suite and security scan of self-improvement are one predicate each.
* Uploads in the run that checks `RunsMoveForward`: the upload handler writes
  `queued` without a condition, over a run that may have ended.
* Comments posted to GitHub, the harness scripts, the web console, commands of
  the CLI that only send a request.
* The path search of merges, and a repo agent's refresh that returns an older draft
  which publish refuses (`repo_agents.py:451`): it changes nothing, and refreshing again
  does not help.

## Plan

Done: every module above with its runs, and the proofs listed in "What is proved".

Next, in this order:

1. The liveness properties for two resources and two workers, where TLC's time allows.
2. The agent card audits, beside the scheduler.
