----------------------------- MODULE RepoAgents -----------------------------
(***************************************************************************)
(* Repo agents: versions that pin a snapshot, a published context pack and *)
(* an approved skill export of a Git resource, and block its purge until   *)
(* they are scrubbed.                                                      *)
(*                                                                         *)
(* Every mutation holds the lock of the agent row, so an agent has one     *)
(* call at a time.  The pack, the export and the resource it depends on    *)
(* are only read: refresh, rollback draft and publish are therefore two    *)
(* steps each, the reads and the commit.                                   *)
(***************************************************************************)
EXTENDS ContextPacks

CONSTANTS
    Agents,            \* agent keys
    MaxAgentVersion    \* bounds the versions of an agent

ASSUME AgentConstants == MaxAgentVersion \in Nat

VARIABLES
    agent,          \* repo_agents rows; current is a version number, 0 is NULL
    agentVersions,  \* repo_agent_versions rows
    agentCall       \* the call that holds the lock of an agent

agentVars == <<agent, agentVersions, agentCall>>

-----------------------------------------------------------------------------
(* Types *)

AgentNumbers == 1..MaxAgentVersion

\* What version_hash is computed from.  A draft made by a rollback is of the
\* first version with the inputs of its target, as hashes are compared.
Inputs == [snap : 0..MaxSnapshot, pack : 0..MaxPackVersion, export : 0..MaxExport,
           from : 0..MaxAgentVersion]

Agent == [status : {"none", "active", "archived"}, res : Resources \cup {NoResource},
          pack : Packs \cup {NoPack}, current : 0..MaxAgentVersion]

\* res is NULL once the version is scrubbed, and the references with it; the
\* hash stays.
AgentVersion ==
    [status : {"none", "draft", "published", "superseded", "invalidated", "failed"},
     res : Resources \cup {NoResource}, inputs : Inputs]

AgentCall == [pc : {"idle", "compiled", "checked"}, inputs : Inputs,
              version : 0..MaxAgentVersion]

TypeOK ==
    /\ PackTypeOK
    /\ agent \in [Agents -> Agent]
    /\ agentVersions \in [Agents -> [AgentNumbers -> AgentVersion]]
    /\ agentCall \in [Agents -> AgentCall]

NoInputs == [snap |-> 0, pack |-> 0, export |-> 0, from |-> 0]
NoAgent == [status |-> "none", res |-> NoResource, pack |-> NoPack, current |-> 0]
NoAgentVersion == [status |-> "none", res |-> NoResource, inputs |-> NoInputs]
NoCall == [pc |-> "idle", inputs |-> NoInputs, version |-> 0]

AgentInit ==
    /\ PackInit
    /\ agent = [a \in Agents |-> NoAgent]
    /\ agentVersions = [a \in Agents |-> [v \in AgentNumbers |-> NoAgentVersion]]
    /\ agentCall = [a \in Agents |-> NoCall]

-----------------------------------------------------------------------------
(* Helpers *)

\* Variant: a call does not keep the lock.
NeverLocked(a) == TRUE

Unlocked(a) == agentCall[a].pc = "idle"

Drafts(a) == {v \in AgentNumbers : agentVersions[a][v].status = "draft"}

NewestDraft(a) == {v \in Drafts(a) : \A u \in Drafts(a) : u <= v}

\* Variant: the newest version of the agent's pack, whatever its status.
NewestPack(a) ==
    {v \in PackNumbers :
        LET rows == packVersions[agent[a].pack] IN
        /\ agent[a].res \in Covers(rows[v])
        /\ \A u \in PackNumbers : rows[u].status # "none" => u <= v}

\* The published version of the agent's pack, when it covers the resource.
CurrentPack(a) ==
    {v \in PublishedVersions(agent[a].pack) :
        agent[a].res \in Covers(packVersions[agent[a].pack][v])}

\* Its latest approved export.
ApprovedExport(k, v) ==
    {e \in ExportNumbers :
        /\ exports[k][v][e].status = "approved"
        /\ \A f \in ExportNumbers : exports[k][v][f].status = "approved" => f <= e}

\* What a refresh compiles.
CurrentInputs(a) ==
    {i \in Inputs :
        /\ i.snap = resource[agent[a].res].snap /\ i.from = 0
        /\ \/ CurrentPack(a) = {} /\ i.pack = 0 /\ i.export = 0
           \/ /\ i.pack \in CurrentPack(a)
              /\ LET approved == ApprovedExport(agent[a].pack, i.pack) IN
                 \/ approved = {} /\ i.export = 0
                 \/ i.export \in approved}

\* Without a completed index the version fails its validation.
StatusOf(inputs) == IF inputs.snap = 0 THEN "failed" ELSE "draft"

\* A version of the same hash and status, which compile returns unchanged.
Same(a, inputs) ==
    {v \in AgentNumbers : /\ agentVersions[a][v].status = StatusOf(inputs)
                          /\ agentVersions[a][v].inputs = inputs}

PackUsable(k, v, statuses) == v # 0 => packVersions[k][v].status \in statuses

ExportUsable(k, inputs) ==
    inputs.export # 0 =>
        /\ exports[k][inputs.pack][inputs.export].status = "approved"
        /\ exports[k][inputs.pack][inputs.export].files

Retained == {"published", "superseded", "rolled_back"}

UnlockedStep(a) == Unlocked(a) /\ agent[a].status # "none"

Holds(a, r) ==
    agent[a].res = r \/ \E v \in AgentNumbers : agentVersions[a][v].res = r

-----------------------------------------------------------------------------
(* Create, refresh, rollback draft *)

\* One agent for a resource and a pack key.
CreateAgent(a, r, k) ==
    /\ Unlocked(a) /\ agent[a].status = "none" /\ resource[r].status = "live"
    /\ \A b \in Agents : agent[b].res # r \/ agent[b].pack # k
    /\ agent' = [agent EXCEPT ![a] = [status |-> "active", res |-> r, pack |-> k, current |-> 0]]
    /\ UNCHANGED <<agentVersions, agentCall>>

Compile(a, inputs) ==
    agentCall' = [agentCall EXCEPT ![a] = [pc |-> "compiled", inputs |-> inputs, version |-> 0]]

StartRefresh(a) ==
    /\ Unlocked(a) /\ agent[a].status = "active"
    /\ \E inputs \in CurrentInputs(a) : Compile(a, inputs)
    /\ UNCHANGED <<agent, agentVersions>>

\* The references of the target are copied if they are still retained.
StartRollback(a, v) ==
    LET row == agentVersions[a][v] IN
    /\ Unlocked(a) /\ agent[a].status = "active"
    /\ row.status \in {"published", "superseded"}
    /\ PackUsable(agent[a].pack, row.inputs.pack, Retained)
    /\ ExportUsable(agent[a].pack, row.inputs)
    /\ \E u \in AgentNumbers :
         /\ agentVersions[a][u].inputs = row.inputs /\ agentVersions[a][u].status # "none"
         /\ \A w \in 1..(u - 1) : agentVersions[a][w].inputs # row.inputs
         /\ Compile(a, [row.inputs EXCEPT !.from = u])
    /\ UNCHANGED <<agent, agentVersions>>

\* The commit of either.
FinishCompile(a) ==
    LET inputs == agentCall[a].inputs IN
    /\ agentCall[a].pc = "compiled"
    /\ \/ Same(a, inputs) # {} /\ UNCHANGED agentVersions
       \/ /\ Same(a, inputs) = {}
          /\ \E v \in Next1(agentVersions[a], AgentNumbers) :
               agentVersions' = [agentVersions EXCEPT
                 ![a][v] = [status |-> StatusOf(inputs), res |-> agent[a].res, inputs |-> inputs]]
    /\ agentCall' = [agentCall EXCEPT ![a] = NoCall]
    /\ UNCHANGED agent

-----------------------------------------------------------------------------
(* Publish *)

\* Only the newest draft, and only if what it refers to is usable now.
StartPublish(a, v) ==
    LET inputs == agentVersions[a][v].inputs IN
    /\ Unlocked(a) /\ agent[a].status = "active"
    /\ v \in NewestDraft(a)
    /\ PackUsable(agent[a].pack, inputs.pack,
                  IF inputs.from = 0 THEN {"published"} ELSE Retained)
    /\ ExportUsable(agent[a].pack, inputs)
    /\ agentCall' = [agentCall EXCEPT ![a] = [NoCall EXCEPT !.pc = "checked", !.version = v]]
    /\ UNCHANGED <<agent, agentVersions>>

\* Variant: only a current version that has been rolled back to is replaced.
ReplacedDrafts(a) == {v \in {agent[a].current} : v # 0 /\ agentVersions[a][v].inputs.from # 0}

\* The current version, when it is published.
Replaced(a) == {v \in {agent[a].current} : v # 0 /\ agentVersions[a][v].status = "published"}

FinishPublish(a) ==
    LET v == agentCall[a].version IN
    /\ agentCall[a].pc = "checked"
    /\ agentVersions' = [agentVersions EXCEPT ![a] =
         [u \in AgentNumbers |->
            IF u = v THEN [@[u] EXCEPT !.status = "published"]
            ELSE IF u \in Replaced(a) THEN [@[u] EXCEPT !.status = "superseded"]
            ELSE @[u]]]
    /\ agent' = [agent EXCEPT ![a].current = v]
    /\ agentCall' = [agentCall EXCEPT ![a] = NoCall]

-----------------------------------------------------------------------------
(* Archive, invalidate, scrub, delete *)

\* An agent without versions lets go of its resource at once.
ArchiveAgent(a) ==
    /\ UnlockedStep(a)
    /\ agent' = [agent EXCEPT
         ![a].status = "archived",
         ![a].res = IF \A v \in AgentNumbers : agentVersions[a][v].status = "none"
                    THEN NoResource ELSE @]
    /\ UNCHANGED <<agentVersions, agentCall>>

InvalidateAgentVersion(a, v) ==
    LET row == agentVersions[a][v] IN
    /\ UnlockedStep(a) /\ row.status # "none"
    /\ row.status = "published" /\ agent[a].current = v => agent[a].status = "archived"
    /\ agentVersions' = [agentVersions EXCEPT ![a][v].status = "invalidated"]
    /\ agent' = [agent EXCEPT ![a].current = IF @ = v THEN 0 ELSE @]
    /\ UNCHANGED agentCall

\* Variant: what remains is counted with the version that is being scrubbed, whose
\* new values are not flushed yet, and by status.
RemainingRetained(a, v) ==
    {u \in AgentNumbers : agentVersions[a][u].status \in {"published", "superseded"}}

\* Versions that still name the resource.
Remaining(a, v) == {u \in AgentNumbers : u # v /\ agentVersions[a][u].res # NoResource}

\* The last one scrubbed releases the resource.
ScrubAgentVersion(a, v) ==
    /\ UnlockedStep(a) /\ agent[a].status = "archived"
    /\ agentVersions[a][v].status \in {"invalidated", "failed"}
    /\ agentVersions' = [agentVersions EXCEPT ![a][v].res = NoResource]
    /\ agent' = [agent EXCEPT ![a].res = IF Remaining(a, v) = {} THEN NoResource ELSE @]
    /\ UNCHANGED agentCall

\* Refused while a version is published or superseded.
DeleteAgent(a) ==
    /\ UnlockedStep(a)
    /\ \A v \in AgentNumbers : agentVersions[a][v].status \notin {"published", "superseded"}
    /\ agent' = [agent EXCEPT ![a] = NoAgent]
    /\ agentVersions' = [agentVersions EXCEPT ![a] = [v \in AgentNumbers |-> NoAgentVersion]]
    /\ UNCHANGED agentCall

-----------------------------------------------------------------------------
(* Purge, with the references of agents *)

HeldByAgent(r) == \E a \in Agents : Holds(a, r)

\* Refused while an agent or a version of one names the resource.
CheckPurgeWithAgents(q, r) == CheckPurge(q, r) /\ ~HeldByAgent(r)

\* Variant: nothing stops it.
PurgeRegardless(q) == PurgeRows(q)

\* If one has come to name it since, the foreign key stops the last DELETE; so does a
\* row of another table that is added between two of the statements.
PurgeUnlessHeld(q) ==
    \/ PurgeFails(q)
    \/ ~HeldByAgent(purging[q]) /\ PurgeRows(q)

-----------------------------------------------------------------------------

AgentStep(a) ==
    \/ \E r \in Resources, k \in Packs : CreateAgent(a, r, k)
    \/ StartRefresh(a) \/ FinishCompile(a) \/ FinishPublish(a) \/ ArchiveAgent(a) \/ DeleteAgent(a)
    \/ \E v \in AgentNumbers :
         \/ StartRollback(a, v) \/ StartPublish(a, v)
         \/ InvalidateAgentVersion(a, v) \/ ScrubAgentVersion(a, v)

PurgeStep(q) ==
    \/ \E r \in Resources : CheckPurgeWithAgents(q, r)
    \/ PurgeUnlessHeld(q)

Next ==
    \/ (PackStep \/ \E q \in Purgers : PurgeStep(q)) /\ UNCHANGED agentVars
    \/ (\E a \in Agents : AgentStep(a)) /\ UNCHANGED packVars

Spec == AgentInit /\ [][Next]_<<packVars, agentVars>>

-----------------------------------------------------------------------------
(* Properties *)

\* What a version of an agent of pack k and resource r pins can be looked up: its
\* pack version has been published and still covers r, its export is one of that
\* pack version that has been approved.
Retrievable(k, r, inputs) ==
    /\ inputs.pack # 0 =>
         /\ packVersions[k][inputs.pack].status \in Retained \cup {"invalidated"}
         /\ r \in Covers(packVersions[k][inputs.pack])
    /\ inputs.export # 0 =>
         /\ inputs.pack # 0
         /\ exports[k][inputs.pack][inputs.export].status \in {"approved", "invalidated"}

\* An agent points to its published version and has no other one.
AgentPointer ==
    \A a \in Agents, v \in AgentNumbers :
        agentVersions[a][v].status = "published" <=> agent[a].current = v

\* Until a version is scrubbed what it pins can be looked up, although packs and
\* exports are invalidated or rolled back and resources deleted and purged without
\* the agent's lock.
AgentEvidence ==
    \A a \in Agents, v \in AgentNumbers :
        agentVersions[a][v].res # NoResource =>
            Retrievable(agent[a].pack, agentVersions[a][v].res, agentVersions[a][v].inputs)

\* An agent lets go of its resource only when it is archived and none of its
\* versions names it: "once all versions are scrubbed, null repo_agents.resource_id".
DetachedIsScrubbed ==
    \A a \in Agents :
        agent[a].status # "none" /\ agent[a].res = NoResource =>
            /\ agent[a].status = "archived"
            /\ \A v \in AgentNumbers : agentVersions[a][v].res = NoResource

\* A hard purge leaves nothing of the resource behind: an artifact, the coverage of
\* a pack version or an agent that has been added between the statements that look
\* for references and those that delete is deleted with it or stops it.
PurgeIsComplete ==
    \A r \in Resources : resource[r].status = "purged" =>
        /\ \A x \in ArtifactsOf(r) : artifact[x].status = "purged"
        /\ \A k \in Packs, v \in PackNumbers : r \notin Covers(packVersions[k][v])
        /\ ~HeldByAgent(r)

-----------------------------------------------------------------------------
(* The inductive invariant: the properties, and what they rest on *)

\* Rows that do not exist are empty, an agent has a pack key; a version names the
\* resource of its agent or, scrubbed, none, and only an invalidated or failed one
\* is scrubbed.
RowsAgree(a) ==
    /\ agent[a].status = "none" =>
         /\ agent[a] = NoAgent
         /\ \A v \in AgentNumbers : agentVersions[a][v].status = "none"
    /\ agent[a].status # "none" => agent[a].pack \in Packs
    /\ \A v \in AgentNumbers :
         LET row == agentVersions[a][v] IN
         /\ row.status = "none" => row = NoAgentVersion
         /\ row.res \in {NoResource, agent[a].res}
         /\ row.status \in {"draft", "published", "superseded"} => row.res # NoResource

\* A call under way is one of an active agent; what it has compiled can be looked
\* up, and the version it publishes is a draft.
CallAgrees(a) ==
    LET call == agentCall[a] IN
    /\ call.pc # "idle" => agent[a].status = "active"
    /\ call.pc = "compiled" => Retrievable(agent[a].pack, agent[a].res, call.inputs)
    /\ call.pc = "checked" =>
         /\ call.version # 0
         /\ agentVersions[a][call.version].status = "draft"

\* An artifact that does not exist has no resource.
ArtifactsAgree == \A x \in Artifacts : artifact[x].status = "none" => artifact[x].res = NoResource

AgentsAgree ==
    /\ TypeOK /\ ArtifactsAgree
    /\ AgentPointer /\ AgentEvidence /\ DetachedIsScrubbed /\ PurgeIsComplete
    /\ \A a \in Agents : RowsAgree(a) /\ CallAgrees(a)
=============================================================================
