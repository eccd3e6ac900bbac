--------------------------- MODULE RepoAgentsProofs ---------------------------
(***************************************************************************)
(* Proofs about RepoAgents: AgentsAgree is inductive for any sets of       *)
(* resources, artifacts, packs, agents and calls and any bounds.           *)
(*                                                                         *)
(* The invariant is rearranged into what it says of one agent, given by    *)
(* its rows, and the rest.  A step of an agent changes the rows of that    *)
(* agent only, so its lemma is about those new rows.  A step of packs      *)
(* changes no agent: its lemma is that what is retrievable remains so.     *)
(***************************************************************************)
EXTENDS RepoAgents, TLAPS

-----------------------------------------------------------------------------
(* The invariant, agent by agent *)

RowsPoint(row, rows) ==
    \A v \in AgentNumbers : rows[v].status = "published" <=> row.current = v

RowsRetrievable(row, rows) ==
    \A v \in AgentNumbers :
        rows[v].res # NoResource => Retrievable(row.pack, rows[v].res, rows[v].inputs)

RowsDetach(row, rows) ==
    row.status # "none" /\ row.res = NoResource =>
        /\ row.status = "archived"
        /\ \A v \in AgentNumbers : rows[v].res = NoResource

RowsExist(row, rows) ==
    /\ row.status = "none" =>
         /\ row = NoAgent
         /\ \A v \in AgentNumbers : rows[v].status = "none"
    /\ row.status # "none" => row.pack \in Packs
    /\ \A v \in AgentNumbers :
         /\ rows[v].status = "none" => rows[v] = NoAgentVersion
         /\ rows[v].res \in {NoResource, row.res}
         /\ rows[v].status \in {"draft", "published", "superseded"} => rows[v].res # NoResource

CallFits(row, rows, call) ==
    /\ call.pc # "idle" => row.status = "active"
    /\ call.pc = "compiled" => Retrievable(row.pack, row.res, call.inputs)
    /\ call.pc = "checked" => call.version # 0 /\ rows[call.version].status = "draft"

Unpurged(row) == row.res \in Resources => resource[row.res].status # "purged"

AgentFits(row, rows, call) ==
    /\ row \in Agent /\ rows \in [AgentNumbers -> AgentVersion] /\ call \in AgentCall
    /\ RowsPoint(row, rows) /\ RowsRetrievable(row, rows) /\ RowsDetach(row, rows)
    /\ RowsExist(row, rows) /\ CallFits(row, rows, call) /\ Unpurged(row)

PacksPurged ==
    \A r \in Resources : resource[r].status = "purged" =>
        /\ \A x \in ArtifactsOf(r) : artifact[x].status = "purged"
        /\ \A k \in Packs, v \in PackNumbers : r \notin Covers(packVersions[k][v])

AgentFunctions ==
    /\ agent \in [Agents -> Agent]
    /\ agentVersions \in [Agents -> [AgentNumbers -> AgentVersion]]
    /\ agentCall \in [Agents -> AgentCall]

PacksFit == PackTypeOK /\ ArtifactsAgree /\ PacksPurged

AllFit ==
    /\ AgentFunctions /\ PacksFit
    /\ \A a \in Agents : AgentFits(agent[a], agentVersions[a], agentCall[a])

\* The rearranged invariant is the invariant.
LEMMA Rearranged == AgentsAgree <=> AllFit
<1>1. ASSUME AgentsAgree PROVE AllFit
  <2>1. AgentFunctions /\ PackTypeOK /\ ArtifactsAgree
    BY <1>1 DEF AgentsAgree, TypeOK, AgentFunctions
  <2>2. PacksPurged /\ \A a \in Agents : Unpurged(agent[a])
    BY <1>1 DEF AgentsAgree, PurgeIsComplete, PacksPurged, HeldByAgent, Holds, Unpurged
  <2>3. ASSUME NEW a \in Agents PROVE AgentFits(agent[a], agentVersions[a], agentCall[a])
    <3>1. RowsPoint(agent[a], agentVersions[a])
      BY <1>1 DEF AgentsAgree, AgentPointer, RowsPoint
    <3>2. RowsRetrievable(agent[a], agentVersions[a])
      BY <1>1 DEF AgentsAgree, AgentEvidence, RowsRetrievable
    <3>3. RowsDetach(agent[a], agentVersions[a])
      BY <1>1 DEF AgentsAgree, DetachedIsScrubbed, RowsDetach
    <3>4. RowsAgree(a) /\ CallAgrees(a)
      BY <1>1 DEF AgentsAgree
    <3>5. RowsExist(agent[a], agentVersions[a])
      BY <3>4 DEF RowsAgree, RowsExist
    <3>6. CallFits(agent[a], agentVersions[a], agentCall[a])
      BY <3>4 DEF CallAgrees, CallFits
    <3>7. agent[a] \in Agent /\ agentVersions[a] \in [AgentNumbers -> AgentVersion]
          /\ agentCall[a] \in AgentCall
      BY <2>1 DEF AgentFunctions
    <3> QED BY <2>2, <3>1, <3>2, <3>3, <3>5, <3>6, <3>7 DEF AgentFits
  <2> QED BY <2>1, <2>2, <2>3 DEF AllFit, PacksFit
<1>2. ASSUME AllFit PROVE AgentsAgree
  <2>1. TypeOK /\ ArtifactsAgree
    BY <1>2 DEF AllFit, PacksFit, AgentFunctions, TypeOK
  <2>2. ASSUME NEW a \in Agents
        PROVE  /\ RowsPoint(agent[a], agentVersions[a])
               /\ RowsRetrievable(agent[a], agentVersions[a])
               /\ RowsDetach(agent[a], agentVersions[a])
               /\ RowsExist(agent[a], agentVersions[a])
               /\ CallFits(agent[a], agentVersions[a], agentCall[a])
               /\ Unpurged(agent[a])
    BY <1>2 DEF AllFit, AgentFits
  <2>3. AgentPointer /\ AgentEvidence /\ DetachedIsScrubbed
    BY <2>2 DEF AgentPointer, AgentEvidence, DetachedIsScrubbed, RowsPoint, RowsRetrievable,
                RowsDetach
  <2>4. \A a \in Agents : RowsAgree(a) /\ CallAgrees(a)
    BY <2>2 DEF RowsAgree, CallAgrees, RowsExist, CallFits
  <2>5. ASSUME NEW r \in Resources, resource[r].status = "purged" PROVE ~HeldByAgent(r)
    BY <2>2, <2>5, PackConstants DEF HeldByAgent, Holds, Unpurged, RowsExist
  <2>6. PurgeIsComplete
    BY <1>2, <2>5 DEF AllFit, PacksFit, PacksPurged, PurgeIsComplete
  <2> QED BY <2>1, <2>3, <2>4, <2>6 DEF AgentsAgree
<1> QED BY <1>1, <1>2

-----------------------------------------------------------------------------
(* What a step has to be shown to do *)

\* A step of one agent, that gives it rows that fit.
LEMMA AgentStepFits ==
  ASSUME AllFit, UNCHANGED packVars, NEW a \in Agents, NEW row, NEW rows, NEW call,
         agent' = [agent EXCEPT ![a] = row],
         agentVersions' = [agentVersions EXCEPT ![a] = rows],
         agentCall' = [agentCall EXCEPT ![a] = call],
         AgentFits(row, rows, call)
  PROVE  AllFit'
<1>1. PacksFit'
  BY DEF AllFit, packVars, PacksFit, PackTypeOK, ArtifactsAgree, PacksPurged, ArtifactsOf, Covers
<1>2. AgentFunctions'
  BY DEF AllFit, AgentFits, AgentFunctions
<1>3. \A b \in Agents : /\ agent'[b] = IF b = a THEN row ELSE agent[b]
                        /\ agentVersions'[b] = IF b = a THEN rows ELSE agentVersions[b]
                        /\ agentCall'[b] = IF b = a THEN call ELSE agentCall[b]
  BY DEF AllFit, AgentFunctions
<1>4. ASSUME NEW b \in Agents PROVE AgentFits(agent'[b], agentVersions'[b], agentCall'[b])
  BY <1>3, <1>4 DEF AllFit
<1>5. ASSUME NEW rw, NEW rs, NEW c, AgentFits(rw, rs, c) PROVE AgentFits(rw, rs, c)'
  <2>1. ASSUME NEW k, NEW r, NEW inputs
        PROVE  Retrievable(k, r, inputs)' = Retrievable(k, r, inputs)
    BY DEF Retrievable, Covers, packVars
  <2>2. RowsRetrievable(rw, rs)' /\ CallFits(rw, rs, c)'
    BY <1>5, <2>1 DEF AgentFits, RowsRetrievable, CallFits
  <2>3. Unpurged(rw)'
    BY <1>5 DEF AgentFits, Unpurged, packVars
  <2>4. (RowsPoint(rw, rs) /\ RowsDetach(rw, rs) /\ RowsExist(rw, rs))'
    BY <1>5 DEF AgentFits, RowsPoint, RowsDetach, RowsExist
  <2> QED BY <1>5, <2>2, <2>3, <2>4 DEF AgentFits
<1> QED BY <1>1, <1>2, <1>4, <1>5 DEF AllFit

\* What can be looked up of a resource an agent holds remains so.
EvidenceKept ==
    \A r \in Resources, k \in Packs, inputs \in Inputs :
        HeldByAgent(r) /\ Retrievable(k, r, inputs) => Retrievable(k, r, inputs)'

\* No resource an agent holds is purged.
HeldKept ==
    \A r \in Resources : HeldByAgent(r) /\ resource[r].status # "purged" =>
        resource'[r].status # "purged"

\* A step of packs or resources.
LEMMA PackStepFits ==
  ASSUME AllFit, UNCHANGED agentVars, PacksFit', EvidenceKept, HeldKept
  PROVE  AllFit'
<1>1. AgentFunctions'
  BY DEF AllFit, AgentFunctions, agentVars
<1>2. ASSUME NEW a \in Agents PROVE AgentFits(agent[a], agentVersions[a], agentCall[a])'
  <2> DEFINE row == agent[a]
             rows == agentVersions[a]
             call == agentCall[a]
  <2>1. row' = row /\ rows' = rows /\ call' = call
    BY DEF agentVars
  <2>2. AgentFits(row, rows, call)
    BY DEF AllFit
  <2>3. row.res \in Resources => HeldByAgent(row.res)
    BY DEF HeldByAgent, Holds
  <2>4. \A v \in AgentNumbers : rows[v].res \in Resources => HeldByAgent(rows[v].res)
    BY DEF HeldByAgent, Holds
  <2> HIDE DEF row, rows, call
  <2>5. /\ row \in Agent /\ rows \in [AgentNumbers -> AgentVersion] /\ call \in AgentCall
        /\ RowsPoint(row, rows) /\ RowsRetrievable(row, rows) /\ RowsDetach(row, rows)
        /\ RowsExist(row, rows) /\ CallFits(row, rows, call) /\ Unpurged(row)
    BY <2>2 DEF AgentFits
  <2>6. ASSUME NEW v \in AgentNumbers, rows[v].res # NoResource
        PROVE  Retrievable(row.pack, rows[v].res, rows[v].inputs)'
    <3>1. rows[v] \in AgentVersion
      BY <2>5
    <3>2. rows[v].res \in Resources /\ rows[v].inputs \in Inputs
      BY <2>6, <3>1 DEF AgentVersion
    <3>3. row.status # "none"
      BY <2>5, <2>6 DEF RowsExist, NoAgentVersion
    <3>4. row.pack \in Packs
      BY <2>5, <3>3 DEF RowsExist
    <3>5. Retrievable(row.pack, rows[v].res, rows[v].inputs)
      BY <2>5, <2>6 DEF RowsRetrievable
    <3> QED BY <2>1, <2>4, <3>2, <3>4, <3>5 DEF EvidenceKept
  <2>7. RowsRetrievable(row, rows)'
    BY <2>1, <2>6 DEF RowsRetrievable
  <2>8. CallFits(row, rows, call)'
    <3>1. ASSUME call.pc = "compiled" PROVE Retrievable(row.pack, row.res, call.inputs)'
      <4>1. row.status = "active" /\ Retrievable(row.pack, row.res, call.inputs)
        BY <2>5, <3>1 DEF CallFits
      <4>2. row.res \in Resources /\ row.pack \in Packs /\ call.inputs \in Inputs
        BY <2>5, <4>1 DEF RowsDetach, RowsExist, Agent, AgentCall
      <4> QED BY <2>1, <2>3, <4>1, <4>2 DEF EvidenceKept
    <3> QED BY <2>1, <2>5, <3>1 DEF CallFits
  <2>9. Unpurged(row)'
    BY <2>1, <2>3, <2>5 DEF Unpurged, HeldKept
  <2>10. (RowsPoint(row, rows) /\ RowsDetach(row, rows) /\ RowsExist(row, rows))'
    BY <2>1, <2>5 DEF RowsPoint, RowsDetach, RowsExist
  <2>11. AgentFits(row, rows, call)'
    BY <2>1, <2>5, <2>7, <2>8, <2>9, <2>10 DEF AgentFits
  <2> QED BY <2>11 DEF row, rows, call
<1> QED BY <1>1, <1>2 DEF AllFit

-----------------------------------------------------------------------------
(* The steps of an agent *)

\* What is known of the agent before.
LEMMA FitsBefore ==
  ASSUME AllFit, NEW a \in Agents
  PROVE  /\ agent[a] \in Agent /\ agentVersions[a] \in [AgentNumbers -> AgentVersion]
         /\ agentCall[a] \in AgentCall
         /\ agent = [agent EXCEPT ![a] = agent[a]]
         /\ agentVersions = [agentVersions EXCEPT ![a] = agentVersions[a]]
         /\ agentCall = [agentCall EXCEPT ![a] = agentCall[a]]
         /\ AgentFits(agent[a], agentVersions[a], agentCall[a])
<1>1. AgentFunctions /\ AgentFits(agent[a], agentVersions[a], agentCall[a])
  BY DEF AllFit
<1> QED BY <1>1 DEF AgentFunctions

LEMMA NoCallTyped == NoCall \in AgentCall /\ NoInputs \in Inputs
BY PackConstants, AgentConstants DEF NoCall, AgentCall, NoInputs, Inputs

\* A call that ends, or an idle one, leaves nothing to fit.
LEMMA IdleFits ==
  ASSUME NEW row, NEW rows
  PROVE  CallFits(row, rows, NoCall)
BY DEF CallFits, NoCall

LEMMA CreateFits ==
  ASSUME AllFit, UNCHANGED packVars, NEW a \in Agents, NEW r \in Resources, NEW k \in Packs,
         CreateAgent(a, r, k)
  PROVE  AllFit'
<1> DEFINE row == [status |-> "active", res |-> r, pack |-> k, current |-> 0]
           rows == agentVersions[a]
           call == agentCall[a]
<1>1. AgentFits(agent[a], rows, call) /\ agent[a].status = "none" /\ call.pc = "idle"
      /\ resource[r].status = "live"
  BY FitsBefore DEF CreateAgent, Unlocked
<1>2. row \in Agent
  BY AgentConstants DEF Agent
<1>3. /\ agent' = [agent EXCEPT ![a] = row]
      /\ agentVersions' = [agentVersions EXCEPT ![a] = rows]
      /\ agentCall' = [agentCall EXCEPT ![a] = call]
  BY FitsBefore DEF CreateAgent
<1>4. \A v \in AgentNumbers : rows[v].status = "none" /\ rows[v] = NoAgentVersion
  BY <1>1 DEF AgentFits, RowsExist
<1>5. \A v \in AgentNumbers : rows[v].status = "none" /\ rows[v].res = NoResource /\ v # 0
  BY <1>4 DEF NoAgentVersion, AgentNumbers
<1>6. row.status = "active" /\ row.res = r /\ row.pack = k /\ row.current = 0
  OBVIOUS
<1> HIDE DEF row, rows, call
<1>7. RowsPoint(row, rows) /\ RowsRetrievable(row, rows) /\ RowsDetach(row, rows)
  BY <1>5, <1>6, PackConstants DEF RowsPoint, RowsRetrievable, RowsDetach
<1>8. RowsExist(row, rows) /\ CallFits(row, rows, call) /\ Unpurged(row)
  BY <1>1, <1>4, <1>5, <1>6 DEF RowsExist, CallFits, Unpurged
<1>9. AgentFits(row, rows, call)
  BY <1>1, <1>2, <1>7, <1>8 DEF AgentFits
<1> QED BY <1>3, <1>9, AgentStepFits

\* A call that has compiled inputs that can be looked up.
LEMMA CompileFits ==
  ASSUME AllFit, UNCHANGED packVars, NEW a \in Agents, NEW inputs \in Inputs,
         Compile(a, inputs), UNCHANGED <<agent, agentVersions>>, agent[a].status = "active",
         Retrievable(agent[a].pack, agent[a].res, inputs)
  PROVE  AllFit'
<1> DEFINE row == agent[a]
           rows == agentVersions[a]
           call == [pc |-> "compiled", inputs |-> inputs, version |-> 0]
<1>1. AgentFits(row, rows, agentCall[a])
  BY FitsBefore
<1>2. call \in AgentCall
  BY AgentConstants DEF AgentCall
<1>3. /\ agent' = [agent EXCEPT ![a] = row]
      /\ agentVersions' = [agentVersions EXCEPT ![a] = rows]
      /\ agentCall' = [agentCall EXCEPT ![a] = call]
  BY FitsBefore DEF Compile
<1>4. call.pc = "compiled" /\ call.inputs = inputs
  OBVIOUS
<1> HIDE DEF call
<1>5. CallFits(row, rows, call)
  BY <1>4 DEF CallFits
<1>6. AgentFits(row, rows, call)
  BY <1>1, <1>2, <1>5 DEF AgentFits
<1> HIDE DEF row, rows
<1> QED BY <1>3, <1>6, AgentStepFits

LEMMA StartRefreshFits ==
  ASSUME AllFit, UNCHANGED packVars, NEW a \in Agents, StartRefresh(a)
  PROVE  AllFit'
<1>1. PICK inputs \in CurrentInputs(a) : Compile(a, inputs)
  BY DEF StartRefresh
<1>2. inputs \in Inputs
  BY DEF CurrentInputs
<1>3. CASE inputs.pack = 0 /\ inputs.export = 0
  BY <1>1, <1>2, <1>3, CompileFits DEF StartRefresh, Retrievable
<1>4. CASE ~(inputs.pack = 0 /\ inputs.export = 0)
  <2>1. inputs.pack \in CurrentPack(a)
    BY <1>4 DEF CurrentInputs
  <2>2. inputs.export = 0 \/ inputs.export \in ApprovedExport(agent[a].pack, inputs.pack)
    BY <1>4 DEF CurrentInputs
  <2>3. /\ inputs.pack # 0
        /\ packVersions[agent[a].pack][inputs.pack].status = "published"
        /\ agent[a].res \in Covers(packVersions[agent[a].pack][inputs.pack])
    BY <2>1 DEF CurrentPack, PublishedVersions, PackNumbers
  <2>4. inputs.export # 0 =>
          exports[agent[a].pack][inputs.pack][inputs.export].status = "approved"
    BY <2>2 DEF ApprovedExport
  <2>5. Retrievable(agent[a].pack, agent[a].res, inputs)
    BY <2>3, <2>4 DEF Retrievable, Retained
  <2> QED BY <1>1, <1>2, <2>5, CompileFits DEF StartRefresh
<1> QED BY <1>3, <1>4

LEMMA StartRollbackFits ==
  ASSUME AllFit, UNCHANGED packVars, NEW a \in Agents, NEW v \in AgentNumbers,
         StartRollback(a, v)
  PROVE  AllFit'
<1> DEFINE row == agentVersions[a][v]
<1>1. AgentFits(agent[a], agentVersions[a], agentCall[a])
  BY FitsBefore
<1>2. PICK u \in AgentNumbers : Compile(a, [row.inputs EXCEPT !.from = u])
  BY DEF StartRollback
<1>3. row \in AgentVersion /\ row.status \in {"published", "superseded"}
  BY <1>1 DEF AgentFits, StartRollback
<1>4. row.res = agent[a].res /\ row.res # NoResource
  BY <1>1, <1>3 DEF AgentFits, RowsExist
<1>5. Retrievable(agent[a].pack, agent[a].res, row.inputs)
  BY <1>1, <1>4 DEF AgentFits, RowsRetrievable
<1>6. row.inputs \in Inputs
  BY <1>3 DEF AgentVersion
<1> HIDE DEF row
<1> DEFINE inputs == [row.inputs EXCEPT !.from = u]
<1>7. inputs \in Inputs /\ inputs.pack = row.inputs.pack /\ inputs.export = row.inputs.export
  BY <1>6 DEF Inputs, AgentNumbers
<1>8. Compile(a, inputs)
  BY <1>2
<1> HIDE DEF inputs
<1>9. Retrievable(agent[a].pack, agent[a].res, inputs)
  BY <1>5, <1>7 DEF Retrievable
<1> QED BY <1>7, <1>8, <1>9, CompileFits DEF StartRollback

\* A version that is inserted, and the end of the call.
LEMMA FinishCompileFits ==
  ASSUME AllFit, UNCHANGED packVars, NEW a \in Agents, FinishCompile(a)
  PROVE  AllFit'
<1> DEFINE row == agent[a]
           old == agentVersions[a]
           inputs == agentCall[a].inputs
<1>1. AgentFits(row, old, agentCall[a]) /\ agentCall[a].pc = "compiled"
  BY FitsBefore DEF FinishCompile
<1>2. /\ row.status = "active" /\ Retrievable(row.pack, row.res, inputs)
      /\ inputs \in Inputs /\ row.res \in Resources
  BY <1>1 DEF AgentFits, CallFits, AgentCall, RowsDetach, Agent
<1>3. /\ agent' = [agent EXCEPT ![a] = row]
      /\ agentCall' = [agentCall EXCEPT ![a] = NoCall]
  BY FitsBefore DEF FinishCompile
<1>4. CASE UNCHANGED agentVersions
  <2>1. agentVersions' = [agentVersions EXCEPT ![a] = old]
    BY <1>4, FitsBefore
  <2>2. AgentFits(row, old, NoCall)
    BY <1>1, NoCallTyped, IdleFits DEF AgentFits
  <2> HIDE DEF row, old
  <2> QED BY <1>3, <2>1, <2>2, AgentStepFits
<1>5. CASE ~UNCHANGED agentVersions
  <2> DEFINE new == [status |-> StatusOf(inputs), res |-> row.res, inputs |-> inputs]
  <2>1. PICK v \in Next1(old, AgentNumbers) :
          agentVersions' = [agentVersions EXCEPT ![a][v] = new]
    BY <1>5 DEF FinishCompile
  <2> DEFINE rows == [old EXCEPT ![v] = new]
  <2>2. agentVersions' = [agentVersions EXCEPT ![a] = rows]
    BY <2>1, FitsBefore
  <2>3. v \in AgentNumbers /\ old[v].status = "none"
    BY DEF Next1
  <2>4. /\ new \in AgentVersion /\ new.res = row.res /\ new.inputs = inputs
        /\ new.status \in {"draft", "failed"}
    BY <1>2 DEF AgentVersion, StatusOf
  <2> HIDE DEF new
  <2>5. \A u \in AgentNumbers : rows[u] = IF u = v THEN new ELSE old[u]
    BY <1>1 DEF AgentFits
  <2>6. rows \in [AgentNumbers -> AgentVersion]
    BY <1>1, <2>4 DEF AgentFits
  <2> HIDE DEF rows, old, inputs
  <2>7. RowsPoint(row, rows) /\ RowsRetrievable(row, rows) /\ RowsDetach(row, rows)
    BY <1>1, <1>2, <2>3, <2>4, <2>5
    DEF AgentFits, RowsPoint, RowsRetrievable, RowsDetach
  <2>8. RowsExist(row, rows)
    BY <1>1, <1>2, <2>4, <2>5, PackConstants DEF AgentFits, RowsExist
  <2>9. AgentFits(row, rows, NoCall)
    BY <1>1, <2>6, <2>7, <2>8, NoCallTyped, IdleFits DEF AgentFits
  <2> HIDE DEF row
  <2> QED BY <1>3, <2>2, <2>9, AgentStepFits
<1> QED BY <1>4, <1>5

LEMMA StartPublishFits ==
  ASSUME AllFit, UNCHANGED packVars, NEW a \in Agents, NEW v \in AgentNumbers,
         StartPublish(a, v)
  PROVE  AllFit'
<1> DEFINE row == agent[a]
           rows == agentVersions[a]
           call == [NoCall EXCEPT !.pc = "checked", !.version = v]
<1>1. AgentFits(row, rows, agentCall[a])
  BY FitsBefore
<1>2. v # 0 /\ v \in 0..MaxAgentVersion /\ rows[v].status = "draft" /\ row.status = "active"
  BY DEF StartPublish, NewestDraft, Drafts, AgentNumbers
<1>3. call \in AgentCall /\ call.pc = "checked" /\ call.version = v
  BY <1>2, NoCallTyped DEF AgentCall, NoCall
<1>4. /\ agent' = [agent EXCEPT ![a] = row]
      /\ agentVersions' = [agentVersions EXCEPT ![a] = rows]
      /\ agentCall' = [agentCall EXCEPT ![a] = call]
  BY FitsBefore DEF StartPublish
<1> HIDE DEF call
<1>5. CallFits(row, rows, call)
  BY <1>2, <1>3 DEF CallFits
<1>6. AgentFits(row, rows, call)
  BY <1>1, <1>3, <1>5 DEF AgentFits
<1> HIDE DEF row, rows
<1> QED BY <1>4, <1>6, AgentStepFits

\* The draft becomes the only published version, and the current one.
LEMMA FinishPublishFits ==
  ASSUME AllFit, UNCHANGED packVars, NEW a \in Agents, FinishPublish(a)
  PROVE  AllFit'
<1> DEFINE old == agentVersions[a]
           v == agentCall[a].version
           row == [agent[a] EXCEPT !.current = v]
           rows == [u \in AgentNumbers |->
                      IF u = v THEN [old[u] EXCEPT !.status = "published"]
                      ELSE IF u \in Replaced(a) THEN [old[u] EXCEPT !.status = "superseded"]
                      ELSE old[u]]
<1>1. AgentFits(agent[a], old, agentCall[a]) /\ agentCall[a].pc = "checked"
  BY FitsBefore DEF FinishPublish
<1>2. /\ agent' = [agent EXCEPT ![a] = row]
      /\ agentCall' = [agentCall EXCEPT ![a] = NoCall]
  BY FitsBefore DEF FinishPublish
<1>3. agentVersions' = [agentVersions EXCEPT ![a] = rows]
  BY FitsBefore DEF FinishPublish
<1>4. /\ v \in AgentNumbers /\ old[v].status = "draft" /\ agent[a].status = "active"
  BY <1>1, AgentConstants DEF AgentFits, CallFits, AgentCall, AgentNumbers
<1>5. \A u \in AgentNumbers :
        u \in Replaced(a) <=> agent[a].current = u /\ old[u].status = "published"
  BY DEF Replaced, AgentNumbers
<1>6. \A u \in AgentNumbers :
        /\ old[u] \in AgentVersion /\ rows[u] \in AgentVersion
        /\ rows[u].res = old[u].res /\ rows[u].inputs = old[u].inputs
        /\ rows[u].status = IF u = v THEN "published"
                            ELSE IF u \in Replaced(a) THEN "superseded" ELSE old[u].status
        /\ rows[u].status = old[u].status => rows[u] = old[u]
  BY <1>1, <1>4 DEF AgentFits, AgentVersion
<1>7. /\ row \in Agent /\ row.current = v /\ row.status = "active"
      /\ row.res = agent[a].res /\ row.pack = agent[a].pack
  BY <1>1, <1>4 DEF AgentFits, Agent, AgentNumbers
<1>8. rows \in [AgentNumbers -> AgentVersion]
  BY <1>6
<1> HIDE DEF row, rows, old, v
<1>9. RowsPoint(row, rows)
  BY <1>1, <1>4, <1>5, <1>6, <1>7 DEF AgentFits, RowsPoint
<1>10. RowsRetrievable(row, rows) /\ RowsDetach(row, rows)
  BY <1>1, <1>4, <1>6, <1>7 DEF AgentFits, RowsRetrievable, RowsDetach
<1>11. RowsExist(row, rows)
  <2>1. RowsExist(agent[a], old)
    BY <1>1 DEF AgentFits
  <2>2. \A u \in AgentNumbers : /\ rows[u].status = "none" => rows[u] = NoAgentVersion
                                /\ rows[u].res \in {NoResource, row.res}
    BY <2>1, <1>6, <1>7 DEF RowsExist
  <2>3. \A u \in AgentNumbers : old[u].status \in {"draft", "published", "superseded"}
                                  => rows[u].res # NoResource
    BY <2>1, <1>6 DEF RowsExist
  <2>4. \A u \in AgentNumbers : rows[u].status \in {"draft", "published", "superseded"}
                                  => rows[u].res # NoResource
    BY <2>3, <1>4, <1>5, <1>6
  <2> QED BY <2>1, <2>2, <2>4, <1>4, <1>7 DEF RowsExist
<1>12. AgentFits(row, rows, NoCall)
  BY <1>1, <1>7, <1>8, <1>9, <1>10, <1>11, NoCallTyped, IdleFits DEF AgentFits, Unpurged
<1> QED BY <1>2, <1>3, <1>12, AgentStepFits

LEMMA ArchiveFits ==
  ASSUME AllFit, UNCHANGED packVars, NEW a \in Agents, ArchiveAgent(a)
  PROVE  AllFit'
<1> DEFINE old == agent[a]
           rows == agentVersions[a]
           call == agentCall[a]
           res == IF \A v \in AgentNumbers : rows[v].status = "none" THEN NoResource ELSE old.res
           row == [old EXCEPT !.status = "archived", !.res = res]
<1>1. AgentFits(old, rows, call) /\ call.pc = "idle" /\ old.status # "none"
  BY FitsBefore DEF ArchiveAgent, UnlockedStep, Unlocked
<1>2. /\ agent' = [agent EXCEPT ![a] = row]
      /\ agentVersions' = [agentVersions EXCEPT ![a] = rows]
      /\ agentCall' = [agentCall EXCEPT ![a] = call]
  BY FitsBefore DEF ArchiveAgent
<1>3. res \in Resources \cup {NoResource}
  BY <1>1 DEF AgentFits, Agent
<1>4. /\ row \in Agent /\ row.status = "archived" /\ row.res = res
      /\ row.pack = old.pack /\ row.current = old.current
  BY <1>1, <1>3 DEF AgentFits, Agent
<1>5. \A v \in AgentNumbers : rows[v].status = "none" => rows[v].res = NoResource
  BY <1>1 DEF AgentFits, RowsExist, NoAgentVersion
<1>6. res = old.res \/ (res = NoResource /\ \A v \in AgentNumbers : rows[v].res = NoResource)
  <2>1. CASE \A v \in AgentNumbers : rows[v].status = "none"
    BY <1>5, <2>1
  <2>2. CASE ~\A v \in AgentNumbers : rows[v].status = "none"
    BY <2>2
  <2> QED BY <2>1, <2>2
<1> HIDE DEF row, rows, old, call, res
<1>7. RowsPoint(row, rows) /\ RowsRetrievable(row, rows)
  BY <1>1, <1>4 DEF AgentFits, RowsPoint, RowsRetrievable
<1>8. RowsDetach(row, rows)
  BY <1>1, <1>4, <1>6 DEF AgentFits, RowsDetach
<1>9. RowsExist(row, rows) /\ CallFits(row, rows, call) /\ Unpurged(row)
  BY <1>1, <1>4, <1>6, PackConstants DEF AgentFits, RowsExist, CallFits, Unpurged
<1>10. AgentFits(row, rows, call)
  BY <1>1, <1>4, <1>7, <1>8, <1>9 DEF AgentFits
<1> QED BY <1>2, <1>10, AgentStepFits

LEMMA InvalidateFits ==
  ASSUME AllFit, UNCHANGED packVars, NEW a \in Agents, NEW v \in AgentNumbers,
         InvalidateAgentVersion(a, v)
  PROVE  AllFit'
<1> DEFINE old == agentVersions[a]
           call == agentCall[a]
           new == [old[v] EXCEPT !.status = "invalidated"]
           rows == [old EXCEPT ![v] = new]
           current == IF agent[a].current = v THEN 0 ELSE agent[a].current
           row == [agent[a] EXCEPT !.current = current]
<1>1. /\ AgentFits(agent[a], old, call) /\ call.pc = "idle"
      /\ agent[a].status # "none" /\ old[v].status # "none"
  BY FitsBefore DEF InvalidateAgentVersion, UnlockedStep, Unlocked
<1>2. /\ agent' = [agent EXCEPT ![a] = row]
      /\ agentVersions' = [agentVersions EXCEPT ![a] = rows]
      /\ agentCall' = [agentCall EXCEPT ![a] = call]
  BY FitsBefore DEF InvalidateAgentVersion
<1>3. current \in 0..MaxAgentVersion
  BY <1>1, AgentConstants DEF AgentFits, Agent
<1>4. /\ row \in Agent /\ row.status = agent[a].status /\ row.res = agent[a].res
      /\ row.pack = agent[a].pack /\ row.current = current
  BY <1>1, <1>3 DEF AgentFits, Agent
<1>5. /\ new \in AgentVersion /\ new.status = "invalidated"
      /\ new.res = old[v].res /\ new.inputs = old[v].inputs
  BY <1>1 DEF AgentFits, AgentVersion
<1>6. \A u \in AgentNumbers : u # 0 /\ (u = current <=> u = agent[a].current /\ u # v)
  BY DEF AgentNumbers
<1> HIDE DEF new, row, current
<1>7. \A u \in AgentNumbers : rows[u] = IF u = v THEN new ELSE old[u]
  BY <1>1 DEF AgentFits
<1>8. rows \in [AgentNumbers -> AgentVersion]
  BY <1>1, <1>5 DEF AgentFits
<1> HIDE DEF rows, old, call
<1>9. RowsPoint(row, rows)
  BY <1>1, <1>4, <1>5, <1>6, <1>7 DEF AgentFits, RowsPoint
<1>10. RowsRetrievable(row, rows) /\ RowsDetach(row, rows)
  BY <1>1, <1>4, <1>5, <1>7 DEF AgentFits, RowsRetrievable, RowsDetach
<1>11. RowsExist(row, rows) /\ CallFits(row, rows, call) /\ Unpurged(row)
  BY <1>1, <1>4, <1>5, <1>7 DEF AgentFits, RowsExist, CallFits, Unpurged
<1>12. AgentFits(row, rows, call)
  BY <1>1, <1>4, <1>8, <1>9, <1>10, <1>11 DEF AgentFits
<1> QED BY <1>2, <1>12, AgentStepFits

LEMMA ScrubFits ==
  ASSUME AllFit, UNCHANGED packVars, NEW a \in Agents, NEW v \in AgentNumbers,
         ScrubAgentVersion(a, v)
  PROVE  AllFit'
<1> DEFINE old == agentVersions[a]
           call == agentCall[a]
           new == [old[v] EXCEPT !.res = NoResource]
           rows == [old EXCEPT ![v] = new]
           res == IF Remaining(a, v) = {} THEN NoResource ELSE agent[a].res
           row == [agent[a] EXCEPT !.res = res]
<1>1. /\ AgentFits(agent[a], old, call) /\ call.pc = "idle"
      /\ agent[a].status = "archived" /\ old[v].status \in {"invalidated", "failed"}
  BY FitsBefore DEF ScrubAgentVersion, UnlockedStep, Unlocked
<1>2. /\ agent' = [agent EXCEPT ![a] = row]
      /\ agentVersions' = [agentVersions EXCEPT ![a] = rows]
      /\ agentCall' = [agentCall EXCEPT ![a] = call]
  BY FitsBefore DEF ScrubAgentVersion
<1>3. res \in Resources \cup {NoResource}
  BY <1>1 DEF AgentFits, Agent
<1>4. /\ row \in Agent /\ row.status = "archived" /\ row.res = res
      /\ row.pack = agent[a].pack /\ row.current = agent[a].current
  BY <1>1, <1>3 DEF AgentFits, Agent
<1>5. /\ new \in AgentVersion /\ new.status = old[v].status
      /\ new.res = NoResource /\ new.inputs = old[v].inputs
  BY <1>1 DEF AgentFits, AgentVersion
<1> HIDE DEF new, row
<1>6. \A u \in AgentNumbers : rows[u] = IF u = v THEN new ELSE old[u]
  BY <1>1 DEF AgentFits
<1>7. rows \in [AgentNumbers -> AgentVersion]
  BY <1>1, <1>5 DEF AgentFits
<1>8. res = agent[a].res \/ (res = NoResource /\ \A u \in AgentNumbers : rows[u].res = NoResource)
  <2>1. CASE Remaining(a, v) = {}
    <3>1. \A u \in AgentNumbers : u # v => old[u].res = NoResource
      BY <2>1 DEF Remaining
    <3> QED BY <1>5, <1>6, <2>1, <3>1
  <2>2. CASE Remaining(a, v) # {}
    BY <2>2
  <2> QED BY <2>1, <2>2
<1>9. res = NoResource => \A u \in AgentNumbers : rows[u].res = NoResource
  BY <1>1, <1>5, <1>6, <1>8 DEF AgentFits, RowsExist
<1> HIDE DEF rows, old, call, res
<1>10. RowsPoint(row, rows) /\ RowsRetrievable(row, rows) /\ RowsDetach(row, rows)
  BY <1>1, <1>4, <1>5, <1>6, <1>9 DEF AgentFits, RowsPoint, RowsRetrievable, RowsDetach
<1>11. RowsExist(row, rows)
    <2>1. \A u \in AgentNumbers : (rows[u].status # "none" /\ u = v) \/ rows[u] = old[u]
    BY <1>1, <1>5, <1>6
  <2>2. \A u \in AgentNumbers : rows[u].res \in {NoResource, row.res}
    BY <1>1, <1>4, <1>5, <1>6, <1>8 DEF AgentFits, RowsExist
  <2>3. \A u \in AgentNumbers : rows[u].status \in {"draft", "published", "superseded"}
                                  => rows[u].res # NoResource
    BY <1>1, <1>5, <1>6 DEF AgentFits, RowsExist
  <2> QED BY <2>1, <2>2, <2>3, <1>1, <1>4 DEF AgentFits, RowsExist
<1>12. CallFits(row, rows, call) /\ Unpurged(row)
  BY <1>1, <1>4, <1>8, PackConstants DEF AgentFits, CallFits, Unpurged
<1>13. AgentFits(row, rows, call)
  BY <1>1, <1>4, <1>7, <1>10, <1>11, <1>12 DEF AgentFits
<1> QED BY <1>2, <1>13, AgentStepFits

LEMMA DeleteFits ==
  ASSUME AllFit, UNCHANGED packVars, NEW a \in Agents, DeleteAgent(a)
  PROVE  AllFit'
<1> DEFINE rows == [v \in AgentNumbers |-> NoAgentVersion]
           call == agentCall[a]
<1>1. AgentFits(agent[a], agentVersions[a], call) /\ call.pc = "idle"
  BY FitsBefore DEF DeleteAgent, UnlockedStep, Unlocked
<1>2. /\ agent' = [agent EXCEPT ![a] = NoAgent]
      /\ agentVersions' = [agentVersions EXCEPT ![a] = rows]
      /\ agentCall' = [agentCall EXCEPT ![a] = call]
  BY FitsBefore DEF DeleteAgent
<1>3. NoAgent \in Agent /\ NoAgentVersion \in AgentVersion
  BY AgentConstants, NoCallTyped DEF NoAgent, Agent, NoAgentVersion, AgentVersion
<1>4. rows \in [AgentNumbers -> AgentVersion] /\ \A v \in AgentNumbers : rows[v] = NoAgentVersion
  BY <1>3
<1> HIDE DEF rows, call
<1>5. RowsPoint(NoAgent, rows) /\ RowsRetrievable(NoAgent, rows) /\ RowsDetach(NoAgent, rows)
  BY <1>4 DEF RowsPoint, RowsRetrievable, RowsDetach, NoAgent, NoAgentVersion, AgentNumbers
<1>6. RowsExist(NoAgent, rows) /\ CallFits(NoAgent, rows, call) /\ Unpurged(NoAgent)
  BY <1>1, <1>4, PackConstants DEF RowsExist, CallFits, Unpurged, NoAgent, NoAgentVersion
<1>7. AgentFits(NoAgent, rows, call)
  BY <1>1, <1>3, <1>4, <1>5, <1>6 DEF AgentFits
<1> QED BY <1>2, <1>7, AgentStepFits

\* Any step of an agent.
LEMMA AgentStepsFit ==
  ASSUME AllFit, UNCHANGED packVars, NEW a \in Agents, AgentStep(a)
  PROVE  AllFit'
<1>1. ASSUME NEW r \in Resources, NEW k \in Packs, CreateAgent(a, r, k) PROVE AllFit'
  BY <1>1, CreateFits
<1>2. ASSUME NEW v \in AgentNumbers,
             \/ StartRollback(a, v) \/ StartPublish(a, v)
             \/ InvalidateAgentVersion(a, v) \/ ScrubAgentVersion(a, v)
      PROVE  AllFit'
  BY <1>2, StartRollbackFits, StartPublishFits, InvalidateFits, ScrubFits
<1> HIDE DEF AllFit
<1> QED BY <1>1, <1>2, StartRefreshFits, FinishCompileFits, FinishPublishFits, ArchiveFits,
           DeleteFits DEF AgentStep

-----------------------------------------------------------------------------
(* The steps of packs *)

Lasting == Retained \cup {"invalidated"}

\* Pack versions that have been published last, with what they contain, and exports
\* that have been approved; an artifact stays with its resource.
VersionsKept ==
    \A k \in Packs, v \in PackNumbers :
        packVersions[k][v].status \in Lasting =>
            /\ packVersions'[k][v].status \in Lasting
            /\ packVersions'[k][v].artifacts = packVersions[k][v].artifacts

ExportsKept ==
    \A k \in Packs, v \in PackNumbers, e \in ExportNumbers :
        exports[k][v][e].status \in {"approved", "invalidated"} =>
            exports'[k][v][e].status \in {"approved", "invalidated"}

ArtifactsKept ==
    \A x \in Artifacts :
        /\ artifact[x].res # NoResource => artifact'[x].res = artifact[x].res
        /\ artifact'[x].status = "none" => artifact'[x].res = NoResource

\* No resource is purged, and none that has been gets an artifact or coverage.
NoneGains ==
    /\ \A r \in Resources : resource'[r].status = "purged" =>
         /\ resource[r].status = "purged"
         /\ \A x \in Artifacts : artifact'[x].res = r =>
              /\ artifact[x].res = r
              /\ artifact[x].status = "purged" => artifact'[x].status = "purged"
    /\ \A k \in Packs, v \in PackNumbers : \A x \in packVersions'[k][v].artifacts :
         x \in packVersions[k][v].artifacts \/ artifact[x].status # "purged"

PacksKept == VersionsKept /\ ExportsKept /\ ArtifactsKept /\ NoneGains

\* A step of packs that keeps all that fits.
LEMMA KeptFits ==
  ASSUME AllFit, UNCHANGED agentVars, PackTypeOK', PacksKept
  PROVE  AllFit'
<1>1. PackTypeOK /\ ArtifactsAgree /\ PacksPurged
  BY DEF AllFit, PacksFit
<1>2. ArtifactsAgree'
  BY DEF PacksKept, ArtifactsKept, ArtifactsAgree
<1>3. PacksPurged'
  <2> SUFFICES ASSUME NEW r \in Resources, resource'[r].status = "purged"
               PROVE  /\ \A x \in ArtifactsOf(r)' : artifact'[x].status = "purged"
                      /\ \A k \in Packs, v \in PackNumbers : r \notin Covers(packVersions[k][v])'
    BY DEF PacksPurged
  <2>1. resource[r].status = "purged"
    BY DEF PacksKept, NoneGains
  <2>2. /\ \A x \in ArtifactsOf(r) : artifact[x].status = "purged"
        /\ \A k \in Packs, v \in PackNumbers : r \notin Covers(packVersions[k][v])
    BY <1>1, <2>1 DEF PacksPurged
  <2>3. \A x \in Artifacts : artifact'[x].res = r =>
          artifact[x].res = r /\ artifact[x].status = "purged" /\ artifact'[x].status = "purged"
    BY <2>2 DEF PacksKept, NoneGains, ArtifactsOf
  <2>4. ASSUME NEW k \in Packs, NEW v \in PackNumbers, NEW x \in packVersions'[k][v].artifacts
        PROVE  artifact'[x].res # r
    <3>1. x \in Artifacts
      BY DEF PackTypeOK, PackVersion
    <3>2. x \in packVersions[k][v].artifacts \/ artifact[x].status # "purged"
      BY DEF PacksKept, NoneGains
    <3>3. x \in packVersions[k][v].artifacts => artifact[x].res # r
      BY <2>2 DEF Covers
    <3> QED BY <2>3, <3>1, <3>2, <3>3
  <2> QED BY <2>3, <2>4 DEF ArtifactsOf, Covers
<1>4. EvidenceKept
  <2> SUFFICES ASSUME NEW r \in Resources, NEW k \in Packs, NEW inputs \in Inputs,
                      Retrievable(k, r, inputs)
               PROVE  Retrievable(k, r, inputs)'
    BY DEF EvidenceKept
  <2>1. /\ inputs.pack # 0 => inputs.pack \in PackNumbers
        /\ inputs.export # 0 => inputs.export \in ExportNumbers
    BY PackConstants DEF Inputs, PackNumbers, ExportNumbers
  <2>2. ASSUME inputs.pack # 0
        PROVE  /\ packVersions'[k][inputs.pack].status \in Lasting
               /\ r \in Covers(packVersions[k][inputs.pack])'
    <3> DEFINE v == inputs.pack
    <3>1. v \in PackNumbers /\ packVersions[k][v].status \in Lasting
      BY <2>1, <2>2 DEF Retrievable, Lasting
    <3>2. PICK x \in packVersions[k][v].artifacts : artifact[x].res = r
      BY <2>2 DEF Retrievable, Covers
    <3>3. x \in Artifacts
      BY <1>1, <3>1 DEF PackTypeOK, PackVersion
    <3>4. artifact'[x].res = r
      BY <3>2, <3>3, PackConstants DEF PacksKept, ArtifactsKept
    <3>5. /\ packVersions'[k][v].status \in Lasting /\ x \in packVersions'[k][v].artifacts
      BY <3>1, <3>2 DEF PacksKept, VersionsKept
    <3> QED BY <3>4, <3>5 DEF Covers
  <2>3. ASSUME inputs.export # 0
        PROVE  /\ inputs.pack # 0
               /\ exports'[k][inputs.pack][inputs.export].status \in {"approved", "invalidated"}
    BY <2>1, <2>3 DEF Retrievable, PacksKept, ExportsKept
  <2> QED BY <2>2, <2>3 DEF Retrievable, Lasting
<1>5. HeldKept
  BY DEF HeldKept, PacksKept, NoneGains
<1> HIDE DEF AllFit
<1> QED BY <1>2, <1>3, <1>4, <1>5, PackStepFits DEF PacksFit

\* Resources change their snapshot and are deleted and restored.
LEMMA ResourceFits ==
  ASSUME AllFit, UNCHANGED agentVars, NEW r \in Resources,
         IndexResource(r) \/ DeleteResource(r) \/ RestoreResource(r)
  PROVE  AllFit'
<1>1. PackTypeOK /\ ArtifactsAgree
  BY DEF AllFit, PacksFit
<1>2. /\ UNCHANGED <<artifact, packVersions, exports, drafting, reviewing, purging>>
      /\ resource' \in [Resources -> Resource]
      /\ \A s \in Resources : resource'[s].status = "purged" => resource[s].status = "purged"
  <2>1. CASE IndexResource(r)
    BY <1>1, <2>1, PackConstants DEF IndexResource, PackTypeOK, Resource
  <2>2. CASE DeleteResource(r)
    BY <1>1, <2>2 DEF DeleteResource, PackTypeOK, Resource
  <2>3. CASE RestoreResource(r)
    BY <1>1, <2>3 DEF RestoreResource, PackTypeOK, Resource
  <2> QED BY <2>1, <2>2, <2>3
<1>3. PackTypeOK'
  BY <1>1, <1>2 DEF PackTypeOK
<1>4. PacksKept
  BY <1>1, <1>2 DEF PacksKept, VersionsKept, ExportsKept, ArtifactsKept, NoneGains, ArtifactsAgree
<1> HIDE DEF AllFit
<1> QED BY <1>3, <1>4, KeptFits

\* Steps that change the calls in progress only.
LEMMA CallStepFits ==
  ASSUME AllFit, UNCHANGED agentVars,
         UNCHANGED <<resource, artifact, packVersions, exports>>,
         drafting' \in [Drafters -> [pack : Packs \cup {NoPack}, artifacts : SUBSET Artifacts]],
         reviewing' \in [Reviewers -> Artifacts \cup {NoArtifact}],
         purging' \in [Purgers -> Resources \cup {NoResource}]
  PROVE  AllFit'
<1>1. PackTypeOK /\ ArtifactsAgree
  BY DEF AllFit, PacksFit
<1>2. PackTypeOK'
  BY <1>1 DEF PackTypeOK
<1>3. PacksKept
  BY <1>1 DEF PacksKept, VersionsKept, ExportsKept, ArtifactsKept, NoneGains, ArtifactsAgree
<1> HIDE DEF AllFit
<1> QED BY <1>2, <1>3, KeptFits

LEMMA CallStepsFit ==
  ASSUME AllFit, UNCHANGED agentVars,
         \/ \E q \in Reviewers, x \in Artifacts : ReadForReview(q, x)
         \/ \E q \in Drafters, k \in Packs, xs \in SUBSET Artifacts : CheckArtifacts(q, k, xs)
         \/ \E q \in Purgers, r \in Resources : CheckPurge(q, r)
         \/ \E q \in Purgers : PurgeFails(q)
  PROVE  AllFit'
<1>1. PackTypeOK
  BY DEF AllFit, PacksFit
<1> HIDE DEF AllFit
<1>2. ASSUME NEW q \in Reviewers, NEW x \in Artifacts, ReadForReview(q, x) PROVE AllFit'
  BY <1>1, <1>2, CallStepFits DEF ReadForReview, PackTypeOK
<1>3. ASSUME NEW q \in Drafters, NEW k \in Packs, NEW xs \in SUBSET Artifacts,
             CheckArtifacts(q, k, xs)
      PROVE  AllFit'
  BY <1>1, <1>3, CallStepFits DEF CheckArtifacts, PackTypeOK
<1>4. ASSUME NEW q \in Purgers, NEW r \in Resources, CheckPurge(q, r) PROVE AllFit'
  BY <1>1, <1>4, CallStepFits DEF CheckPurge, PackTypeOK
<1>5. ASSUME NEW q \in Purgers, PurgeFails(q) PROVE AllFit'
  BY <1>1, <1>5, CallStepFits DEF PurgeFails, PackTypeOK
<1> QED BY <1>2, <1>3, <1>4, <1>5

LEMMA CompileArtifactFits ==
  ASSUME AllFit, UNCHANGED agentVars, NEW x \in Artifacts, NEW r \in Resources,
         CompileArtifact(x, r)
  PROVE  AllFit'
<1>1. PackTypeOK /\ ArtifactsAgree
  BY DEF AllFit, PacksFit
<1>2. PICK status \in {"draft", "failed"} :
        artifact' = [artifact EXCEPT ![x] = [status |-> status, res |-> r,
                                             snap |-> resource[r].snap]]
  BY DEF CompileArtifact
<1> DEFINE new == [status |-> status, res |-> r, snap |-> resource[r].snap]
<1>3. new \in Artifact /\ new.res = r /\ new.status # "none"
  BY <1>1 DEF PackTypeOK, Resource, Artifact
<1>4. \A y \in Artifacts : artifact'[y] = IF y = x THEN new ELSE artifact[y]
  BY <1>1, <1>2 DEF PackTypeOK
<1>5. /\ UNCHANGED <<resource, packVersions, exports, drafting, reviewing, purging>>
      /\ resource[r].status = "live" /\ artifact[x].res = NoResource
  BY <1>1 DEF CompileArtifact, ArtifactsAgree
<1>6. artifact' \in [Artifacts -> Artifact]
  BY <1>1, <1>2, <1>3 DEF PackTypeOK
<1> HIDE DEF new
<1>7. PackTypeOK'
  BY <1>1, <1>5, <1>6 DEF PackTypeOK
<1>8. PacksKept
  BY <1>1, <1>3, <1>4, <1>5
  DEF PacksKept, VersionsKept, ExportsKept, ArtifactsKept, NoneGains, ArtifactsAgree
<1> HIDE DEF AllFit
<1> QED BY <1>7, <1>8, KeptFits

LEMMA WriteReviewFits ==
  ASSUME AllFit, UNCHANGED agentVars, NEW q \in Reviewers,
         NEW decision \in {"approved", "rejected"}, WriteReview(q, decision)
  PROVE  AllFit'
<1> DEFINE x == reviewing[q]
<1>1. PackTypeOK /\ ArtifactsAgree
  BY DEF AllFit, PacksFit
<1>2. x \in Artifacts
  BY <1>1 DEF WriteReview, PackTypeOK
<1>3. /\ UNCHANGED <<resource, packVersions, exports, drafting, purging>>
      /\ reviewing' \in [Reviewers -> Artifacts \cup {NoArtifact}]
  BY <1>1 DEF WriteReview, PackTypeOK
<1>4. CASE artifact[x].status = "purged"
  BY <1>1, <1>3, <1>4, CallStepFits DEF WriteReview, PackTypeOK
<1>5. CASE artifact[x].status # "purged"
  <2>1. artifact' = [artifact EXCEPT ![x].status = decision]
    BY <1>5 DEF WriteReview
  <2>2. /\ artifact' \in [Artifacts -> Artifact]
        /\ \A y \in Artifacts :
             /\ artifact'[y].res = artifact[y].res
             /\ artifact'[y].status = "none" => artifact[y].status = "none"
             /\ artifact[y].status = "purged" => artifact'[y].status = "purged"
    BY <1>1, <1>2, <1>5, <2>1 DEF PackTypeOK, Artifact
  <2>3. PackTypeOK'
    BY <1>1, <1>3, <2>2 DEF PackTypeOK
  <2>4. PacksKept
    BY <1>1, <1>3, <2>2
    DEF PacksKept, VersionsKept, ExportsKept, ArtifactsKept, NoneGains, ArtifactsAgree
  <2> HIDE DEF AllFit
  <2> QED BY <2>3, <2>4, KeptFits
<1> QED BY <1>4, <1>5

\* Pack versions change, and an insert ends the draft's call.
LEMMA VersionStepFits ==
  ASSUME AllFit, UNCHANGED agentVars,
         UNCHANGED <<resource, artifact, exports, reviewing, purging>>,
         packVersions' \in [Packs -> [PackNumbers -> PackVersion]],
         drafting' \in [Drafters -> [pack : Packs \cup {NoPack}, artifacts : SUBSET Artifacts]],
         VersionsKept,
         \A k \in Packs, v \in PackNumbers : \A x \in packVersions'[k][v].artifacts :
            x \in packVersions[k][v].artifacts \/ artifact[x].status # "purged"
  PROVE  AllFit'
<1>1. PackTypeOK /\ ArtifactsAgree
  BY DEF AllFit, PacksFit
<1>2. PackTypeOK'
  BY <1>1 DEF PackTypeOK
<1>3. PacksKept
  BY <1>1 DEF PacksKept, ExportsKept, ArtifactsKept, NoneGains, ArtifactsAgree
<1> HIDE DEF AllFit
<1> QED BY <1>2, <1>3, KeptFits

LEMMA InsertFits ==
  ASSUME AllFit, UNCHANGED agentVars, NEW q \in Drafters, InsertPackVersion(q)
  PROVE  AllFit'
<1> DEFINE k == drafting[q].pack
           xs == drafting[q].artifacts
<1>1. PackTypeOK
  BY DEF AllFit, PacksFit
<1>2. /\ UNCHANGED <<resource, artifact, exports, reviewing, purging>>
      /\ drafting' = [drafting EXCEPT ![q] = NoDraft]
      /\ k \in Packs /\ xs \in SUBSET Artifacts
  BY <1>1 DEF InsertPackVersion, PackTypeOK
<1>3. drafting' \in [Drafters -> [pack : Packs \cup {NoPack}, artifacts : SUBSET Artifacts]]
  BY <1>1, <1>2 DEF PackTypeOK, NoDraft
<1>4. CASE UNCHANGED packVersions
  <2>1. packVersions' \in [Packs -> [PackNumbers -> PackVersion]] /\ VersionsKept
    BY <1>1, <1>4 DEF PackTypeOK, VersionsKept
  <2> HIDE DEF AllFit
  <2> QED BY <1>2, <1>3, <1>4, <2>1, VersionStepFits
<1>5. CASE ~UNCHANGED packVersions
  <2> DEFINE new == [status |-> IF Duplicates(xs) THEN "failed" ELSE "draft", artifacts |-> xs]
  <2>1. /\ \A x \in xs : artifact[x].status # "purged"
        /\ \E v \in Next1(packVersions[k], PackNumbers) :
             packVersions' = [packVersions EXCEPT ![k][v] = new]
    BY <1>5 DEF InsertPackVersion
  <2>2. PICK v \in Next1(packVersions[k], PackNumbers) :
          packVersions' = [packVersions EXCEPT ![k][v] = new]
    BY <2>1
  <2>3. v \in PackNumbers /\ packVersions[k][v].status = "none"
    BY DEF Next1
  <2>4. new \in PackVersion /\ new.artifacts = xs
    BY <1>2 DEF PackVersion
  <2> HIDE DEF new, xs, k
  <2>5. packVersions' \in [Packs -> [PackNumbers -> PackVersion]]
    BY <1>1, <1>2, <2>2, <2>3, <2>4 DEF PackTypeOK
  <2>6. \A l \in Packs, u \in PackNumbers :
          packVersions'[l][u] = IF l = k /\ u = v THEN new ELSE packVersions[l][u]
    BY <1>1, <1>2, <2>2, <2>3 DEF PackTypeOK
  <2>7. VersionsKept
    BY <2>3, <2>6 DEF VersionsKept, Lasting, Retained
  <2>8. \A l \in Packs, u \in PackNumbers : \A x \in packVersions'[l][u].artifacts :
          x \in packVersions[l][u].artifacts \/ artifact[x].status # "purged"
    BY <2>1, <2>4, <2>6
  <2> HIDE DEF AllFit
  <2> QED BY <1>2, <1>3, <2>5, <2>7, <2>8, VersionStepFits
<1> QED BY <1>4, <1>5

\* A version changes its status, with others of its pack, and stays published at
\* some time if it has been.
LEMMA StatusStepFits ==
  ASSUME AllFit, UNCHANGED agentVars, NEW k \in Packs, NEW v \in PackNumbers,
         PublishPack(k, v) \/ RollBackPack(k, v) \/ InvalidatePack(k, v)
  PROVE  AllFit'
<1>1. PackTypeOK
  BY DEF AllFit, PacksFit
<1>2. UNCHANGED <<resource, artifact, exports, drafting, reviewing, purging>>
  BY DEF PublishPack, RollBackPack, InvalidatePack
<1>3. /\ packVersions' \in [Packs -> [PackNumbers -> PackVersion]]
      /\ \A l \in Packs, u \in PackNumbers :
           /\ packVersions'[l][u].artifacts = packVersions[l][u].artifacts
           /\ packVersions'[l][u].status \in {packVersions[l][u].status} \cup Lasting
  <2>1. \A l \in Packs, u \in PackNumbers : packVersions[l][u] \in PackVersion
    BY <1>1 DEF PackTypeOK
  <2>2. ASSUME NEW rows \in [PackNumbers -> PackVersion],
               packVersions' = [packVersions EXCEPT ![k] = rows],
               \A u \in PackNumbers :
                  /\ rows[u].artifacts = packVersions[k][u].artifacts
                  /\ rows[u].status \in {packVersions[k][u].status} \cup Lasting
        PROVE  <1>3
    BY <1>1, <2>2 DEF PackTypeOK
  <2>3. CASE PublishPack(k, v)
    <3> DEFINE rows == [u \in PackNumbers |->
                 IF u = v THEN [packVersions[k][u] EXCEPT !.status = "published"]
                 ELSE IF packVersions[k][u].status = "published"
                      THEN [packVersions[k][u] EXCEPT !.status = "superseded"]
                 ELSE packVersions[k][u]]
    <3>1. packVersions' = [packVersions EXCEPT ![k] = rows]
      BY <1>1, <2>3 DEF PublishPack, PackTypeOK
    <3>2. \A u \in PackNumbers :
            /\ rows[u] \in PackVersion
            /\ rows[u].artifacts = packVersions[k][u].artifacts
            /\ rows[u].status \in {packVersions[k][u].status} \cup Lasting
      BY <2>1 DEF PackVersion, Lasting, Retained
    <3>3. rows \in [PackNumbers -> PackVersion]
      BY <3>2
    <3> HIDE DEF rows
    <3> QED BY <2>2, <3>1, <3>2, <3>3
  <2>4. CASE RollBackPack(k, v)
    <3> DEFINE rows == [u \in PackNumbers |->
                 IF u = v THEN [packVersions[k][u] EXCEPT !.status = "published"]
                 ELSE IF packVersions[k][u].status = "published"
                      THEN [packVersions[k][u] EXCEPT !.status = "rolled_back"]
                 ELSE packVersions[k][u]]
    <3>1. packVersions' = [packVersions EXCEPT ![k] = rows]
      BY <1>1, <2>4 DEF RollBackPack, PackTypeOK
    <3>2. \A u \in PackNumbers :
            /\ rows[u] \in PackVersion
            /\ rows[u].artifacts = packVersions[k][u].artifacts
            /\ rows[u].status \in {packVersions[k][u].status} \cup Lasting
      BY <2>1 DEF PackVersion, Lasting, Retained
    <3>3. rows \in [PackNumbers -> PackVersion]
      BY <3>2
    <3> HIDE DEF rows
    <3> QED BY <2>2, <3>1, <3>2, <3>3
  <2>5. CASE InvalidatePack(k, v)
    <3> DEFINE rows == [packVersions[k] EXCEPT ![v] = [@ EXCEPT !.status = "invalidated"]]
    <3>1. packVersions' = [packVersions EXCEPT ![k] = rows]
      BY <1>1, <2>5 DEF InvalidatePack, SetPack, PackTypeOK
    <3> DEFINE row == [packVersions[k][v] EXCEPT !.status = "invalidated"]
    <3>2. packVersions[k] \in [PackNumbers -> PackVersion]
      BY <1>1 DEF PackTypeOK
    <3>3. /\ row \in PackVersion
          /\ row.artifacts = packVersions[k][v].artifacts
          /\ row.status \in Lasting
      BY <2>1 DEF PackVersion, Lasting, Retained
    <3>4. rows = [packVersions[k] EXCEPT ![v] = row]
      OBVIOUS
    <3> HIDE DEF row, rows
    <3>5. rows \in [PackNumbers -> PackVersion]
      BY <3>2, <3>3, <3>4
    <3>6. \A u \in PackNumbers : rows[u] = IF u = v THEN row ELSE packVersions[k][u]
      BY <3>2, <3>4
    <3>7. \A u \in PackNumbers :
            /\ rows[u] \in PackVersion
            /\ rows[u].artifacts = packVersions[k][u].artifacts
            /\ rows[u].status \in {packVersions[k][u].status} \cup Lasting
      BY <2>1, <3>3, <3>6
    <3> QED BY <2>2, <3>1, <3>5, <3>7
  <2> QED BY <2>3, <2>4, <2>5
<1>4. VersionsKept
  BY <1>3 DEF VersionsKept
<1>5. drafting' \in [Drafters -> [pack : Packs \cup {NoPack}, artifacts : SUBSET Artifacts]]
  BY <1>1, <1>2 DEF PackTypeOK
<1> HIDE DEF AllFit
<1> QED BY <1>2, <1>3, <1>4, <1>5, VersionStepFits

LEMMA ExportFits ==
  ASSUME AllFit, UNCHANGED agentVars, NEW k \in Packs, NEW v \in PackNumbers,
         \/ GenerateExport(k, v)
         \/ \E e \in ExportNumbers : ReviewExport(k, v, e) \/ InvalidateExport(k, v, e)
  PROVE  AllFit'
<1>1. PackTypeOK /\ ArtifactsAgree
  BY DEF AllFit, PacksFit
<1>2. UNCHANGED <<resource, artifact, packVersions, drafting, reviewing, purging>>
  BY DEF GenerateExport, ReviewExport, InvalidateExport
<1>3. \E e \in ExportNumbers, row \in Export :
        /\ exports' = [exports EXCEPT ![k][v][e] = row]
        /\ exports[k][v][e].status \in {"approved", "invalidated"}
             => row.status \in {"approved", "invalidated"}
  <2>1. CASE GenerateExport(k, v)
    <3>1. PICK e \in Next1(exports[k][v], ExportNumbers), row \in
                 {[status |-> "draft", files |-> TRUE], [status |-> "failed", files |-> FALSE]} :
            exports' = [exports EXCEPT ![k][v][e] = row]
      BY <2>1 DEF GenerateExport
    <3>2. e \in ExportNumbers /\ exports[k][v][e].status = "none"
      BY <3>1 DEF Next1
    <3>3. /\ [status |-> "draft", files |-> TRUE] \in Export
          /\ [status |-> "failed", files |-> FALSE] \in Export
      BY DEF Export
    <3>4. row \in Export
      BY <3>1, <3>3, Zenon
    <3> QED BY <3>1, <3>2, <3>4
  <2>2. ASSUME NEW e \in ExportNumbers, ReviewExport(k, v, e) PROVE <1>3
    <3>1. PICK decision \in {"approved", "rejected"} :
            /\ exports[k][v][e].status \in {"draft", "failed"}
            /\ exports' = [exports EXCEPT ![k][v][e].status = decision]
      BY <2>2 DEF ReviewExport
    <3> DEFINE row == [exports[k][v][e] EXCEPT !.status = decision]
    <3>2. exports' = [exports EXCEPT ![k][v][e] = row]
      BY <1>1, <3>1 DEF PackTypeOK
    <3>3. exports[k][v][e] \in Export
      BY <1>1 DEF PackTypeOK
    <3>4. row \in Export /\ row.status = decision
      BY <3>3 DEF Export
    <3> HIDE DEF row
    <3> QED BY <3>1, <3>2, <3>4
  <2>3. ASSUME NEW e \in ExportNumbers, InvalidateExport(k, v, e) PROVE <1>3
    <3> DEFINE row == [status |-> "invalidated", files |-> FALSE]
    <3>1. row \in Export /\ row.status = "invalidated"
      BY DEF Export
    <3>2. exports' = [exports EXCEPT ![k][v][e] = row]
      BY <2>3 DEF InvalidateExport
    <3> HIDE DEF row
    <3> QED BY <3>1, <3>2
  <2> QED BY <2>1, <2>2, <2>3
<1>4. PICK e \in ExportNumbers, row \in Export :
        /\ exports' = [exports EXCEPT ![k][v][e] = row]
        /\ exports[k][v][e].status \in {"approved", "invalidated"}
             => row.status \in {"approved", "invalidated"}
  BY <1>3
<1>5. exports' \in [Packs -> [PackNumbers -> [ExportNumbers -> Export]]]
  BY <1>1, <1>4 DEF PackTypeOK
<1>6. ExportsKept
  <2>1. \A l \in Packs, u \in PackNumbers, f \in ExportNumbers :
          exports'[l][u][f] = IF l = k /\ u = v /\ f = e THEN row ELSE exports[l][u][f]
    BY <1>1, <1>4 DEF PackTypeOK
  <2> QED BY <1>4, <2>1 DEF ExportsKept
<1>7. PackTypeOK'
  BY <1>1, <1>2, <1>5 DEF PackTypeOK
<1>8. PacksKept
  BY <1>1, <1>2, <1>6 DEF PacksKept, VersionsKept, ArtifactsKept, NoneGains, ArtifactsAgree
<1> HIDE DEF AllFit
<1> QED BY <1>7, <1>8, KeptFits

-----------------------------------------------------------------------------
(* Purge *)

\* The rows of a resource no agent holds are deleted.
LEMMA PurgeRowsFits ==
  ASSUME AllFit, UNCHANGED agentVars, NEW q \in Purgers, PurgeRows(q), ~HeldByAgent(purging[q])
  PROVE  AllFit'
<1> DEFINE r == purging[q]
<1>1. PackTypeOK /\ ArtifactsAgree /\ PacksPurged
  BY DEF AllFit, PacksFit
<1>2. r \in Resources
  BY <1>1 DEF PurgeRows, PackTypeOK
<1>3. /\ resource' = [resource EXCEPT ![r] = [status |-> "purged", snap |-> 0]]
      /\ UNCHANGED <<exports, drafting, reviewing>>
      /\ purging' = [purging EXCEPT ![q] = NoResource]
  BY DEF PurgeRows
<1>4. \A x \in Artifacts :
        /\ artifact'[x] \in Artifact /\ artifact'[x].res = artifact[x].res
        /\ artifact'[x].status = IF artifact[x].res = r THEN "purged" ELSE artifact[x].status
  <2> SUFFICES ASSUME NEW x \in Artifacts
               PROVE  /\ artifact'[x] \in Artifact /\ artifact'[x].res = artifact[x].res
                      /\ artifact'[x].status
                           = IF artifact[x].res = r THEN "purged" ELSE artifact[x].status
    OBVIOUS
  <2> DEFINE old == artifact[x]
  <2>1. artifact'[x] = IF old.res = r THEN [old EXCEPT !.status = "purged"] ELSE old
    BY DEF PurgeRows, ArtifactsOf
  <2>2. old \in Artifact
    BY <1>1 DEF PackTypeOK
  <2> HIDE DEF old
  <2>3. /\ artifact'[x] \in Artifact /\ artifact'[x].res = old.res
        /\ artifact'[x].status = IF old.res = r THEN "purged" ELSE old.status
    BY <2>1, <2>2 DEF Artifact
  <2> QED BY <2>3 DEF old
<1>5. \A k \in Packs, v \in PackNumbers :
        /\ packVersions'[k][v] \in PackVersion
        /\ packVersions'[k][v].status = packVersions[k][v].status
        /\ packVersions'[k][v].artifacts
             = {x \in packVersions[k][v].artifacts : artifact[x].res # r}
  <2> SUFFICES ASSUME NEW k \in Packs, NEW v \in PackNumbers
               PROVE  /\ packVersions'[k][v] \in PackVersion
                      /\ packVersions'[k][v].status = packVersions[k][v].status
                      /\ packVersions'[k][v].artifacts
                           = {x \in packVersions[k][v].artifacts : artifact[x].res # r}
    OBVIOUS
  <2> DEFINE old == packVersions[k][v]
             kept == old.artifacts \ ArtifactsOf(r)
  <2>1. packVersions'[k][v] = [old EXCEPT !.artifacts = kept]
    BY DEF PurgeRows
  <2>2. old \in PackVersion /\ old.artifacts \in SUBSET Artifacts
    BY <1>1 DEF PackTypeOK, PackVersion
  <2>3. kept = {x \in old.artifacts : artifact[x].res # r} /\ kept \in SUBSET Artifacts
    BY <2>2 DEF ArtifactsOf
  <2> HIDE DEF kept, old
  <2>4. /\ packVersions'[k][v] \in PackVersion
        /\ packVersions'[k][v].status = old.status /\ packVersions'[k][v].artifacts = kept
    BY <2>1, <2>2, <2>3 DEF PackVersion
  <2> QED BY <2>3, <2>4 DEF old
<1>6. /\ DOMAIN artifact' = Artifacts /\ artifact' = [x \in Artifacts |-> artifact'[x]]
      /\ packVersions' = [k \in Packs |-> [v \in PackNumbers |-> packVersions'[k][v]]]
  BY DEF PurgeRows
<1>7. PackTypeOK'
  <2>1. artifact' \in [Artifacts -> Artifact]
    BY <1>4, <1>6
  <2>2. packVersions' \in [Packs -> [PackNumbers -> PackVersion]]
    BY <1>5, <1>6
  <2>3. resource' \in [Resources -> Resource]
    BY <1>1, <1>2, <1>3, PackConstants DEF PackTypeOK, Resource
  <2> QED BY <1>1, <1>3, <2>1, <2>2, <2>3 DEF PackTypeOK
<1>8. ArtifactsAgree'
  BY <1>1, <1>2, <1>4 DEF ArtifactsAgree
<1> HIDE DEF r
<1>9. \A s \in Resources : s # r => resource'[s] = resource[s]
  BY <1>1, <1>2, <1>3 DEF PackTypeOK
<1>10. PacksPurged'
  <2> SUFFICES ASSUME NEW s \in Resources, resource'[s].status = "purged"
               PROVE  /\ \A x \in ArtifactsOf(s)' : artifact'[x].status = "purged"
                      /\ \A k \in Packs, v \in PackNumbers : s \notin Covers(packVersions[k][v])'
    BY DEF PacksPurged
  <2>1. ASSUME NEW k \in Packs, NEW v \in PackNumbers, NEW x \in packVersions'[k][v].artifacts
        PROVE  artifact'[x].res # s
    <3>1. x \in packVersions[k][v].artifacts /\ artifact[x].res # r
      BY <1>5
    <3>2. x \in Artifacts
      BY <1>1, <3>1 DEF PackTypeOK, PackVersion
    <3>3. s # r => artifact[x].res # s
      BY <1>1, <1>9, <3>1 DEF PacksPurged, Covers
    <3> QED BY <1>4, <3>1, <3>2, <3>3
  <2>2. ASSUME NEW x \in Artifacts, artifact'[x].res = s PROVE artifact'[x].status = "purged"
    BY <1>1, <1>4, <1>9, <2>2 DEF PacksPurged, ArtifactsOf
  <2> QED BY <2>1, <2>2 DEF ArtifactsOf, Covers
<1>11. EvidenceKept
  <2> SUFFICES ASSUME NEW s \in Resources, NEW k \in Packs, NEW inputs \in Inputs,
                      HeldByAgent(s), Retrievable(k, s, inputs)
               PROVE  Retrievable(k, s, inputs)'
    BY DEF EvidenceKept
  <2>1. s # r
    BY DEF r
  <2>2. ASSUME inputs.pack # 0
        PROVE  /\ packVersions'[k][inputs.pack].status \in Lasting
               /\ s \in Covers(packVersions[k][inputs.pack])'
    <3> DEFINE v == inputs.pack
    <3>1. v \in PackNumbers /\ packVersions[k][v].status \in Lasting
      BY <2>2, PackConstants DEF Inputs, PackNumbers, Retrievable, Lasting
    <3>2. PICK x \in packVersions[k][v].artifacts : artifact[x].res = s
      BY <2>2 DEF Retrievable, Covers
    <3>3. x \in Artifacts
      BY <1>1, <3>1 DEF PackTypeOK, PackVersion
    <3>4. artifact'[x].res = s /\ x \in packVersions'[k][v].artifacts
      BY <1>4, <1>5, <2>1, <3>1, <3>2, <3>3
    <3> QED BY <1>5, <3>1, <3>4 DEF Covers
  <2>3. inputs.export # 0 =>
          /\ inputs.pack # 0
          /\ exports'[k][inputs.pack][inputs.export].status \in {"approved", "invalidated"}
    BY <1>3 DEF Retrievable
  <2> QED BY <2>2, <2>3 DEF Retrievable, Lasting
<1>12. HeldKept
  <2>1. ~HeldByAgent(r)
    BY DEF r
  <2> QED BY <1>9, <2>1 DEF HeldKept
<1> HIDE DEF AllFit
<1> QED BY <1>7, <1>8, <1>10, <1>11, <1>12, PackStepFits DEF PacksFit

\* Any step of packs, or a purge.
LEMMA PackStepsFit ==
  ASSUME AllFit, UNCHANGED agentVars, PackStep \/ \E q \in Purgers : PurgeStep(q)
  PROVE  AllFit'
<1> HIDE DEF AllFit
<1>1. ASSUME NEW r \in Resources, IndexResource(r) \/ DeleteResource(r) \/ RestoreResource(r)
      PROVE  AllFit'
  BY <1>1, ResourceFits
<1>2. ASSUME NEW x \in Artifacts, NEW r \in Resources, CompileArtifact(x, r) PROVE AllFit'
  BY <1>2, CompileArtifactFits
<1>3. ASSUME NEW q \in Reviewers, NEW decision \in {"approved", "rejected"},
             WriteReview(q, decision)
      PROVE  AllFit'
  BY <1>3, WriteReviewFits
<1>4. ASSUME NEW q \in Drafters, InsertPackVersion(q) PROVE AllFit'
  BY <1>4, InsertFits
<1>5. ASSUME NEW k \in Packs, NEW v \in PackNumbers,
             PublishPack(k, v) \/ RollBackPack(k, v) \/ InvalidatePack(k, v)
      PROVE  AllFit'
  BY <1>5, StatusStepFits
<1>6. ASSUME NEW k \in Packs, NEW v \in PackNumbers,
             \/ GenerateExport(k, v)
             \/ \E e \in ExportNumbers : ReviewExport(k, v, e) \/ InvalidateExport(k, v, e)
      PROVE  AllFit'
  BY <1>6, ExportFits
<1>7. CASE PackStep
  <2>1. CASE \/ \E q \in Reviewers, x \in Artifacts : ReadForReview(q, x)
             \/ \E q \in Drafters, k \in Packs, xs \in SUBSET Artifacts :
                  CheckArtifacts(q, k, xs)
    BY <2>1, CallStepsFit
  <2> QED BY <1>1, <1>2, <1>3, <1>4, <1>5, <1>6, <1>7, <2>1 DEF PackStep
<1>8. ASSUME NEW q \in Purgers, PurgeStep(q) PROVE AllFit'
  <2>1. ASSUME NEW r \in Resources, CheckPurgeWithAgents(q, r) PROVE AllFit'
    BY <2>1, CallStepsFit DEF CheckPurgeWithAgents
  <2>2. CASE PurgeUnlessHeld(q)
    BY <2>2, CallStepsFit, PurgeRowsFits DEF PurgeUnlessHeld
  <2> QED BY <1>8, <2>1, <2>2 DEF PurgeStep
<1> QED BY <1>7, <1>8

-----------------------------------------------------------------------------
(* Theorems *)

LEMMA InitFits == AgentInit => AllFit
<1> SUFFICES ASSUME AgentInit PROVE AllFit
  OBVIOUS
<1>1. PackTypeOK
  BY PackConstants
  DEF AgentInit, PackInit, PackTypeOK, Resource, Artifact, PackVersion, Export, NoVersion,
      NoExport, NoDraft
<1>2. ArtifactsAgree /\ PacksPurged
  BY DEF AgentInit, PackInit, ArtifactsAgree, PacksPurged
<1>3. NoAgent \in Agent /\ NoAgentVersion \in AgentVersion /\ NoCall \in AgentCall
  BY AgentConstants, NoCallTyped DEF NoAgent, Agent, NoAgentVersion, AgentVersion
<1>4. AgentFunctions
  BY <1>3 DEF AgentInit, AgentFunctions
<1>5. ASSUME NEW a \in Agents PROVE AgentFits(agent[a], agentVersions[a], agentCall[a])
  <2> DEFINE rows == agentVersions[a]
  <2>1. agent[a] = NoAgent /\ agentCall[a] = NoCall
        /\ rows \in [AgentNumbers -> AgentVersion]
        /\ \A v \in AgentNumbers : rows[v] = NoAgentVersion
    BY <1>3 DEF AgentInit
  <2> HIDE DEF rows
  <2>2. RowsPoint(NoAgent, rows) /\ RowsRetrievable(NoAgent, rows) /\ RowsDetach(NoAgent, rows)
    BY <2>1 DEF RowsPoint, RowsRetrievable, RowsDetach, NoAgent, NoAgentVersion, AgentNumbers
  <2>3. RowsExist(NoAgent, rows) /\ CallFits(NoAgent, rows, NoCall) /\ Unpurged(NoAgent)
    BY <2>1, PackConstants
    DEF RowsExist, CallFits, Unpurged, NoAgent, NoAgentVersion, NoCall
  <2>4. AgentFits(NoAgent, rows, NoCall)
    BY <1>3, <2>1, <2>2, <2>3 DEF AgentFits
  <2> QED BY <2>1, <2>4 DEF rows
<1> QED BY <1>1, <1>2, <1>4, <1>5 DEF AllFit, PacksFit

LEMMA StepFits == AllFit /\ [Next]_<<packVars, agentVars>> => AllFit'
<1> SUFFICES ASSUME AllFit, [Next]_<<packVars, agentVars>> PROVE AllFit'
  OBVIOUS
<1>1. CASE UNCHANGED <<packVars, agentVars>>
  <2>1. UNCHANGED agentVars /\ UNCHANGED <<resource, artifact, packVersions, exports>>
        /\ UNCHANGED <<drafting, reviewing, purging>> /\ PackTypeOK
    BY <1>1 DEF packVars, AllFit, PacksFit
  <2> HIDE DEF AllFit
  <2> QED BY <2>1, CallStepFits DEF PackTypeOK
<1> HIDE DEF AllFit
<1>2. CASE (PackStep \/ \E q \in Purgers : PurgeStep(q)) /\ UNCHANGED agentVars
  BY <1>2, PackStepsFit
<1>3. CASE (\E a \in Agents : AgentStep(a)) /\ UNCHANGED packVars
  BY <1>3, AgentStepsFit
<1> QED BY <1>1, <1>2, <1>3 DEF Next

\* The inductive invariant holds in every reachable state.
THEOREM AgentsAlwaysAgree == Spec => []AgentsAgree
<1>1. AgentInit => AllFit
  BY InitFits
<1>2. AllFit /\ [Next]_<<packVars, agentVars>> => AllFit'
  BY StepFits
<1>3. AgentsAgree <=> AllFit
  BY Rearranged
<1> QED BY <1>1, <1>2, <1>3, PTL DEF Spec

\* An agent points to its published version and has no other one, whatever becomes
\* of the packs and exports below.
THEOREM AgentPointerHolds == Spec => []AgentPointer
<1>1. AgentsAgree => AgentPointer
  BY DEF AgentsAgree
<1> QED BY <1>1, AgentsAlwaysAgree, PTL

\* What a version that is not scrubbed pins can be looked up.
THEOREM AgentEvidenceHolds == Spec => []AgentEvidence
<1>1. AgentsAgree => AgentEvidence
  BY DEF AgentsAgree
<1> QED BY <1>1, AgentsAlwaysAgree, PTL

\* An agent lets go of its resource only archived and scrubbed.
THEOREM DetachedAlwaysScrubbed == Spec => []DetachedIsScrubbed
<1>1. AgentsAgree => DetachedIsScrubbed
  BY DEF AgentsAgree
<1> QED BY <1>1, AgentsAlwaysAgree, PTL

\* A hard purge leaves nothing of the resource in artifacts, packs and agents.
THEOREM PurgeAlwaysComplete == Spec => []PurgeIsComplete
<1>1. AgentsAgree => PurgeIsComplete
  BY DEF AgentsAgree
<1> QED BY <1>1, AgentsAlwaysAgree, PTL
=============================================================================
