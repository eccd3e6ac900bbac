----------------------------- MODULE MCPipeline -----------------------------
(***************************************************************************)
(* TLC instances of the way of a source into an index and out of it: the   *)
(* staging of uploads, the unpacking of bundles, ingestion and retrieval,  *)
(* up to the evidence and the scoring of the agents that use it.  They     *)
(* share no state, so one run checks them side by side: part says which of *)
(* them moves.                                                             *)
(***************************************************************************)
EXTENDS UploadStaging, Bundles, Ingestion, Retrieval, GateScoring,
        GateEvidence, TLC

CONSTANTS k1, k2

VARIABLE part

pipelineVars == <<part, stagingVars, bundle, job, retrievalVars, scored, evidenceVars>>

MCLimits == [branch : {1, 2}, files : {1, 2}, chunks : {1, 2}, symbols : {1, 2}]

Chunk(r, s, p, fm, q, h, o) ==
    [resource |-> r, snapshot |-> s, path |-> p, family |-> fm, series |-> q, hash |-> h, prior |-> o]

\* Two snapshots of one repository, a document with the text of the first, and another
\* repository.
MCCorpus == <<Chunk("A", "a1", "p1", "f", "q", "h1", 0), Chunk("A", "a2", "p2", "f", "q", "h2", 6),
              Chunk("B", "b1", NoText, "u", NoText, "h1", 0), Chunk("C", "c1", "p3", "f", NoText, "h3", 0)>>

MCConfigs == {[provider |-> "hashing", model |-> "m", deployment |-> "a b"],
              [provider |-> "hashing", model |-> "m", deployment |-> "a-b"],
              [provider |-> "openai", model |-> "m", deployment |-> "c"]}

\* The first two deployments have the same clean identifier.
MCSafe == ("a b" :> "a-b") @@ ("a-b" :> "a-b") @@ ("c" :> "c")

MCPool == [min |-> 2, max |-> 2]

\* Phase 0 and D0 on the first day.  The first cycle ends that day too, so a campaign that
\* claims it is late and has to be refused; the second leaves room for an orderly one.
MCTimelines == {[phase0 |-> 3, d0 |-> 3, cycle |-> <<3, 6>>, absolute |-> 6]}

MCCycleBudget == <<1, 2>>

NoCase == [kind |-> "none"]

\* Retrieval begins with the first snapshots and nothing asked while another part moves.
AtRest ==
    /\ purged = {} /\ changes = 0 /\ packet = [at |-> "none"]
    /\ served = [r \in Resources |-> CHOOSE s \in SnapshotsOf(r) : TRUE]
    /\ embeddedBy = [r \in Resources |-> CHOOSE c \in Configs : TRUE]

\* A packet is asked for while the first snapshots are served.  One deployment embeds the
\* last two resources, one of the same clean identifier or of another the first.
FirstServed ==
    packet.at = "none" =>
        /\ served["A"] = "a1" /\ embeddedBy["A"].deployment \in {"a-b", "c"}
        /\ \A r \in {"B", "C"} : embeddedBy[r].deployment = "a b"

PipelineInit ==
    /\ part \in {"staging", "bundle", "ingestion", "retrieval", "scoring", "evidence"}
    /\ StagingInit /\ ScoringInit /\ EvidenceInit
    /\ IF part = "bundle" THEN BundleInit ELSE bundle = NoCase
    /\ IF part = "ingestion" THEN IngestInit ELSE job = NoCase
    /\ IF part = "retrieval" THEN RetrievalInit /\ FirstServed ELSE AtRest

PipelineNext ==
    \/ /\ part = "staging" /\ StagingNext
       /\ UNCHANGED <<part, bundle, job, retrievalVars, scored, evidenceVars>>
    \/ /\ part = "bundle" /\ BundleNext
       /\ UNCHANGED <<part, stagingVars, job, retrievalVars, scored, evidenceVars>>
    \/ /\ part = "ingestion" /\ IngestNext
       /\ UNCHANGED <<part, stagingVars, bundle, retrievalVars, scored, evidenceVars>>
    \/ /\ part = "retrieval" /\ RetrievalNext
       /\ UNCHANGED <<part, stagingVars, bundle, job, scored, evidenceVars>>
    \/ /\ part = "scoring" /\ ScoringNext
       /\ UNCHANGED <<part, stagingVars, bundle, job, retrievalVars, evidenceVars>>
    \/ /\ part = "evidence" /\ EvidenceNext
       /\ UNCHANGED <<part, stagingVars, bundle, job, retrievalVars, scored>>

PipelineSpec == PipelineInit /\ [][PipelineNext]_pipelineVars

=============================================================================
