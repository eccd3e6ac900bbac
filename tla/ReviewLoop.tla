----------------------------- MODULE ReviewLoop -----------------------------
(***************************************************************************)
(* The self-improvement loop: a reviewer reports findings on a bundle, a   *)
(* finding becomes a regression proposal, a gate accepts or rejects it, an *)
(* accepted one is staged, and sleep mines the directory for failures that *)
(* recur.  Everything is a file below one directory; the commands run one  *)
(* after the other, a human edits proposals between them, status and text, *)
(* and a staging may die between two files.  A gate result names the       *)
(* identifier of the proposal it judged, not the text it read.             *)
(***************************************************************************)
EXTENDS Naturals, FiniteSets

CONSTANTS
    Claims,           \* claims of answers; a claim stands for what is said of its failure
    NoClaim,          \* what an answer without claims or with too little evidence fails
    External,         \* claims whose identifier speaks of an external LLM
    Harmful,          \* claims whose text the gate rejects as a lesson
    MinOccurrences,   \* --min-occurrences
    Budget,           \* --max-artifacts
    MaxReviews,       \* bounds the reviews
    MaxFiles,         \* bounds the proposal files
    MaxSleeps,        \* bounds the depth of candidates of candidates
    MaxRewritten      \* bounds the identifiers whose text is edited

ASSUME LoopConstants ==
    /\ NoClaim \notin Claims
    /\ External \subseteq Claims /\ Harmful \subseteq Claims
    /\ MinOccurrences \in Nat \ {0, 1} /\ Budget \in Nat \ {0}
    /\ MaxReviews \in Nat /\ MaxFiles \in Nat
    /\ MaxSleeps \in Nat /\ MaxRewritten \in Nat

VARIABLES
    reports,      \* review-report files
    files,        \* regression-proposal files, wherever they are
    gates,        \* validation-gate-result files
    stages,       \* stage directories, one for each proposal identifier
    slept,        \* the candidates in the last sleep summary
    rewritten     \* history: identifiers of proposals whose text was edited

loopVars == <<reports, files, gates, stages, slept, rewritten>>

-----------------------------------------------------------------------------
(* Reviews *)

\* support: what the citations that declare to support a claim amount to.
Bundle == [claims : SUBSET Claims, support : [Claims -> {"none", "match", "mismatch"}],
           cited : BOOLEAN, complete : BOOLEAN]

ReviewBundles == {b \in Bundle : /\ \A c \in Claims : b.support[c] # "none" => c \in b.claims
                           /\ (\E c \in Claims : b.support[c] # "none") => b.cited}

Finding(claim, type, severity, evidence, candidate, confidence, eligible) ==
    [claim |-> claim, type |-> type, severity |-> severity, evidence |-> evidence,
     candidate |-> candidate, confidence |-> confidence, eligible |-> eligible]

\* Evidence falls back on the identifier of the bundle when it has no citation.
Incomplete(bundle) ==
    IF bundle.complete THEN {}
    ELSE {Finding(NoClaim, "missing_evidence", "major", TRUE, FALSE, "high", "not_eligible")}

CitationFindings(bundle) ==
    IF bundle.claims = {}
    THEN {Finding(NoClaim, "missing_evidence", "major", TRUE, FALSE, "high", "not_eligible")}
    ELSE LET external(c) == c \in External /\ bundle.cited
         IN  {Finding(c, "unsupported_claim", "major", TRUE, TRUE, "high", "candidate") :
                 c \in {d \in bundle.claims : bundle.support[d] = "none" /\ ~external(d)}}
             \cup
             {Finding(c, "citation_mismatch", "blocker", TRUE, TRUE, "medium", "candidate") :
                 c \in {d \in bundle.claims : \/ bundle.support[d] = "mismatch"
                                              \/ bundle.support[d] = "none" /\ external(d)}}

FindingsOf(bundle) == Incomplete(bundle) \cup CitationFindings(bundle)

\* finding_to_proposal_rule
Eligible(f) ==
    IF f.severity = "rejected_learning" \/ ~f.candidate THEN "not_eligible"
    ELSE IF f.confidence \in {"high", "medium"} THEN "candidate" ELSE "requires_human_review"

\* What the validators of ReviewerFinding demand.
Valid(f) ==
    /\ f.severity \in {"blocker", "major"} => f.evidence
    /\ f.eligible = Eligible(f)

VerdictOf(findings) ==
    IF \E f \in findings : f.severity \in {"blocker", "major"} THEN "BLOCK"
    ELSE IF findings # {} THEN "RISK" ELSE "PASS"

\* Reports of other reviewers: a lesson that is turned down, a finding of a type
\* without a target surface, a fixture to add.
ForeignFindings ==
    {f \in {Finding(c, type, severity, TRUE, TRUE, "low", eligible) :
                c \in Claims, type \in {"scope_creep", "regression_candidate"},
                severity \in {"learning", "rejected_learning"},
                eligible \in {"not_eligible", "requires_human_review"}} : Valid(f)}

-----------------------------------------------------------------------------
(* Files *)

Reviews == 1..MaxReviews
FileNumbers == 1..MaxFiles

\* The types of the findings that can become proposals, and those of a known surface.
Targeted == {"unsupported_claim", "citation_mismatch", "regression_candidate"}
Types == Targeted \cup {"scope_creep"}

\* What identifies a proposal and its recurrence: the claim, the type of the finding,
\* and how often sleep has wrapped it up.
Key == [claim : Claims, type : Types, depth : 0..MaxSleeps]

Statuses == {"proposed", "accepted", "rejected"}

\* text: the proposed check, which the gate reads and sleep passes on; at first it is that
\* of the claim.  The failure mode, which sleep groups by, stays as it was.
\* reviews is history: those the failure was seen in.
Proposals == [key : Key, text : Claims, status : Statuses,
              reviews : SUBSET Reviews, staged : BOOLEAN]

Absent == [status |-> "none", staged |-> FALSE]

\* A stage directory: how many of its files are there (copies of the proposal and of
\* the gate result, patch, summary; the receipt is the fifth), and for what.
Stage == [written : 0..5, source : 0..MaxFiles, busy : BOOLEAN]

NoStage == [written |-> 0, source |-> 0, busy |-> FALSE]

LoopTypeOK ==
    /\ \A n \in Reviews : /\ reports[n].written \in BOOLEAN
                          /\ \A f \in reports[n].findings : f.claim \in Claims \cup {NoClaim}
    /\ \A n \in FileNumbers : files[n] = Absent \/ files[n] \in Proposals
    /\ gates \in [Key -> {"none", "accept", "reject"}]
    /\ stages \in [Key -> Stage]
    /\ \A c \in slept : c.key \in Key /\ c.reviews \subseteq Reviews
    /\ rewritten \subseteq Key

LoopInit ==
    /\ reports = [n \in Reviews |-> [written |-> FALSE, findings |-> {}]]
    /\ files = [n \in FileNumbers |-> Absent]
    /\ gates = [k \in Key |-> "none"]
    /\ stages = [k \in Key |-> NoStage]
    /\ slept = {}
    /\ rewritten = {}

Unwritten == {n \in FileNumbers : files[n] = Absent}

\* The next file, if there is still room for one.
Fresh == CHOOSE n \in Unwritten : \A m \in Unwritten : n <= m

-----------------------------------------------------------------------------
(* Commands *)

\* review run: an incomplete bundle needs --allow-incomplete; the backend and the
\* egress decision are those the bundle was captured with.
WriteReport(n, findings) ==
    /\ ~reports[n].written /\ \A m \in 1..(n - 1) : reports[m].written
    /\ reports' = [reports EXCEPT ![n] = [written |-> TRUE, findings |-> findings]]
    /\ UNCHANGED <<files, gates, stages, slept, rewritten>>

ReviewBundle(n) ==
    \E bundle \in ReviewBundles, allowIncomplete \in BOOLEAN :
        /\ bundle.complete \/ allowIncomplete
        /\ WriteReport(n, FindingsOf(bundle))

ImportReport(n) == \E f \in ForeignFindings : WriteReport(n, {f})

\* Rejected learning becomes a rejected proposal.
ProposalOf(n, f) ==
    [key |-> [claim |-> f.claim, type |-> f.type, depth |-> 0], text |-> f.claim,
     status |-> IF f.eligible = "not_eligible" THEN "rejected" ELSE "proposed",
     reviews |-> {n}, staged |-> FALSE]

Selectable(f) == f.candidate \/ f.severity = "rejected_learning"

Propose(n) ==
    /\ Unwritten # {}
    /\ \E f \in reports[n].findings :
        Selectable(f) /\ files' = [files EXCEPT ![Fresh] = ProposalOf(n, f)]
    /\ UNCHANGED <<reports, gates, stages, slept, rewritten>>

\* A human settles a proposal file.
Settle(n) ==
    /\ files[n].status = "proposed" /\ ~files[n].staged
    /\ \E status \in {"accepted", "rejected"} : files' = [files EXCEPT ![n].status = status]
    /\ UNCHANGED <<reports, gates, stages, slept, rewritten>>

\* A human rewrites what a proposal file says; its identifier stays.
Rewrite(n) ==
    /\ files[n] # Absent /\ ~files[n].staged
    /\ \E text \in Claims \ {files[n].text} : files' = [files EXCEPT ![n].text = text]
    /\ rewritten' = rewritten \cup {files[n].key}
    /\ Cardinality(rewritten') <= MaxRewritten
    /\ UNCHANGED <<reports, gates, stages, slept>>

GateDecision(file) ==
    IF file.status # "rejected" /\ file.key.type \in Targeted /\ file.text \notin Harmful
    THEN "accept" ELSE "reject"

\* The result is filed under the identifier of the proposal.
Gate(n) ==
    /\ files[n] # Absent
    /\ gates' = [gates EXCEPT ![files[n].key] = GateDecision(files[n])]
    /\ UNCHANGED <<reports, files, stages, slept, rewritten>>

\* Mutant: the status of the proposal itself is not looked at again.
StageableByGate(file) == gates[file.key] = "accept"

Stageable(file) ==
    gates[file.key] = "accept" /\ file.status # "rejected" /\ file.key.type \in Targeted

Vacant(stage) == stage.written = 0

StartStage(n) ==
    LET file == files[n]
    IN  /\ file # Absent /\ Unwritten # {}
        /\ Stageable(file) /\ Vacant(stages[file.key])
        /\ stages' = [stages EXCEPT ![file.key] = [written |-> 1, source |-> n, busy |-> TRUE]]
        /\ files' = [files EXCEPT ![Fresh] = [file EXCEPT !.staged = TRUE]]
        /\ UNCHANGED <<reports, gates, slept, rewritten>>

\* The copy of the gate result, the patch and the summary, then the receipt.
StageNext(k) ==
    /\ stages[k].busy
    /\ stages' = [stages EXCEPT ![k].written = @ + 1, ![k].busy = stages[k].written < 4]
    /\ UNCHANGED <<reports, files, gates, slept, rewritten>>

StageDies(k) ==
    /\ stages[k].busy
    /\ stages' = [stages EXCEPT ![k].busy = FALSE]
    /\ UNCHANGED <<reports, files, gates, slept, rewritten>>

\* rm -rf of the directory, the discard command of the receipt.
DiscardStage(k) ==
    /\ ~stages[k].busy /\ stages[k].written > 0
    /\ stages' = [stages EXCEPT ![k] = NoStage]
    /\ files' = [n \in FileNumbers |->
                    IF files[n].staged /\ files[n].key = k THEN Absent ELSE files[n]]
    /\ UNCHANGED <<reports, gates, slept, rewritten>>

\* run_sleep_replay reads at most Budget files; a rejected proposal is skipped, the
\* others are grouped by key, copies in stage directories and candidates of earlier
\* sleeps included.
Lesser(a, b) == IF a < b THEN a ELSE b

Group(seen, key) == {n \in seen : files[n].status # "rejected" /\ files[n].key = key}

\* The candidate of a group of one key; its own key has the number of its sources too,
\* which MaxFiles keeps at two.
Above(key) == [key EXCEPT !.depth = @ + 1]

\* Its check is that of the group's first file, by the order of the paths.
CandidateOf(group, first) ==
    [key |-> Above(files[first].key), text |-> files[first].text, status |-> "proposed",
     reviews |-> UNION {files[n].reviews : n \in group}, staged |-> FALSE]

Recurring(seen) ==
    {k \in {files[n].key : n \in seen} : Cardinality(Group(seen, k)) >= MinOccurrences}

\* Each candidate goes to a file of its own below the directory that is scanned, and
\* is gated; without --out-dir nothing is written.
Sleep ==
    LET written == FileNumbers \ Unwritten
    IN  \E seen \in SUBSET written, out \in BOOLEAN : \E first \in [Recurring(seen) -> seen] :
        LET candidate(k) == CandidateOf(Group(seen, k), first[k])
        IN  /\ Cardinality(seen) = Lesser(Budget, Cardinality(written))
            /\ \A k \in Recurring(seen) : k.depth < MaxSleeps /\ first[k] \in Group(seen, k)
            /\ slept' = {[key |-> k, reviews |-> candidate(k).reviews] : k \in Recurring(seen)}
            /\ IF ~out THEN UNCHANGED <<files, gates>>
               ELSE \E place \in [Recurring(seen) -> Unwritten] :
                    /\ \A k, l \in Recurring(seen) : k # l => place[k] # place[l]
                    /\ files' = [n \in FileNumbers |->
                                    IF \E k \in Recurring(seen) : place[k] = n
                                    THEN candidate(CHOOSE k \in Recurring(seen) : place[k] = n)
                                    ELSE files[n]]
                    /\ gates' = [g \in Key |->
                                    IF \E k \in Recurring(seen) : Above(k) = g
                                    THEN GateDecision(candidate(CHOOSE k \in Recurring(seen) : Above(k) = g))
                                    ELSE gates[g]]
    /\ UNCHANGED <<reports, stages, rewritten>>

-----------------------------------------------------------------------------
(* Specification *)

LoopNext ==
    \/ \E n \in Reviews : ReviewBundle(n) \/ ImportReport(n) \/ Propose(n)
    \/ \E n \in FileNumbers : Settle(n) \/ Rewrite(n) \/ Gate(n) \/ StartStage(n)
    \/ \E k \in Key : StageNext(k) \/ StageDies(k) \/ DiscardStage(k)
    \/ Sleep

LoopSpec == LoopInit /\ [][LoopNext]_loopVars

-----------------------------------------------------------------------------
(* Properties *)

\* Whatever a bundle claims and cites, the findings of the local reviewer pass the
\* validators of a finding, so that a review ends with a report; a bundle with too
\* little evidence is blocked.
FindingsValidate ==
    /\ \A n \in Reviews : \A f \in reports[n].findings : Valid(f)
    /\ \A n \in Reviews :
        (\E f \in reports[n].findings : f.claim = NoClaim) => VerdictOf(reports[n].findings) = "BLOCK"

\* No text of a proposal with this identifier was edited, nor of one it recurs from.
Unedited(key) == \A d \in 0..key.depth : [key EXCEPT !.depth = d] \notin rewritten

\* What is staged was not a rejected lesson and has a target, whatever other proposal
\* of the same identifier the gate had accepted; and it says nothing harmful, however
\* often sleep had wrapped it up, unless someone edited a text under the identifier:
\* staging compares identifiers (staged_adoption.py:155), so a text edited after the gate
\* is staged with the result of before.
StagedAreFit ==
    \A n \in FileNumbers :
        files[n].staged =>
            /\ files[n].status # "rejected" /\ files[n].key.type \in Targeted
            /\ Unedited(files[n].key) => files[n].text \notin Harmful

\* A stage is never written over, not even one that a death left half done; it is
\* finished, or discarded.
StagedStays ==
    [][\A k \in Key :
        stages[k].written > 0 =>
            \/ stages'[k] = NoStage
            \/ stages'[k].source = stages[k].source /\ stages'[k].written >= stages[k].written
      ]_loopVars

\* The loop from a review to a staged lesson lets through only what it should, and
\* loses nothing it staged.  (review_bundle.py to self_improvement_staged_adoption.py)
LoopIsGuarded == [](LoopTypeOK /\ FindingsValidate /\ StagedAreFit) /\ StagedStays

=============================================================================
