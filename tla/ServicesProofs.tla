--------------------------- MODULE ServicesProofs ---------------------------
(***************************************************************************)
(* Proofs about what the API answers to people, agents and evaluators:     *)
(* RemoteCode, CodeReads, RuntimeReads, EvalRuns, Accounts and             *)
(* SkillPackages.  Each has an inductive invariant of what an open call, a *)
(* client, a held hit, an evaluation under way or a stored package         *)
(* remembers of a store that moves on, one lemma for each step that could  *)
(* break it, and the theorem about the property its run checks.  The       *)
(* requests and reports of EvalReports, the selections of CodeReads and    *)
(* the answers and lists of AgentAnswers change no state: the lemmas are   *)
(* about their operators.                                                  *)
(***************************************************************************)
EXTENDS RemoteCode, CodeReads, RuntimeReads, EvalRuns, Accounts, EvalReports, SkillPackages,
        AgentAnswers, NumberFacts, FiniteSetTheorems, TLAPS

-----------------------------------------------------------------------------
(* Remote code *)

\* Until the purge every snapshot up to the current one names its commit; after it none is left.
SnapshotsAreNamed ==
    /\ source.live # "purged" => \A s \in 1..source.current : commitOf[s] \in MaybeCommit
    /\ source.live = "purged" => \A s \in SnapshotIds : commitOf[s] = "none"

\* What an open call carries: a snapshot that existed, and a proposal it approved.
CallsAreOfTheirTime ==
    \A c \in CodeCallers : codeCalls[c].op # "idle" =>
        LET call == codeCalls[c] IN
        /\ call.snapshot # 0
        /\ source.live # "purged" => call.snapshot <= source.current
        /\ call.op = "open" =>
             /\ call.proposal \in ProposalNumbers /\ call.branch \in Branches
             /\ proposals[call.proposal].status # "none"

\* Why the call may still record the request when it gets to it.
ApprovalsLast ==
    \A c \in CodeCallers :
        codeCalls[c].op = "open" /\ proposals[codeCalls[c].proposal].snapshot # 0 =>
            LET call == codeCalls[c]
                proposal == proposals[call.proposal]
            IN  /\ proposal.indexed # NoCommit =>
                     /\ proposal.base = proposal.indexed
                     /\ commitOf[call.snapshot] = proposal.indexed
                /\ proposal.branch \in {NoBranch, call.branch}

\* A proposal names a snapshot and its commit until the purge clears it.
ProposalsAreSourced ==
    \A p \in ProposalNumbers :
        /\ proposals[p].status = "none" => proposals[p].snapshot = 0
        /\ proposals[p].status = "pr_opened" => proposals[p].snapshot # 0
        /\ proposals[p].snapshot # 0 =>
             LET proposal == proposals[p] IN
             /\ source.live # "purged" /\ proposal.snapshot <= source.current
             /\ proposal.indexed = commitOf[proposal.snapshot]
             /\ proposal.moved = Moved(proposal.base, proposal.indexed)

\* An answer is of a snapshot that is there until the purge.
AnswersAreOfTheirTime ==
    \A c \in CodeCallers : source.live # "purged" => answers[c].snapshot <= source.current

\* The inductive invariant of RemoteCode: what an open call remembers is still true of the
\* source when it answers or records, unless the source was purged meanwhile.
CodeIInv ==
    /\ CodeTypeOK /\ SnapshotsAreNamed /\ CallsAreOfTheirTime /\ ApprovalsLast
    /\ ProposalsAreSourced /\ AnswersAreOfTheirTime /\ AnswersAreWhole /\ PrRecordsAgree

\* With no snapshot, proposal or call the invariant holds.
LEMMA CodeInitially == CodeInit => CodeIInv
BY RemoteConstants DEF CodeInit, CodeIInv, CodeTypeOK, SnapshotsAreNamed, CallsAreOfTheirTime, ApprovalsLast,
   ProposalsAreSourced, AnswersAreOfTheirTime, AnswersAreWhole, PrRecordsAgree, NoProposal, NoCodeCall, NoAnswer,
   Source, Proposal, CodeCall, Answer, MaybeCommit, SnapshotIds, ProposalNumbers, PrRequest

\* An index run that finishes under an open call adds a snapshot and renames no earlier one.
LEMMA IndexSnapshotStep ==
  ASSUME CodeIInv, NEW commit \in MaybeCommit, IndexSnapshot(commit)
  PROVE  CodeIInv'
<1> USE DEF CodeIInv
<1> DEFINE s == source.current + 1
<1>1. /\ source.live = "yes" /\ s \in SnapshotIds /\ source.current \in 0..MaxSnapshots
      /\ UNCHANGED <<proposals, requests, codeCalls, answers>>
  BY RemoteConstants DEF IndexSnapshot, CodeTypeOK, Source, SnapshotIds
<1>2. source' \in Source /\ source'.current = s /\ source'.live = "yes"
  BY <1>1 DEF IndexSnapshot, CodeTypeOK, Source, SnapshotIds
<1>3. /\ commitOf' \in [SnapshotIds -> MaybeCommit \cup {"none"}]
      /\ commitOf'[s] = commit
      /\ \A x \in SnapshotIds : x # s => commitOf'[x] = commitOf[x]
  BY <1>1 DEF IndexSnapshot, CodeTypeOK
<1>4. \A x \in Nat : x # 0 /\ x <= source.current => x # s /\ x \in SnapshotIds /\ x <= s
  BY <1>1, RemoteConstants DEF SnapshotIds
<1>t. /\ \A p \in ProposalNumbers : proposals[p].snapshot \in Nat
      /\ \A c \in CodeCallers : codeCalls[c].snapshot \in Nat /\ answers[c].snapshot \in Nat
  BY DEF CodeTypeOK, Proposal, CodeCall, Answer
<1>5. CodeTypeOK'
  BY <1>1, <1>2, <1>3 DEF CodeTypeOK
<1>6. SnapshotsAreNamed'
  BY <1>1, <1>2, <1>3, <1>4 DEF SnapshotsAreNamed
<1>7. CallsAreOfTheirTime'
  BY <1>1, <1>2, <1>4, <1>t DEF CallsAreOfTheirTime
<1>8. ApprovalsLast'
  BY <1>1, <1>3, <1>4, <1>t DEF ApprovalsLast, CallsAreOfTheirTime
<1>9. ProposalsAreSourced'
  BY <1>1, <1>2, <1>3, <1>4, <1>t DEF ProposalsAreSourced
<1>10. AnswersAreOfTheirTime' /\ AnswersAreWhole'
  BY <1>1, <1>2, <1>3, <1>4, <1>t DEF AnswersAreOfTheirTime, AnswersAreWhole
<1>11. PrRecordsAgree'
  BY <1>1 DEF PrRecordsAgree
<1> QED BY <1>5, <1>6, <1>7, <1>8, <1>9, <1>10, <1>11

\* Archiving and restoring the source move no snapshot, proposal or call.
LEMMA ToggleArchiveStep ==
  ASSUME CodeIInv, ToggleArchive
  PROVE  CodeIInv'
<1> USE DEF CodeIInv
<1>1. /\ source.live # "purged" /\ source'.live # "purged" /\ source'.current = source.current
      /\ source' \in Source
      /\ UNCHANGED <<commitOf, proposals, requests, codeCalls, answers>>
  BY DEF ToggleArchive, CodeTypeOK, Source
<1> QED BY <1>1 DEF CodeTypeOK, SnapshotsAreNamed, CallsAreOfTheirTime, ApprovalsLast,
   ProposalsAreSourced, AnswersAreOfTheirTime, AnswersAreWhole, PrRecordsAgree

\* A purge under an open call clears every proposal of the source and every request.
LEMMA PurgeCodeStep ==
  ASSUME CodeIInv, PurgeCode
  PROVE  CodeIInv'
<1> USE DEF CodeIInv
<1>1. /\ source' = [current |-> 0, live |-> "purged"] /\ requests' = {}
      /\ commitOf' = [s \in SnapshotIds |-> "none"]
      /\ UNCHANGED <<codeCalls, answers>>
  BY DEF PurgeCode
<1>2. /\ proposals' \in [ProposalNumbers -> Proposal]
      /\ \A p \in ProposalNumbers :
           /\ proposals'[p].snapshot = 0 /\ proposals'[p].status # "pr_opened"
           /\ proposals'[p].status = "none" <=> proposals[p].status = "none"
  <2> DEFINE cleared == [NoProposal EXCEPT !.status = "draft"]
  <2>a. NoProposal \in Proposal /\ NoProposal.snapshot = 0 /\ NoProposal.status = "none"
    BY RemoteConstants DEF NoProposal, Proposal, MaybeCommit
  <2>1. /\ NoProposal \in Proposal /\ NoProposal.snapshot = 0 /\ NoProposal.status = "none"
        /\ cleared \in Proposal /\ cleared.snapshot = 0 /\ cleared.status = "draft"
    BY <2>a DEF Proposal
  <2> HIDE DEF cleared
  <2>2. proposals' = [p \in ProposalNumbers |-> IF proposals[p].status = "none" THEN NoProposal
                                                                             ELSE cleared]
    BY DEF PurgeCode, cleared
  <2> QED BY <2>1, <2>2
<1> QED BY <1>1, <1>2, RemoteConstants DEF CodeTypeOK, SnapshotsAreNamed, CallsAreOfTheirTime, ApprovalsLast,
   ProposalsAreSourced, AnswersAreOfTheirTime, AnswersAreWhole, PrRecordsAgree, Source

\* An answered call is idle again, and no other call is touched.
LEMMA ReplyFacts ==
  ASSUME CodeTypeOK, NEW c \in CodeCallers, NEW answer \in Answer, Reply(c, answer)
  PROVE  /\ codeCalls' \in [CodeCallers -> CodeCall] /\ answers' \in [CodeCallers -> Answer]
         /\ codeCalls'[c].op = "idle" /\ answers'[c] = answer
         /\ \A d \in CodeCallers : d # c => codeCalls'[d] = codeCalls[d] /\ answers'[d] = answers[d]
<1>1. NoCodeCall \in CodeCall /\ NoCodeCall.op = "idle"
  BY RemoteConstants DEF NoCodeCall, CodeCall, MaybeCommit
<1> QED BY <1>1 DEF Reply, CodeTypeOK

\* A call that ends without writing anything, with an answer of a snapshot that is there.
LEMMA ReplyStep ==
  ASSUME CodeIInv, NEW c \in CodeCallers, NEW answer \in Answer, Reply(c, answer),
         answer = NoAnswer \/ /\ answer.lines = answer.snapshot /\ source.live # "purged"
                              /\ answer.snapshot <= source.current
                              /\ answer.commit = commitOf[answer.snapshot],
         UNCHANGED <<source, commitOf, proposals, requests>>
  PROVE  CodeIInv'
<1> USE DEF CodeIInv
<1>1. /\ codeCalls' \in [CodeCallers -> CodeCall] /\ answers' \in [CodeCallers -> Answer]
      /\ codeCalls'[c].op = "idle" /\ answers'[c] = answer
      /\ \A d \in CodeCallers : d # c => codeCalls'[d] = codeCalls[d] /\ answers'[d] = answers[d]
  BY ReplyFacts
<1>2. CodeTypeOK' /\ SnapshotsAreNamed' /\ ProposalsAreSourced' /\ PrRecordsAgree'
  BY <1>1 DEF CodeTypeOK, SnapshotsAreNamed, ProposalsAreSourced, PrRecordsAgree
<1>3. CallsAreOfTheirTime' /\ ApprovalsLast'
  BY <1>1 DEF CallsAreOfTheirTime, ApprovalsLast
<1>4. source.current \in Nat /\ NoAnswer.snapshot = 0 /\ NoAnswer.lines = 0
  BY DEF CodeTypeOK, Source, NoAnswer
<1>5. AnswersAreOfTheirTime' /\ AnswersAreWhole'
  BY <1>1, <1>4 DEF AnswersAreOfTheirTime, AnswersAreWhole
<1> QED BY <1>2, <1>3, <1>5

\* A refused call answers with no lines.
LEMMA NoAnswerIsAnswer == NoAnswer \in Answer
BY RemoteConstants DEF NoAnswer, Answer, MaybeCommit

\* A read or a scan answers from the snapshot it was opened on, or not at all.
LEMMA FinishReadStep ==
  ASSUME CodeIInv, NEW c \in CodeCallers, FinishRead(c)
  PROVE  CodeIInv'
<1> USE DEF CodeIInv
<1> DEFINE call == codeCalls[c]
<1>1. call.op \in {"read", "scan"} /\ UNCHANGED <<source, commitOf, proposals, requests>>
  BY DEF FinishRead
<1>2. CASE RowsOf(call) = {}
  BY <1>1, <1>2, NoAnswerIsAnswer, ReplyStep DEF FinishRead, Refuse
<1>3. CASE RowsOf(call) # {}
  <2> DEFINE answer == [lines |-> call.snapshot, snapshot |-> call.snapshot,
                        commit |-> commitOf[call.snapshot]]
  <2>1. commitOf[call.snapshot] # "none"
    BY <1>3 DEF RowsOf
  <2>2. Reply(c, answer)
    BY <1>3, <2>1 DEF FinishRead, RowsOf
  <2>3. call.snapshot \in SnapshotIds
    BY <1>1 DEF CallsAreOfTheirTime, CodeTypeOK, CodeCall, SnapshotIds
  <2>4. source.live # "purged"
    BY <2>1, <2>3 DEF SnapshotsAreNamed
  <2>5. call.snapshot <= source.current
    BY <1>1, <2>4 DEF CallsAreOfTheirTime
  <2>6. commitOf[call.snapshot] \in MaybeCommit
    BY <2>1, <2>3 DEF CodeTypeOK
  <2>7. answer \in Answer
    BY <2>3, <2>6 DEF Answer, SnapshotIds
  <2> QED BY <1>1, <2>2, <2>4, <2>5, <2>7, ReplyStep
<1> QED BY <1>2, <1>3

\* An idle caller holds no snapshot.
LEMMA NoCodeCallIsCall == NoCodeCall \in CodeCall
BY RemoteConstants DEF NoCodeCall, CodeCall, MaybeCommit

\* A call that opens takes the current snapshot; one that opens a pull request takes a
\* proposal it could approve.
LEMMA OpenStep ==
  ASSUME CodeIInv, NEW c \in CodeCallers, NEW call \in CodeCall, Open(c, call), Queryable,
         call.op # "idle", call.snapshot = source.current,
         call.op = "open" => call.proposal \in ProposalNumbers /\ call.branch \in Branches
                             /\ Approvable(call.proposal, call.branch),
         UNCHANGED <<source, commitOf, proposals, requests>>
  PROVE  CodeIInv'
<1> USE DEF CodeIInv
<1>1. /\ codeCalls' \in [CodeCallers -> CodeCall] /\ answers' \in [CodeCallers -> Answer]
      /\ codeCalls'[c] = call /\ answers'[c] = NoAnswer
      /\ \A d \in CodeCallers : d # c => codeCalls'[d] = codeCalls[d] /\ answers'[d] = answers[d]
  BY NoAnswerIsAnswer DEF Open, CodeTypeOK
<1>2. CodeTypeOK' /\ SnapshotsAreNamed' /\ ProposalsAreSourced' /\ PrRecordsAgree'
  BY <1>1 DEF CodeTypeOK, SnapshotsAreNamed, ProposalsAreSourced, PrRecordsAgree
<1>3. source.current \in Nat /\ source.current # 0
  BY DEF Queryable, CodeTypeOK, Source
<1>4. CallsAreOfTheirTime'
  BY <1>1, <1>3 DEF CallsAreOfTheirTime, Approvable
<1>5. ASSUME call.op = "open", proposals[call.proposal].snapshot # 0
      PROVE  LET proposal == proposals[call.proposal]
             IN  /\ proposal.indexed # NoCommit =>
                      /\ proposal.base = proposal.indexed
                      /\ commitOf[call.snapshot] = proposal.indexed
                 /\ proposal.branch \in {NoBranch, call.branch}
  BY <1>5 DEF Approvable, ProposalsAreSourced, Moved
<1>6. ApprovalsLast'
  BY <1>1, <1>5 DEF ApprovalsLast
<1>7. NoAnswer.snapshot = 0 /\ NoAnswer.lines = 0
  BY DEF NoAnswer
<1>8. AnswersAreOfTheirTime' /\ AnswersAreWhole'
  BY <1>1, <1>3, <1>7 DEF AnswersAreOfTheirTime, AnswersAreWhole
<1> QED BY <1>2, <1>4, <1>6, <1>8

\* The three handlers that open a call: read or scan, propose a patch, open a pull request.
LEMMA StartSteps ==
  ASSUME CodeIInv, NEW c \in CodeCallers,
         \/ StartRead(c)
         \/ \E base \in MaybeCommit, branch \in Branches \cup {NoBranch} : StartPatch(c, base, branch)
         \/ \E p \in ProposalNumbers, branch \in Branches : StartOpenPr(c, p, branch)
  PROVE  CodeIInv'
<1>0. source.current \in 0..MaxSnapshots
  BY DEF CodeIInv, CodeTypeOK, Source
<1>1. CASE StartRead(c)
  <2>1. PICK op \in {"read", "scan"} :
          Open(c, [NoCodeCall EXCEPT !.op = op, !.snapshot = source.current])
    BY <1>1 DEF StartRead
  <2> DEFINE call == [NoCodeCall EXCEPT !.op = op, !.snapshot = source.current]
  <2>2. call \in CodeCall /\ call.op = op /\ call.snapshot = source.current
    BY <1>0, <2>1, NoCodeCallIsCall DEF CodeCall
  <2>3. Queryable /\ Open(c, call) /\ UNCHANGED <<source, commitOf, proposals, requests>>
    BY <1>1, <2>1 DEF StartRead
  <2> HIDE DEF call
  <2> QED BY <2>1, <2>2, <2>3, OpenStep
<1>2. ASSUME NEW base \in MaybeCommit, NEW branch \in Branches \cup {NoBranch}, StartPatch(c, base, branch)
      PROVE  CodeIInv'
  <2> DEFINE call == [NoCodeCall EXCEPT !.op = "patch", !.snapshot = source.current,
                                        !.base = base, !.branch = branch]
  <2>1. call \in CodeCall /\ call.op = "patch" /\ call.snapshot = source.current
    BY <1>0, NoCodeCallIsCall DEF CodeCall, ProposalNumbers
  <2>2. Queryable /\ Open(c, call) /\ UNCHANGED <<source, commitOf, proposals, requests>>
    BY <1>2 DEF StartPatch
  <2> HIDE DEF call
  <2> QED BY <2>1, <2>2, OpenStep
<1>3. ASSUME NEW p \in ProposalNumbers, NEW branch \in Branches, StartOpenPr(c, p, branch)
      PROVE  CodeIInv'
  <2> DEFINE call == [NoCodeCall EXCEPT !.op = "open", !.snapshot = source.current,
                                        !.proposal = p, !.branch = branch]
  <2> DEFINE opening == [NoCodeCall EXCEPT !.op = "open", !.snapshot = source.current]
  <2>a. opening \in CodeCall /\ opening.op = "open" /\ opening.snapshot = source.current
    BY <1>0, NoCodeCallIsCall DEF CodeCall
  <2>b. p \in 0..MaxProposals
    BY RemoteConstants DEF ProposalNumbers
  <2>c. call = [opening EXCEPT !.proposal = p, !.branch = branch]
    OBVIOUS
  <2> HIDE DEF opening
  <2>1. /\ call \in CodeCall /\ call.op = "open" /\ call.snapshot = source.current
        /\ call.proposal = p /\ call.branch = branch
    BY <2>a, <2>b, <2>c DEF CodeCall
  <2>2. /\ Queryable /\ Open(c, call) /\ Approvable(p, branch)
        /\ UNCHANGED <<source, commitOf, proposals, requests>>
    BY <1>3 DEF StartOpenPr
  <2> HIDE DEF call
  <2> QED BY <2>1, <2>2, OpenStep
<1> QED BY <1>1, <1>2, <1>3

\* A patch is proposed against the commit of the snapshot the call was opened on, or
\* refused.
LEMMA FinishPatchStep ==
  ASSUME CodeIInv, NEW c \in CodeCallers, FinishPatch(c)
  PROVE  CodeIInv'
<1> USE DEF CodeIInv
<1> DEFINE call == codeCalls[c]
           new == [status |-> "draft", snapshot |-> call.snapshot,
                   indexed |-> commitOf[call.snapshot], base |-> call.base,
                   branch |-> call.branch, moved |-> Moved(call.base, commitOf[call.snapshot])]
           answer == [lines |-> call.snapshot, snapshot |-> call.snapshot,
                      commit |-> commitOf[call.snapshot]]
<1>1. call.op = "patch" /\ UNCHANGED <<source, commitOf, requests>>
  BY DEF FinishPatch
<1>2. CASE Refuse(c) /\ UNCHANGED proposals
  BY <1>1, <1>2, NoAnswerIsAnswer, ReplyStep DEF Refuse
<1>3. CASE ~(Refuse(c) /\ UNCHANGED proposals)
  <2>1. PICK p \in ProposalNumbers :
          /\ proposals[p].status = "none" /\ commitOf[call.snapshot] # "none"
          /\ proposals' = [proposals EXCEPT ![p] = new] /\ Reply(c, answer)
    BY <1>3 DEF FinishPatch
  <2>2. call \in CodeCall /\ call.snapshot \in SnapshotIds /\ call.snapshot # 0
    BY <1>1 DEF CallsAreOfTheirTime, CodeTypeOK, CodeCall, SnapshotIds
  <2>3. source.live # "purged"
    BY <2>1, <2>2 DEF SnapshotsAreNamed
  <2>4. call.snapshot <= source.current
    BY <1>1, <2>3 DEF CallsAreOfTheirTime
  <2>5. commitOf[call.snapshot] \in MaybeCommit
    BY <2>1, <2>2 DEF CodeTypeOK
  <2>6. answer \in Answer
    BY <2>2, <2>5 DEF Answer, SnapshotIds
  <2>7. new \in Proposal
    BY <2>2, <2>5 DEF Proposal, CodeCall, SnapshotIds, Moved
  <2>8. /\ new.status = "draft" /\ new.snapshot = call.snapshot
        /\ new.indexed = commitOf[call.snapshot] /\ new.base = call.base
        /\ new.moved = Moved(call.base, commitOf[call.snapshot])
        /\ answer.lines = call.snapshot /\ answer.snapshot = call.snapshot
        /\ answer.commit = commitOf[call.snapshot]
    OBVIOUS
  <2> HIDE DEF new, answer
  <2>9. /\ codeCalls' \in [CodeCallers -> CodeCall] /\ answers' \in [CodeCallers -> Answer]
        /\ codeCalls'[c].op = "idle" /\ answers'[c] = answer
        /\ \A d \in CodeCallers : d # c => codeCalls'[d] = codeCalls[d] /\ answers'[d] = answers[d]
    BY <2>1, <2>6, ReplyFacts
  <2>10. /\ proposals' \in [ProposalNumbers -> Proposal] /\ proposals'[p] = new
         /\ \A q \in ProposalNumbers : q # p => proposals'[q] = proposals[q]
    BY <2>1, <2>7 DEF CodeTypeOK
  <2>11. CodeTypeOK' /\ SnapshotsAreNamed'
    BY <1>1, <2>9, <2>10 DEF CodeTypeOK, SnapshotsAreNamed
  <2>12. CallsAreOfTheirTime'
    BY <1>1, <2>8, <2>9, <2>10 DEF CallsAreOfTheirTime
  <2>13. ApprovalsLast'
    <3> SUFFICES ASSUME NEW d \in CodeCallers, codeCalls'[d].op = "open",
                        proposals'[codeCalls'[d].proposal].snapshot # 0
                 PROVE  LET open == codeCalls'[d]
                            proposal == proposals'[open.proposal]
                        IN  /\ proposal.indexed # NoCommit =>
                                 /\ proposal.base = proposal.indexed
                                 /\ commitOf'[open.snapshot] = proposal.indexed
                            /\ proposal.branch \in {NoBranch, open.branch}
      BY DEF ApprovalsLast
    <3>1. codeCalls'[d] = codeCalls[d]
      BY <2>9
    <3>2. codeCalls[d].proposal # p /\ codeCalls[d].proposal \in ProposalNumbers
      BY <2>1, <3>1 DEF CallsAreOfTheirTime
    <3> QED BY <1>1, <2>10, <3>1, <3>2 DEF ApprovalsLast
  <2>14. ProposalsAreSourced'
    BY <1>1, <2>3, <2>4, <2>8, <2>10 DEF ProposalsAreSourced
  <2>15. AnswersAreOfTheirTime' /\ AnswersAreWhole'
    BY <1>1, <2>4, <2>8, <2>9 DEF AnswersAreOfTheirTime, AnswersAreWhole
  <2>16. PrRecordsAgree'
    <3>1. \A r \in requests : r.proposal \in ProposalNumbers /\ r.proposal # p
      BY <2>1 DEF PrRecordsAgree, CodeTypeOK, PrRequest
    <3>2. \A q \in ProposalNumbers : proposals'[q].status = "pr_opened" => q # p
      BY <2>8, <2>10
    <3> QED BY <1>1, <2>10, <3>1, <3>2 DEF PrRecordsAgree
  <2> QED BY <2>11, <2>12, <2>13, <2>14, <2>15, <2>16
<1> QED BY <1>2, <1>3

\* A request is recorded for a proposal that was approvable when the call opened and is not
\* recorded yet; the loser of a race is refused.
LEMMA FinishOpenPrStep ==
  ASSUME CodeIInv, NEW c \in CodeCallers, FinishOpenPr(c)
  PROVE  CodeIInv'
<1> USE DEF CodeIInv
<1> DEFINE call == codeCalls[c]
<1>1. call.op = "open" /\ UNCHANGED <<source, commitOf>>
  BY DEF FinishOpenPr
<1>2. CASE ~Insertable(call.proposal)
  BY <1>1, <1>2, NoAnswerIsAnswer, ReplyStep DEF FinishOpenPr, Refuse
<1>3. CASE Insertable(call.proposal)
  <2>0. PICK p \in ProposalNumbers : p = call.proposal
    BY <1>1 DEF CallsAreOfTheirTime
  <2> DEFINE answer == [lines |-> proposals[p].snapshot, snapshot |-> proposals[p].snapshot,
                        commit |-> proposals[p].indexed]
             row == [proposal |-> p, branch |-> call.branch, basis |-> commitOf[call.snapshot]]
  <2>1. /\ proposals' = [proposals EXCEPT ![p].status = "pr_opened"]
        /\ requests' = requests \cup {row} /\ Reply(c, answer)
    BY <1>3, <2>0 DEF FinishOpenPr
  <2>2. /\ call \in CodeCall /\ call.snapshot \in SnapshotIds /\ call.branch \in Branches
        /\ proposals[p] \in Proposal
    BY <1>1 DEF CallsAreOfTheirTime, CodeTypeOK, CodeCall, SnapshotIds
  <2>3. /\ proposals[p].snapshot # 0 /\ source.live # "purged"
        /\ proposals[p].snapshot <= source.current
        /\ proposals[p].indexed = commitOf[proposals[p].snapshot]
        /\ \A r \in requests : r.proposal # p
    BY <1>3, <2>0 DEF Insertable, ProposalsAreSourced
  <2>4. commitOf[call.snapshot] \in MaybeCommit
    <3>1. call.snapshot <= source.current
      BY <1>1, <2>3 DEF CallsAreOfTheirTime
    <3> QED BY <2>2, <2>3, <3>1 DEF SnapshotsAreNamed, SnapshotIds, CodeTypeOK, Source
  <2>5. answer \in Answer /\ row \in PrRequest
    BY <2>2, <2>4 DEF Answer, PrRequest, Proposal
  <2>6. /\ answer.lines = answer.snapshot /\ answer.snapshot = proposals[p].snapshot
        /\ answer.commit = proposals[p].indexed
        /\ row.proposal = p /\ row.branch = call.branch /\ row.basis = commitOf[call.snapshot]
    OBVIOUS
  <2> HIDE DEF answer, row
  <2>7. /\ codeCalls' \in [CodeCallers -> CodeCall] /\ answers' \in [CodeCallers -> Answer]
        /\ codeCalls'[c].op = "idle" /\ answers'[c] = answer
        /\ \A d \in CodeCallers : d # c => codeCalls'[d] = codeCalls[d] /\ answers'[d] = answers[d]
    BY <2>1, <2>5, ReplyFacts
  <2>8. /\ proposals' \in [ProposalNumbers -> Proposal]
        /\ \A q \in ProposalNumbers : q # p => proposals'[q] = proposals[q]
        /\ proposals'[p].status = "pr_opened" /\ proposals'[p].snapshot = proposals[p].snapshot
        /\ proposals'[p].indexed = proposals[p].indexed /\ proposals'[p].base = proposals[p].base
        /\ proposals'[p].branch = proposals[p].branch /\ proposals'[p].moved = proposals[p].moved
    BY <2>1, <2>2 DEF CodeTypeOK, Proposal
  <2>9. CodeTypeOK' /\ SnapshotsAreNamed'
    BY <1>1, <2>1, <2>5, <2>7, <2>8 DEF CodeTypeOK, SnapshotsAreNamed
  <2>10. CallsAreOfTheirTime'
    BY <1>1, <2>7, <2>8 DEF CallsAreOfTheirTime
  <2>11. \A q \in ProposalNumbers :
           /\ proposals'[q].snapshot = proposals[q].snapshot
           /\ proposals'[q].indexed = proposals[q].indexed
           /\ proposals'[q].base = proposals[q].base
           /\ proposals'[q].branch = proposals[q].branch
           /\ proposals'[q].moved = proposals[q].moved
           /\ proposals'[q].status = "none" => proposals[q].status = "none"
    BY <2>8
  <2>12. ApprovalsLast'
    BY <1>1, <2>7, <2>11 DEF ApprovalsLast, CallsAreOfTheirTime
  <2>13. ProposalsAreSourced'
    BY <1>1, <2>3, <2>8, <2>11 DEF ProposalsAreSourced
  <2>14. AnswersAreOfTheirTime' /\ AnswersAreWhole'
    BY <1>1, <2>3, <2>6, <2>7 DEF AnswersAreOfTheirTime, AnswersAreWhole
  <2>15. PrRecordsAgree'
    <3>1. /\ proposals[p].indexed # NoCommit =>
               /\ proposals[p].base = proposals[p].indexed
               /\ row.basis = proposals[p].indexed
          /\ proposals[p].branch \in {NoBranch, row.branch}
      BY <1>1, <2>0, <2>3, <2>6 DEF ApprovalsLast
    <3>2. \A r \in requests : r.proposal \in ProposalNumbers
      BY DEF CodeTypeOK, PrRequest
    <3>3. \A r \in requests' : r.proposal = p => r = row
      BY <2>1, <2>3
    <3>4. \A r \in requests' : r.proposal # p => r \in requests
      BY <2>1, <2>6
    <3>5. \A q \in ProposalNumbers : proposals'[q].status = "pr_opened" =>
            \E r \in requests' : r.proposal = q
      BY <2>1, <2>6, <2>8 DEF PrRecordsAgree
    <3>6. ASSUME NEW r \in requests'
          PROVE  LET proposal == proposals'[r.proposal]
                 IN  /\ proposal.status = "pr_opened"
                     /\ proposal.indexed # NoCommit =>
                          proposal.base = proposal.indexed /\ r.basis = proposal.indexed
                     /\ proposal.branch \in {NoBranch, r.branch}
                     /\ \A q \in requests' : q.proposal = r.proposal => q = r
      <4>1. CASE r.proposal = p
        BY <2>8, <3>1, <3>3, <4>1
      <4>2. CASE r.proposal # p
        BY <2>8, <3>2, <3>4, <4>2 DEF PrRecordsAgree
      <4> QED BY <4>1, <4>2
    <3> QED BY <3>5, <3>6 DEF PrRecordsAgree
  <2> QED BY <2>9, <2>10, <2>12, <2>13, <2>14, <2>15
<1> QED BY <1>2, <1>3

\* The inductive invariant holds in every state of the remote code handlers, for any number
\* of callers, proposals and snapshots.
THEOREM CodeInvariance == CodeSpec => []CodeIInv
<1>1. CodeIInv /\ [CodeNext]_codeVars => CodeIInv'
  <2> SUFFICES ASSUME CodeIInv, [CodeNext]_codeVars PROVE CodeIInv'
    OBVIOUS
  <2>1. CASE UNCHANGED codeVars
    BY <2>1 DEF codeVars, CodeIInv, CodeTypeOK, SnapshotsAreNamed, CallsAreOfTheirTime, ApprovalsLast,
       ProposalsAreSourced, AnswersAreOfTheirTime, AnswersAreWhole, PrRecordsAgree
  <2> QED BY <2>1, IndexSnapshotStep, ToggleArchiveStep, PurgeCodeStep, StartSteps, FinishReadStep,
             FinishPatchStep, FinishOpenPrStep DEF CodeNext
<1> QED BY <1>1, CodeInitially, PTL DEF CodeSpec

\* Every answer of the remote code tools is of one snapshot and its commit, and every
\* recorded pull request is the only one of its proposal and of the commit that was
\* approved, whatever indexing, archiving, purging and other calls overlap.
THEOREM CodeAnswered == CodeSpec => []CodeAnswers
<1>1. CodeIInv => CodeAnswers
  BY DEF CodeIInv, CodeAnswers
<1> QED BY <1>1, CodeInvariance, PTL

-----------------------------------------------------------------------------
(* Runtime reads *)

\* What a pack version pins: snapshots of some of the sources.
PinSets == UNION {[S -> 1..Len(FileText)] : S \in SUBSET Sources}

\* A context pack version: what it pins, and whether it is valid.
Cover == [of : PinSets, valid : BOOLEAN]

\* A graph a merged graph was drawn from: its resource, its version and its snapshot.
Inputs == [of : Sources, version : 0..MaxGraphs, snapshot : 0..Len(FileText)]

\* The types that RuntimeTypeOK leaves open: the pack versions and the merged graph.
ReadShapes ==
    /\ cover \in Seq(Cover)
    /\ merge \in [version : 0..MaxGraphs, inputs : SUBSET Inputs, published : BOOLEAN]

\* What a caller's hit relies on: its snapshot is one of the source, and its pack version
\* pins that snapshot, inside the token, until the source is purged, which a valid pack
\* version forbids.
HeldIsPinned ==
    held # NoHit =>
        /\ held.source \in Sources /\ held.source \in held.token
        /\ held.snapshot \in Nat \ {0}
        /\ stored[held.source].life # "gone" => held.snapshot <= stored[held.source].current
        /\ held.pack \in 0..Len(cover)
        /\ held.pack # 0 =>
             LET c == cover[held.pack] IN
             /\ DOMAIN c.of \subseteq held.token
             /\ stored[held.source].life # "gone" =>
                  held.source \in DOMAIN c.of /\ c.of[held.source] = held.snapshot
             /\ c.valid => stored[held.source].life # "gone"

\* A pack version pins snapshots its sources still have: a purge takes the source out.
PinsAreIndexed ==
    \A v \in 1..Len(cover) : \A r \in DOMAIN cover[v].of :
        stored[r].life # "gone" /\ cover[v].of[r] <= stored[r].current

\* The inductive invariant of RuntimeReads: a held hit is still the text its reader was
\* shown, for as long as its source is not purged.
ReadIInv == RuntimeTypeOK /\ ReadShapes /\ PinsAreIndexed /\ HeldIsPinned

\* What it is to be the pins of a pack version.
LEMMA PinsFacts ==
  \A f : f \in PinSets <=> f \in [DOMAIN f -> 1..Len(FileText)] /\ DOMAIN f \subseteq Sources
BY DEF PinSets

\* A server with nothing indexed, covered, drawn or held.
LEMMA ReadInitially == ServerInit => ReadIInv
<1>1. Len(FileText) \in Nat /\ MaxPacks \in Nat /\ MaxGraphs \in Nat
  BY ReadsConstants
<1>2. Len(<<>>) = 0 /\ <<>> \in Seq(Cover)
  OBVIOUS
<1> QED BY <1>1, <1>2 DEF ServerInit, ReadIInv, RuntimeTypeOK, ReadShapes, PinsAreIndexed, HeldIsPinned, NoGraph

\* A step that leaves packs, merges and the caller alone, and of which no source is gone
\* or loses its snapshots.
LEMMA SourceStep ==
  ASSUME ReadIInv, UNCHANGED <<cover, merge, held>>, RuntimeTypeOK',
         \A r \in Sources : /\ stored'[r].life = "gone" <=> stored[r].life = "gone"
                            /\ stored'[r].current >= stored[r].current
  PROVE  ReadIInv'
<1> USE DEF ReadIInv
<1>1. \A r \in Sources : stored[r].current \in Nat /\ stored'[r].current \in Nat
  BY ReadsConstants DEF RuntimeTypeOK
<1>2. ReadShapes'
  BY DEF ReadShapes
<1>3. HeldIsPinned'
  BY <1>1 DEF HeldIsPinned
<1>4. PinsAreIndexed'
  <2> SUFFICES ASSUME NEW v \in 1..Len(cover), NEW r \in DOMAIN cover[v].of
               PROVE  stored'[r].life # "gone" /\ cover[v].of[r] <= stored'[r].current
    BY DEF PinsAreIndexed
  <2>1. cover[v].of \in PinSets
    <3>1. cover[v] \in Cover
      BY DEF ReadShapes
    <3> QED BY <3>1 DEF Cover
  <2>2. r \in Sources /\ cover[v].of[r] \in Nat
    BY <2>1, PinsFacts, ReadsConstants
  <2> QED BY <1>1, <2>2 DEF PinsAreIndexed
<1> QED BY <1>2, <1>3, <1>4

\* Indexing a source, archiving, deleting and restoring it leave every snapshot stored
\* before as it was.
LEMMA SourceSteps ==
  ASSUME ReadIInv, NEW r \in Sources,
         IndexSource(r) \/ ArchiveSource(r) \/ DeleteSource(r) \/ RestoreSource(r)
  PROVE  ReadIInv'
<1> USE DEF ReadIInv
<1>0. Len(FileText) \in Nat
  BY ReadsConstants
<1>1. /\ UNCHANGED <<cover, graph, merge, held>>
  BY DEF IndexSource, ArchiveSource, DeleteSource, RestoreSource, SetLife
<1>2. CASE IndexSource(r)
  <2>1. stored' \in [Sources -> [life : {"live", "archived", "deleted", "gone"}, current : 0..Len(FileText)]]
    BY <1>0, <1>2 DEF IndexSource, RuntimeTypeOK
  <2>2. /\ \A x \in Sources : x # r => stored'[x] = stored[x]
        /\ stored'[r].life = stored[r].life /\ stored'[r].current = stored[r].current + 1
        /\ \A x \in Sources : stored[x].current \in Nat
    BY <1>0, <1>2 DEF IndexSource, RuntimeTypeOK
  <2>3. RuntimeTypeOK'
    BY <1>1, <2>1 DEF RuntimeTypeOK
  <2>4. \A x \in Sources : /\ stored'[x].life = "gone" <=> stored[x].life = "gone"
                           /\ stored'[x].current >= stored[x].current
    <3> TAKE x \in Sources
    <3> QED BY <2>2
  <2> QED BY <1>1, <2>3, <2>4, SourceStep
<1>3. CASE ArchiveSource(r) \/ DeleteSource(r) \/ RestoreSource(r)
  <2>1. PICK to \in {"live", "archived", "deleted"} :
           stored' = [stored EXCEPT ![r].life = to] /\ stored[r].life # "gone"
    BY <1>3 DEF ArchiveSource, DeleteSource, RestoreSource, SetLife
  <2>2. /\ stored' \in [Sources -> [life : {"live", "archived", "deleted", "gone"}, current : 0..Len(FileText)]]
        /\ \A x \in Sources : x # r => stored'[x] = stored[x]
        /\ stored'[r].life = to /\ stored'[r].current = stored[r].current
        /\ \A x \in Sources : stored[x].current \in Nat
    BY <1>0, <2>1 DEF RuntimeTypeOK
  <2>3. RuntimeTypeOK'
    BY <1>1, <2>2 DEF RuntimeTypeOK
  <2>4. \A x \in Sources : /\ stored'[x].life = "gone" <=> stored[x].life = "gone"
                           /\ stored'[x].current >= stored[x].current
    <3> TAKE x \in Sources
    <3> QED BY <2>1, <2>2
  <2> QED BY <1>1, <2>3, <2>4, SourceStep
<1> QED BY <1>2, <1>3

\* A purge drops the source's snapshots and what invalid pack versions pin of it: a valid
\* version or a retained graph holds it back.
LEMMA PurgeStoredStep ==
  ASSUME ReadIInv, NEW r \in Sources, PurgeStored(r)
  PROVE  ReadIInv'
<1> USE DEF ReadIInv
<1> DEFINE Without(f) == [s \in (DOMAIN f) \ {r} |-> f[s]]
<1>0. Len(FileText) \in Nat
  BY ReadsConstants
<1>1. /\ stored[r].life = "deleted" /\ ~HeldBack(r)
      /\ stored' = [stored EXCEPT ![r] = [life |-> "gone", current |-> 0]]
      /\ cover' = [v \in DOMAIN cover |-> [cover[v] EXCEPT !.of = Without(cover[v].of)]]
      /\ UNCHANGED <<graph, merge, held>>
  BY DEF PurgeStored
<1>2. /\ stored' \in [Sources -> [life : {"live", "archived", "deleted", "gone"}, current : 0..Len(FileText)]]
      /\ stored'[r].life = "gone" /\ \A x \in Sources : x # r => stored'[x] = stored[x]
  BY <1>0, <1>1 DEF RuntimeTypeOK
<1>3. \A f \in PinSets : Without(f) \in PinSets
  BY PinsFacts
<1>4. \A f : DOMAIN Without(f) = (DOMAIN f) \ {r} /\ \A s \in (DOMAIN f) \ {r} : Without(f)[s] = f[s]
  OBVIOUS
<1> HIDE DEF Without
<1>5. cover \in Seq(Cover) /\ DOMAIN cover = 1..Len(cover) /\ Len(cover) \in Nat
  BY DEF ReadShapes
<1>6. \A v \in 1..Len(cover) : /\ [cover[v] EXCEPT !.of = Without(cover[v].of)] \in Cover
                               /\ [cover[v] EXCEPT !.of = Without(cover[v].of)].of = Without(cover[v].of)
                               /\ [cover[v] EXCEPT !.of = Without(cover[v].of)].valid = cover[v].valid
  <2> TAKE v \in 1..Len(cover)
  <2>1. cover[v] \in Cover
    BY <1>5
  <2>2. cover[v].of \in PinSets /\ cover[v].valid \in BOOLEAN
    BY <2>1 DEF Cover
  <2>3. Without(cover[v].of) \in PinSets
    BY <1>3, <2>2
  <2> QED BY <2>1, <2>2, <2>3 DEF Cover
<1>7. cover' \in [1..Len(cover) -> Cover]
  BY <1>1, <1>5, <1>6
<1>8. cover' \in Seq(Cover) /\ Len(cover') = Len(cover)
  BY <1>5, <1>7
<1>9. \A v \in 1..Len(cover) : cover'[v].of = Without(cover[v].of) /\ cover'[v].valid = cover[v].valid
  BY <1>1, <1>5, <1>6
<1>10. RuntimeTypeOK' /\ ReadShapes'
  BY <1>1, <1>2, <1>8 DEF RuntimeTypeOK, ReadShapes
<1>11. HeldIsPinned'
  <2> SUFFICES ASSUME held # NoHit
               PROVE  HeldIsPinned'
    BY <1>1 DEF HeldIsPinned
  <2>1. CASE held.pack = 0
    BY <1>1, <1>2, <1>8, <2>1 DEF HeldIsPinned
  <2>2. CASE held.pack # 0
    <3>1. held.pack \in 1..Len(cover) /\ cover'[held.pack].of = Without(cover[held.pack].of)
          /\ cover'[held.pack].valid = cover[held.pack].valid
      BY <1>5, <1>9, <2>2 DEF HeldIsPinned
    <3>2. cover[held.pack].valid /\ held.source = r => FALSE
      BY <1>1, <1>5, <2>2, <3>1 DEF HeldIsPinned, HeldBack
    <3>3. held.source \in Sources /\ held.source # r => stored'[held.source] = stored[held.source]
      BY <1>2
    <3>4. DOMAIN cover'[held.pack].of \subseteq held.token
      BY <1>4, <2>2, <3>1 DEF HeldIsPinned
    <3>5. stored'[held.source].life # "gone" =>
             /\ held.source \in DOMAIN cover'[held.pack].of
             /\ cover'[held.pack].of[held.source] = held.snapshot
             /\ held.snapshot <= stored'[held.source].current
      <4> SUFFICES ASSUME stored'[held.source].life # "gone"
                   PROVE  /\ held.source \in DOMAIN cover'[held.pack].of
                          /\ cover'[held.pack].of[held.source] = held.snapshot
                          /\ held.snapshot <= stored'[held.source].current
        OBVIOUS
      <4>1. held.source # r
        BY <1>2
      <4>2. stored'[held.source] = stored[held.source] /\ stored[held.source].life # "gone"
        BY <3>3, <4>1 DEF HeldIsPinned
      <4>3. /\ held.source \in DOMAIN cover[held.pack].of
            /\ cover[held.pack].of[held.source] = held.snapshot
            /\ held.snapshot <= stored[held.source].current
        BY <2>2, <4>2 DEF HeldIsPinned
      <4>4. held.source \in (DOMAIN cover[held.pack].of) \ {r}
        BY <4>1, <4>3
      <4>5. /\ held.source \in DOMAIN Without(cover[held.pack].of)
            /\ Without(cover[held.pack].of)[held.source] = cover[held.pack].of[held.source]
        BY <1>4, <4>4
      <4> QED BY <3>1, <4>2, <4>3, <4>5
    <3>6. cover'[held.pack].valid => stored'[held.source].life # "gone"
      BY <2>2, <3>1, <3>2, <3>3 DEF HeldIsPinned
    <3>7. held.pack \in 0..Len(cover')
      BY <1>8 DEF HeldIsPinned
    <3> QED BY <1>1, <3>4, <3>5, <3>6, <3>7 DEF HeldIsPinned
  <2> QED BY <2>1, <2>2
<1>12. PinsAreIndexed'
  <2> SUFFICES ASSUME NEW v \in 1..Len(cover'), NEW s \in DOMAIN cover'[v].of
               PROVE  stored'[s].life # "gone" /\ cover'[v].of[s] <= stored'[s].current
    BY DEF PinsAreIndexed
  <2>1. v \in 1..Len(cover) /\ cover'[v].of = Without(cover[v].of)
    BY <1>8, <1>9
  <2>2. s \in DOMAIN cover[v].of /\ s # r /\ cover'[v].of[s] = cover[v].of[s]
    <3>1. s \in DOMAIN Without(cover[v].of)
      BY <2>1
    <3>2. s \in (DOMAIN cover[v].of) \ {r}
      BY <1>4, <3>1
    <3> QED BY <1>4, <2>1, <3>2
  <2>3. s \in Sources
    <3>1. cover[v] \in Cover
      BY <1>5, <2>1
    <3>2. cover[v].of \in PinSets
      BY <3>1 DEF Cover
    <3> QED BY <2>2, <3>2, PinsFacts
  <2> QED BY <1>2, <2>1, <2>2, <2>3 DEF PinsAreIndexed
<1> QED BY <1>10, <1>11, <1>12

\* A step that leaves the sources and the caller alone, and that neither takes a pack
\* version away nor changes what it covers nor makes it valid again.
LEMMA CoverStep ==
  ASSUME ReadIInv, UNCHANGED <<stored, held>>, RuntimeTypeOK', ReadShapes', PinsAreIndexed',
         Len(cover') >= Len(cover),
         \A v \in 1..Len(cover) : cover'[v].of = cover[v].of /\ (cover'[v].valid => cover[v].valid)
  PROVE  ReadIInv'
<1> SUFFICES ASSUME held # NoHit
             PROVE  HeldIsPinned'
  BY DEF ReadIInv, HeldIsPinned
<1>1. HeldIsPinned /\ Len(cover) \in Nat /\ Len(cover') \in Nat
  BY DEF ReadIInv, ReadShapes
<1>2. held.pack \in 0..Len(cover')
  BY <1>1 DEF HeldIsPinned
<1>3. held.pack # 0 => held.pack \in 1..Len(cover)
  BY <1>1 DEF HeldIsPinned
<1> QED BY <1>1, <1>2, <1>3 DEF HeldIsPinned

\* A new pack version pins the current snapshots of live sources.
LEMMA CoverSourcesStep ==
  ASSUME ReadIInv, NEW rs \in SUBSET Sources, CoverSources(rs)
  PROVE  ReadIInv'
<1> DEFINE c == [of |-> [r \in rs |-> stored[r].current], valid |-> TRUE]
<1>0. Len(FileText) \in Nat /\ MaxPacks \in Nat
  BY ReadsConstants
<1>1. \A r \in rs : stored[r].current \in 1..Len(FileText)
  BY <1>0 DEF CoverSources, ReadIInv, RuntimeTypeOK
<1>2. c.of \in PinSets
  BY <1>1 DEF PinSets
<1>3. c \in Cover
  BY <1>2 DEF Cover
<1>4. cover' = Append(cover, c) /\ Len(cover) < MaxPacks /\ UNCHANGED <<stored, graph, merge, held>>
  BY DEF CoverSources
<1> HIDE DEF c
<1>5. cover \in Seq(Cover)
  BY DEF ReadIInv, ReadShapes
<1>6. /\ cover' \in Seq(Cover) /\ Len(cover') = Len(cover) + 1
      /\ \A v \in 1..Len(cover) : cover'[v] = cover[v]
  BY <1>3, <1>4, <1>5
<1>7. RuntimeTypeOK' /\ ReadShapes'
  BY <1>0, <1>4, <1>5, <1>6 DEF ReadIInv, RuntimeTypeOK, ReadShapes
<1>8. Len(cover') >= Len(cover)
  BY <1>5, <1>6
<1>9. PinsAreIndexed'
  <2> SUFFICES ASSUME NEW v \in 1..Len(cover'), NEW r \in DOMAIN cover'[v].of
               PROVE  stored'[r].life # "gone" /\ cover'[v].of[r] <= stored'[r].current
    BY DEF PinsAreIndexed
  <2>1. Len(cover) \in Nat
    BY <1>5
  <2>2. CASE v \in 1..Len(cover)
    BY <1>4, <1>6, <2>2 DEF ReadIInv, PinsAreIndexed
  <2>3. CASE v = Len(cover) + 1
    <3>1. cover'[v] = c
      BY <1>4, <1>5, <2>3
    <3>2. r \in rs /\ cover'[v].of[r] = stored[r].current
      BY <3>1 DEF c
    <3>3. stored[r].life = "live"
      BY <3>2 DEF CoverSources
    <3> QED BY <1>0, <1>1, <1>4, <3>2, <3>3
  <2> QED BY <1>6, <2>1, <2>2, <2>3
<1> QED BY <1>4, <1>6, <1>7, <1>8, <1>9, CoverStep

\* A pack version that is invalidated keeps its pins.
LEMMA InvalidateCoverStep ==
  ASSUME ReadIInv, NEW v \in DOMAIN cover, InvalidateCover(v)
  PROVE  ReadIInv'
<1>1. cover \in Seq(Cover) /\ DOMAIN cover = 1..Len(cover) /\ Len(cover) \in Nat
  BY DEF ReadIInv, ReadShapes
<1>2. cover[v] \in Cover
  BY <1>1
<1>3. /\ [cover[v] EXCEPT !.valid = FALSE] \in Cover
      /\ [cover[v] EXCEPT !.valid = FALSE].of = cover[v].of
      /\ [cover[v] EXCEPT !.valid = FALSE].valid = FALSE
  BY <1>2 DEF Cover
<1>4. /\ cover' = [cover EXCEPT ![v] = [cover[v] EXCEPT !.valid = FALSE]]
      /\ UNCHANGED <<stored, graph, merge, held>>
  BY DEF InvalidateCover
<1>5. cover' \in Seq(Cover) /\ Len(cover') = Len(cover)
  BY <1>1, <1>3, <1>4
<1>6. \A w \in 1..Len(cover) : cover'[w].of = cover[w].of /\ (cover'[w].valid => cover[w].valid)
  BY <1>1, <1>3, <1>4
<1>7. RuntimeTypeOK' /\ ReadShapes'
  BY <1>4, <1>5 DEF ReadIInv, RuntimeTypeOK, ReadShapes
<1>8. PinsAreIndexed'
  BY <1>1, <1>4, <1>5, <1>6 DEF ReadIInv, PinsAreIndexed
<1>9. Len(cover') >= Len(cover)
  BY <1>1, <1>5
<1> QED BY <1>4, <1>6, <1>7, <1>8, <1>9, CoverStep

\* Drawing or dropping the graph of a source touches no snapshot.
LEMMA GraphStep ==
  ASSUME ReadIInv, NEW r \in Sources, DrawGraph(r) \/ DropGraph(r)
  PROVE  ReadIInv'
<1>0. Len(FileText) \in Nat /\ MaxGraphs \in Nat
  BY ReadsConstants
<1>1. UNCHANGED <<stored, cover, merge, held>>
  BY DEF DrawGraph, DropGraph
<1>2. CASE DrawGraph(r)
  <2>1. stored[r].current \in 0..Len(FileText) /\ graph[r].version + 1 \in 0..MaxGraphs
    BY <1>0, <1>2 DEF DrawGraph, ReadIInv, RuntimeTypeOK
  <2>2. RuntimeTypeOK'
    BY <1>1, <1>2, <2>1 DEF DrawGraph, ReadIInv, RuntimeTypeOK
  <2> QED BY <1>1, <2>2 DEF ReadIInv, ReadShapes, PinsAreIndexed, HeldIsPinned
<1>3. CASE DropGraph(r)
  <2>1. RuntimeTypeOK'
    BY <1>1, <1>3 DEF DropGraph, ReadIInv, RuntimeTypeOK
  <2> QED BY <1>1, <2>1 DEF ReadIInv, ReadShapes, PinsAreIndexed, HeldIsPinned
<1> QED BY <1>2, <1>3

\* Drawing or dropping the merged graph touches no snapshot.
LEMMA MergeStep ==
  ASSUME ReadIInv, DropMerge \/ \E rs \in SUBSET Sources : DrawMerge(rs)
  PROVE  ReadIInv'
<1>0. Len(FileText) \in Nat /\ MaxGraphs \in Nat
  BY ReadsConstants
<1>1. UNCHANGED <<stored, cover, graph, held>>
  BY DEF DrawMerge, DropMerge
<1>2. merge' \in [version : 0..MaxGraphs, inputs : SUBSET Inputs, published : BOOLEAN]
  <2>1. CASE DropMerge
    BY <2>1 DEF DropMerge, ReadIInv, ReadShapes
  <2>2. CASE \E rs \in SUBSET Sources : DrawMerge(rs)
    <3>1. PICK rs \in SUBSET Sources : DrawMerge(rs)
      BY <2>2
    <3>2. \A r \in rs : [of |-> r, version |-> graph[r].version, snapshot |-> graph[r].snapshot] \in Inputs
      BY DEF ReadIInv, RuntimeTypeOK, Inputs
    <3>3. merge.version + 1 \in 0..MaxGraphs
      BY <1>0, <3>1 DEF DrawMerge, ReadIInv, RuntimeTypeOK
    <3> QED BY <3>1, <3>2, <3>3 DEF DrawMerge
  <2> QED BY <2>1, <2>2
<1>3. RuntimeTypeOK' /\ ReadShapes'
  BY <1>1, <1>2 DEF ReadIInv, RuntimeTypeOK, ReadShapes
<1> QED BY <1>1, <1>3 DEF ReadIInv, PinsAreIndexed, HeldIsPinned

\* What a search finds is of a live source the token may read, of a snapshot the source
\* has, and, asked through a pack version, of the snapshot that version pins.
LEMMA HitsFacts ==
  ASSUME ReadIInv, NEW token \in Tokens, NEW queried \in Tokens, NEW v \in PackRefs,
         NEW h \in Hits(token, queried, v)
  PROVE  /\ h.source \in token /\ h.pack = v /\ h.snapshot \in 1..Len(FileText)
         /\ stored[h.source].life = "live"
         /\ v = 0 => h.snapshot <= stored[h.source].current
         /\ v # 0 => /\ DOMAIN cover[v].of \subseteq token
                     /\ h.source \in DOMAIN cover[v].of /\ h.snapshot = cover[v].of[h.source]
<1>0. Len(FileText) \in Nat
  BY ReadsConstants
<1>1. PICK s \in Scope(token, queried, v) :
         /\ stored[s[1]].life = "live"
         /\ h = [source |-> s[1], snapshot |-> s[2], pack |-> v]
  BY DEF Hits
<1>2. h.source = s[1] /\ h.snapshot = s[2] /\ h.pack = v
  BY <1>1
<1>3. CASE v = 0
  <2>1. PICK r \in token : s \in {r} \X Snapshots(r)
    BY <1>3 DEF Scope
  <2>2. s[1] = r /\ s[2] \in 1..stored[r].current
    BY <2>1 DEF Snapshots
  <2>3. stored[r].current \in 0..Len(FileText)
    BY DEF Tokens, ReadIInv, RuntimeTypeOK
  <2>4. s[2] \in 1..Len(FileText) /\ s[2] <= stored[r].current
    BY <1>0, <2>2, <2>3
  <2> QED BY <1>1, <1>2, <1>3, <2>2, <2>4
<1>4. CASE v # 0
  <2>1. PICK p \in PackOf(token, v) : \E r \in DOMAIN p.of : s = <<r, p.of[r]>>
    BY <1>4 DEF Scope
  <2>2. PICK r \in DOMAIN p.of : s = <<r, p.of[r]>>
    BY <2>1
  <2>3. p = cover[v] /\ DOMAIN p.of \subseteq token
    BY <2>1 DEF PackOf
  <2>4. v \in 1..Len(cover) /\ cover \in Seq(Cover)
    BY <1>4 DEF PackRefs, ReadIInv, ReadShapes
  <2>5. cover[v].of \in PinSets
    <3>1. cover[v] \in Cover
      BY <2>4
    <3> QED BY <3>1 DEF Cover
  <2>6. cover[v].of[r] \in 1..Len(FileText)
    BY <2>2, <2>3, <2>5, PinsFacts
  <2> QED BY <1>1, <1>2, <1>4, <2>2, <2>3, <2>6
<1> QED BY <1>3, <1>4

\* A hit is of the current snapshot of a source, or of the snapshot that a valid pack
\* version pins.
LEMMA TakeHitStep ==
  ASSUME ReadIInv, NEW token \in Tokens, NEW queried \in Tokens, NEW v \in PackRefs,
         TakeHit(token, queried, v)
  PROVE  ReadIInv'
<1>1. PICK h \in Hits(token, queried, v) :
         held' = [source |-> h.source, snapshot |-> h.snapshot, pack |-> h.pack, token |-> token]
  BY DEF TakeHit
<1>2. UNCHANGED <<stored, cover, graph, merge>>
  BY DEF TakeHit
<1>3. /\ h.source \in token /\ h.pack = v /\ h.snapshot \in 1..Len(FileText)
      /\ stored[h.source].life = "live"
      /\ v = 0 => h.snapshot <= stored[h.source].current
      /\ v # 0 => /\ DOMAIN cover[v].of \subseteq token
                  /\ h.source \in DOMAIN cover[v].of /\ h.snapshot = cover[v].of[h.source]
  BY HitsFacts
<1>4. v \in 0..Len(cover) /\ (v # 0 => v \in 1..Len(cover))
  BY DEF PackRefs, ReadIInv, ReadShapes
<1>5. h.snapshot <= stored[h.source].current
  BY <1>3, <1>4 DEF ReadIInv, PinsAreIndexed
<1>6. h.snapshot \in Nat \ {0} /\ h.source \in Sources
  BY <1>3, ReadsConstants, SMTT(30) DEF Tokens
<1>7. /\ held'.source = h.source /\ held'.snapshot = h.snapshot
      /\ held'.pack = v /\ held'.token = token
  BY <1>1, <1>3
<1>8. HeldIsPinned'
  BY <1>2, <1>3, <1>4, <1>5, <1>6, <1>7 DEF HeldIsPinned
<1> QED BY <1>2, <1>8 DEF ReadIInv, RuntimeTypeOK, ReadShapes, PinsAreIndexed

\* The inductive invariant holds in every state of the runtime tools, for any sources,
\* tokens, texts and bounds.
THEOREM ReadInvariance == ServerSpec => []ReadIInv
<1>1. ReadIInv /\ [ServerNext]_readVars => ReadIInv'
  <2> SUFFICES ASSUME ReadIInv, [ServerNext]_readVars
               PROVE  ReadIInv'
    OBVIOUS
  <2>1. ASSUME NEW r \in Sources,
               \/ IndexSource(r) \/ ArchiveSource(r) \/ DeleteSource(r) \/ RestoreSource(r)
               \/ PurgeStored(r) \/ DrawGraph(r) \/ DropGraph(r)
        PROVE  ReadIInv'
    BY <2>1, SourceSteps, PurgeStoredStep, GraphStep
  <2>2. ASSUME NEW rs \in SUBSET Sources, CoverSources(rs) \/ DrawMerge(rs)
        PROVE  ReadIInv'
    BY <2>2, CoverSourcesStep, MergeStep
  <2>3. ASSUME NEW v \in DOMAIN cover, InvalidateCover(v)
        PROVE  ReadIInv'
    BY <2>3, InvalidateCoverStep
  <2>4. CASE DropMerge
    BY <2>4, MergeStep
  <2>5. ASSUME NEW token \in Tokens, NEW queried \in Tokens, NEW v \in PackRefs,
               TakeHit(token, queried, v)
        PROVE  ReadIInv'
    BY <2>5, TakeHitStep
  <2>6. CASE UNCHANGED readVars
    BY <2>6 DEF readVars, ReadIInv, RuntimeTypeOK, ReadShapes, PinsAreIndexed, HeldIsPinned
  <2> QED BY <2>1, <2>2, <2>3, <2>4, <2>5, <2>6 DEF ServerNext
<1> QED BY <1>1, ReadInitially, PTL DEF ServerSpec

\* read_section of a held hit answers from the snapshot search found it in, until the source
\* is purged; a valid pack version keeps it from that.
LEMMA HeldIsAnswered == ReadIInv => EvidenceStays
<1> SUFFICES ASSUME ReadIInv, held # NoHit, held.source \in Filed,
                    NEW answer, answer = ReadSection(held.token, held.source, SectionOf(held))
             PROVE  /\ \A a \in answer :
                          /\ a.snapshot = held.snapshot
                          /\ a.freshness = "current" => held.snapshot = stored[held.source].current
                    /\ stored[held.source].life # "gone" => answer # {}
                    /\ held.pack # 0 /\ cover[held.pack].valid => answer # {}
  BY DEF EvidenceStays
<1> DEFINE call == SectionOf(held)
           n == held.snapshot
           r == held.source
<1>1. /\ call.citation = 0 /\ call.section = n /\ call.snapshot = n /\ call.pack = held.pack
      /\ call.fallback = FALSE
  BY DEF SectionOf, Plainly
<1>2. /\ r \in Sources /\ r \in held.token /\ n \in Nat \ {0}
      /\ stored[r].life # "gone" => n <= stored[r].current
      /\ held.pack \in 0..Len(cover)
      /\ held.pack # 0 =>
            /\ DOMAIN cover[held.pack].of \subseteq held.token
            /\ stored[r].life # "gone" =>
                 r \in DOMAIN cover[held.pack].of /\ cover[held.pack].of[r] = n
            /\ cover[held.pack].valid => stored[r].life # "gone"
  BY DEF ReadIInv, HeldIsPinned
<1> HIDE DEF call
<1>3. Located(r, call) = Files(r) \cap {n}
  BY <1>1, <1>2 DEF Located
<1>4. answer = {[source |-> r, snapshot |-> m, freshness |-> Freshness(r, m)] :
                  m \in {m \in Located(r, call) :
                           /\ r \in held.token
                           /\ call.pack # 0 =>
                                \E p \in PackOf(held.token, call.pack) :
                                   r \in DOMAIN p.of /\ p.of[r] = m}}
  BY DEF ReadSection, call
<1>5. ASSUME NEW a \in answer
      PROVE  a.snapshot = n /\ (a.freshness = "current" => n = stored[r].current)
  <2>1. a = [source |-> r, snapshot |-> n, freshness |-> Freshness(r, n)]
    BY <1>3, <1>4
  <2>2. a.snapshot = n /\ a.freshness = Freshness(r, n)
    BY <2>1
  <2> QED BY <2>2 DEF Freshness
<1>6. ASSUME stored[r].life # "gone"
      PROVE  answer # {}
  <2>1. stored[r].current \in Nat
    BY <1>2, ReadsConstants DEF ReadIInv, RuntimeTypeOK
  <2>2. n \in Files(r)
    BY <1>2, <1>6, <2>1 DEF Files, Snapshots
  <2>3. n \in Located(r, call)
    BY <1>3, <2>2
  <2>4. held.pack # 0 =>
          \E p \in PackOf(held.token, held.pack) : r \in DOMAIN p.of /\ p.of[r] = n
    <3> SUFFICES ASSUME held.pack # 0
                 PROVE  \E p \in PackOf(held.token, held.pack) : r \in DOMAIN p.of /\ p.of[r] = n
      OBVIOUS
    <3>1. cover[held.pack] \in PackOf(held.token, held.pack)
      BY <1>2 DEF PackOf
    <3> QED BY <1>2, <1>6, <3>1
  <2>5. [source |-> r, snapshot |-> n, freshness |-> Freshness(r, n)] \in answer
    BY <1>1, <1>2, <1>4, <2>3, <2>4
  <2> QED BY <2>5
<1> QED BY <1>2, <1>5, <1>6

\* A hit taken through a pack version is of a snapshot that version covers.
LEMMA PackHitsArePinned == ReadIInv => PacksPin
<1> SUFFICES ASSUME ReadIInv, NEW token \in Tokens, NEW queried \in Tokens,
                    NEW v \in PackRefs \ {0}, NEW h \in Hits(token, queried, v)
             PROVE  h.source \in DOMAIN cover[v].of /\ h.snapshot = cover[v].of[h.source]
  BY DEF PacksPin
<1> QED BY HitsFacts

\* A query without a version is answered from what the inventory lists as current and
\* refused what it lists as stale, and the overview shows no merge that the inventory hides.
LEMMA GraphToolsAgree == ReadIInv => ListedIsServed
<1> SUFFICES ASSUME ReadIInv, NEW token \in Tokens
             PROVE  /\ \A g \in ListedGraphs(token) :
                          TargetGraph(token, g.of, 0) = (IF g.freshness = "current" THEN {g.version} ELSE {})
                    /\ \A m \in ListedMerges(token) :
                          TargetMerge(token, 0) = (IF m.freshness = "current" THEN {m.version} ELSE {})
                    /\ \A m \in ShownMerges(token) : m \in {x.version : x \in ListedMerges(token)}
  BY DEF ListedIsServed
<1>1. ASSUME NEW g \in ListedGraphs(token)
      PROVE  TargetGraph(token, g.of, 0) = (IF g.freshness = "current" THEN {g.version} ELSE {})
  <2>1. PICK r \in token :
           /\ graph[r].published
           /\ g = [of |-> r, version |-> graph[r].version,
                   freshness |-> ByFreshness(graph[r].snapshot # stored[r].current)]
    BY DEF ListedGraphs
  <2>2. /\ g.of = r /\ g.version = graph[r].version
        /\ g.freshness = "current" <=> graph[r].snapshot = stored[r].current
    BY <2>1 DEF ByFreshness
  <2>3. TargetGraph(token, r, 0) = {graph[s].version : s \in {s \in {r} : graph[s].snapshot = stored[s].current}}
    BY <2>1 DEF TargetGraph
  <2> QED BY <2>2, <2>3
<1>2. ASSUME NEW m \in ListedMerges(token)
      PROVE  TargetMerge(token, 0) = (IF m.freshness = "current" THEN {m.version} ELSE {})
  <2>1. /\ merge.version # 0 /\ InputsOf \subseteq token
        /\ m = [version |-> merge.version, freshness |-> ByFreshness(MergeIsStale)]
    BY DEF ListedMerges
  <2>2. m.version = merge.version /\ (m.freshness = "current" <=> ~MergeIsStale)
    BY <2>1 DEF ByFreshness
  <2>3. TargetMerge(token, 0) = {x.version : x \in {x \in {merge} : ~MergeIsStale}}
    BY <2>1 DEF TargetMerge
  <2> QED BY <2>2, <2>3
<1>3. ASSUME NEW m \in ShownMerges(token)
      PROVE  m \in {x.version : x \in ListedMerges(token)}
  <2>1. merge.version # 0 /\ InputsOf \subseteq token /\ m = merge.version
    BY DEF ShownMerges
  <2>2. [version |-> merge.version, freshness |-> ByFreshness(MergeIsStale)] \in ListedMerges(token)
    BY <2>1 DEF ListedMerges
  <2> QED BY <2>1, <2>2
<1> QED BY <1>1, <1>2, <1>3

\* Whatever is indexed, archived, deleted, restored, purged, covered and drawn meanwhile,
\* what a caller found stays readable as it was found, packs pin, and the tools agree about
\* graphs: for any sources, tokens, texts and bounds.
THEOREM EvidenceIsHeld == ServerSpec => []EvidenceHolds
<1>1. ReadIInv => EvidenceHolds
  BY HeldIsAnswered, PackHitsArePinned, GraphToolsAgree DEF ReadIInv, EvidenceHolds
<1> QED BY <1>1, ReadInvariance, PTL

-----------------------------------------------------------------------------
(* Evaluations *)

\* One question's result: what it cited and which checks failed.
Result == [cited : SUBSET Repos, failures : SUBSET {"citations", "expected", "forbidden", "content"}]

\* A persisted retrieval evaluation.
Evaluation == [by : Scopes, items : Seq(Questions), results : Seq(Result), wide : BOOLEAN,
               ids : SUBSET Repos, diagnosed : SUBSET Repos, passed : BOOLEAN]

\* The types of the evaluation under way and of those persisted, and room for the one under
\* way.
EvalShapes ==
    /\ asking \in [token : Scopes, questions : Seq(Questions), results : Seq(Result)]
    /\ kept \in Seq(Evaluation)
    /\ asking # Idle => Len(kept) < MaxEvals

\* What was authorised when the evaluation began, less the lives of the resources, which
\* may change: every question, and every answer so far, is within the caller's token.
StaysAuthorised ==
    /\ \A i \in DOMAIN asking.questions :
         /\ Effective(asking.token, asking.questions[i].asks) # {}
         /\ asking.token # Whole => Referenced(asking.token, asking.questions[i]) \subseteq asking.token
    /\ \A i \in DOMAIN asking.results :
         asking.token # Whole => asking.results[i].cited \subseteq asking.token

\* The inductive invariant of EvalRuns: what was authorised at the start still bounds every
\* answer, and every evaluation persisted is read only by tokens that may.
EvalIInv == EvalTypeOK /\ EvalShapes /\ StaysAuthorised /\ EvaluationsStayPrivate

\* The resource ids persisted with an evaluation are those its questions name or reach and
\* those its answers cite.
LEMMA PersistedFacts ==
  ASSUME NEW e, NEW r
  PROVE  r \in PersistedIds(e) <=>
            \/ \E i \in DOMAIN e.questions : r \in Referenced(e.token, e.questions[i])
            \/ \E i \in DOMAIN e.results : r \in e.results[i].cited
BY DEF PersistedIds

\* What a reader of an evaluation is told: diagnostics, expectations, citations and the
\* scope of each question.
LEMMA ToldFacts ==
  ASSUME NEW e, NEW r \in Told(e)
  PROVE  \/ r \in e.diagnosed
         \/ \E i \in DOMAIN e.items : r \in e.items[i].expects \cup e.items[i].forbids
         \/ \E i \in DOMAIN e.items :
                r \in e.results[i].cited \cup Ids(ScopeOf(e.by, e.items[i]))
BY DEF Told

\* Diagnostics name resources of the questions' scopes, or any resource when one of the
\* questions reaches the workspace.
LEMMA DiagnosedFacts ==
  ASSUME NEW e, NEW r \in Diagnosed(e)
  PROVE  \/ (\E i \in DOMAIN e.questions : ScopeOf(e.token, e.questions[i]) = Whole) /\ r \in Repos
         \/ \E i \in DOMAIN e.questions : r \in ScopeOf(e.token, e.questions[i])
BY DEF Diagnosed

\* Before the first evaluation nothing is kept.
LEMMA EvalInitially == EvalInit => EvalIInv
<1> SUFFICES ASSUME EvalInit PROVE EvalIInv
  OBVIOUS
<1>1. lives = [r \in Repos |-> "live"] /\ kept = <<>> /\ asking = Idle
  BY DEF EvalInit
<1>2. /\ Len(<<>>) = 0 /\ DOMAIN <<>> = {} /\ <<>> \in Seq(Questions) /\ <<>> \in Seq(Result)
      /\ <<>> \in Seq(Evaluation) /\ MaxEvals \in Nat /\ Whole \in Scopes
  BY EvalConstants DEF Scopes
<1> QED BY <1>1, <1>2 DEF EvalIInv, EvalTypeOK, EvalShapes, StaysAuthorised, EvaluationsStayPrivate, Idle

\* The scope a question is asked in is within the token's, so a token of some resources
\* never reaches the workspace.
LEMMA ScopeFacts ==
  ASSUME NEW token \in Scopes, NEW q \in Questions, Effective(token, q.asks) # {}
  PROVE  /\ ScopeOf(token, q) \in Scopes
         /\ token # Whole => ScopeOf(token, q) # Whole /\ ScopeOf(token, q) \subseteq token
         /\ Ids(ScopeOf(token, q)) \subseteq Repos
<1>1. ScopeOf(token, q) \in Effective(token, q.asks)
  BY DEF ScopeOf
<1>2. q.asks \in Scopes
  BY EvalConstants
<1>3. ScopeOf(token, q) \in Scopes
  BY <1>1, <1>2 DEF Effective
<1>4. ASSUME token # Whole PROVE ScopeOf(token, q) # Whole /\ ScopeOf(token, q) \subseteq token
  BY <1>1, <1>4 DEF Effective, Allows
<1>5. Ids(ScopeOf(token, q)) \subseteq Repos
  <2>1. CASE ScopeOf(token, q) = Whole
    BY <2>1 DEF Ids
  <2>2. CASE ScopeOf(token, q) # Whole
    BY <1>3, <2>2 DEF Ids, Scopes
  <2> QED BY <2>1, <2>2
<1> QED BY <1>3, <1>4, <1>5

\* _authorize_eval_request admits an evaluation whose every question, expectations included,
\* is within the token.
LEMMA BeginEvalStep ==
  ASSUME EvalIInv, NEW token \in Scopes, NEW n \in 1..MaxQuestions, NEW qs \in [1..n -> Questions],
         BeginEval(token, qs)
  PROVE  EvalIInv'
<1> USE DEF EvalIInv
<1>1. /\ asking' = [token |-> token, questions |-> qs, results |-> <<>>]
      /\ UNCHANGED <<lives, kept>> /\ Authorised(token, qs)
  BY DEF BeginEval
<1>2. qs \in Seq(Questions) /\ DOMAIN qs = 1..n /\ Len(qs) \in Nat /\ <<>> \in Seq(Result) /\ Len(<<>>) = 0
  BY EvalConstants
<1>3. EvalTypeOK' /\ EvalShapes'
  BY <1>1, <1>2 DEF EvalTypeOK, EvalShapes, BeginEval
<1>4. ASSUME NEW i \in DOMAIN qs, token # Whole PROVE Referenced(token, qs[i]) \subseteq token
  BY <1>1, <1>4 DEF Authorised, Allows
<1>5. StaysAuthorised'
  BY <1>1, <1>4 DEF StaysAuthorised, Authorised
<1>6. EvaluationsStayPrivate'
  BY <1>1 DEF EvaluationsStayPrivate
<1> QED BY <1>3, <1>5, <1>6

\* A question is answered from its own scope while resources are archived and deleted.
LEMMA AskQuestionStep ==
  ASSUME EvalIInv, NEW cited \in SUBSET Repos, NEW n, NEW matched, AskQuestion(cited, n, matched)
  PROVE  EvalIInv'
<1> USE DEF EvalIInv
<1> DEFINE k == Len(asking.results) + 1
           q == asking.questions[k]
           result == [cited |-> cited, failures |-> Failures(q, cited, n, matched)]
<1>1. /\ asking.questions \in Seq(Questions) /\ asking.results \in Seq(Result) /\ asking.token \in Scopes
      /\ Len(asking.results) < Len(asking.questions)
      /\ cited \subseteq Citable(ScopeOf(asking.token, q))
      /\ asking' = [asking EXCEPT !.results = Append(asking.results, result)]
      /\ UNCHANGED <<lives, kept>>
  BY DEF AskQuestion, EvalShapes
<1>2. k \in DOMAIN asking.questions /\ q \in Questions
  BY <1>1
<1>3. result \in Result /\ result.cited = cited
  BY DEF Result, Failures
<1> HIDE DEF result
<1>a. Append(asking.results, result) \in Seq(Result)
  BY <1>1, <1>3
<1>4. /\ asking'.token = asking.token /\ asking'.questions = asking.questions
      /\ asking'.results = Append(asking.results, result)
      /\ asking' \in [token : Scopes, questions : Seq(Questions), results : Seq(Result)]
  BY <1>1, <1>a DEF EvalShapes
<1>5. /\ Len(asking'.results) = k /\ DOMAIN asking'.results = 1..k
      /\ asking'.results[k] = result
      /\ \A i \in 1..(k - 1) : asking'.results[i] = asking.results[i]
  BY <1>1, <1>3, <1>4
<1>b. asking # Idle
  BY <1>1 DEF Idle
<1>6. EvalTypeOK' /\ EvalShapes'
  BY <1>1, <1>4, <1>5, <1>b DEF EvalTypeOK, EvalShapes
<1>7. asking.token # Whole => cited \subseteq asking.token
  BY <1>1, <1>2, ScopeFacts DEF StaysAuthorised, Citable
<1>8. StaysAuthorised'
  BY <1>1, <1>3, <1>4, <1>5, <1>7 DEF StaysAuthorised
<1>9. EvaluationsStayPrivate'
  BY <1>1 DEF EvaluationsStayPrivate
<1> QED BY <1>6, <1>8, <1>9

\* What is persisted is readable to the token that asked, and to no token of fewer resources
\* than it tells of.
LEMMA PersistStep ==
  ASSUME EvalIInv, Persist
  PROVE  EvalIInv'
<1> USE DEF EvalIInv
<1> DEFINE e == [by |-> asking.token, items |-> asking.questions, results |-> asking.results,
                 wide |-> Wide(asking.token, asking.questions), ids |-> PersistedIds(asking),
                 diagnosed |-> Diagnosed(asking),
                 passed |-> \A i \in DOMAIN asking.results : asking.results[i].failures = {}]
           D == DOMAIN asking.questions
<1>1. /\ asking.questions \in Seq(Questions) /\ asking.results \in Seq(Result) /\ asking.token \in Scopes
      /\ Len(asking.results) = Len(asking.questions)
      /\ kept' = Append(kept, e) /\ asking' = Idle /\ UNCHANGED lives
  BY DEF Persist, EvalShapes
<1>2. DOMAIN asking.results = D /\ \A i \in D : asking.questions[i] \in Questions /\ asking.results[i] \in Result
  BY <1>1
<1>3. \A i \in D : LET s == ScopeOf(asking.token, asking.questions[i]) IN
         /\ s \in Scopes /\ Ids(s) \subseteq Repos
         /\ asking.token # Whole => s # Whole /\ s \subseteq asking.token
  BY <1>1, <1>2, ScopeFacts DEF StaysAuthorised
<1>4. \A i \in D : Referenced(asking.token, asking.questions[i]) \subseteq Repos
  BY <1>2, <1>3, EvalConstants DEF Referenced
<1>5. PersistedIds(asking) \subseteq Repos
  <2> SUFFICES ASSUME NEW r \in PersistedIds(asking) PROVE r \in Repos
    OBVIOUS
  <2>1. \A i \in D : asking.results[i].cited \subseteq Repos
    BY <1>2 DEF Result
  <2> QED BY <1>2, <1>4, <2>1, PersistedFacts
<1>6. Diagnosed(asking) \subseteq Repos
  <2> SUFFICES ASSUME NEW r \in Diagnosed(asking), r \notin Repos PROVE FALSE
    OBVIOUS
  <2>1. PICK i \in D : r \in ScopeOf(asking.token, asking.questions[i])
    BY DiagnosedFacts
  <2>2. ScopeOf(asking.token, asking.questions[i]) # Whole
    BY DEF Diagnosed
  <2> QED BY <1>3, <2>1, <2>2 DEF Scopes
<1>7. e \in Evaluation
  BY <1>1, <1>5, <1>6 DEF Evaluation, Wide
<1>8. /\ e.by = asking.token /\ e.items = asking.questions /\ e.results = asking.results
      /\ e.wide = Wide(asking.token, asking.questions) /\ e.ids = PersistedIds(asking)
      /\ e.diagnosed = Diagnosed(asking)
  OBVIOUS
<1> HIDE DEF e
<1>9. Reads(e.by, e)
  <2>1. CASE asking.token = Whole
    BY <1>8, <2>1 DEF Reads
  <2>2. CASE asking.token # Whole
    <3>1. ~Wide(asking.token, asking.questions)
      BY <1>3, <2>2 DEF Wide
    <3>2. PersistedIds(asking) \subseteq asking.token
      BY <1>2, <2>2, PersistedFacts DEF StaysAuthorised
    <3> QED BY <1>8, <3>1, <3>2 DEF Reads
  <2> QED BY <2>1, <2>2
<1>10. ~e.wide => Told(e) \subseteq e.ids
  <2> SUFFICES ASSUME ~e.wide, NEW r \in Told(e) PROVE r \in PersistedIds(asking)
    BY <1>8
  <2>1. \A i \in D : Ids(ScopeOf(asking.token, asking.questions[i])) = ScopeOf(asking.token, asking.questions[i])
    BY <1>8 DEF Wide, Ids
  <2>2. \A i \in D : \A x : x \in Referenced(asking.token, asking.questions[i]) => x \in PersistedIds(asking)
    BY PersistedFacts
  <2>3. \A i \in D : \A x : x \in asking.results[i].cited => x \in PersistedIds(asking)
    BY <1>2, PersistedFacts
  <2>5. CASE r \in e.diagnosed
    <3>1. PICK i \in D : r \in ScopeOf(asking.token, asking.questions[i])
      BY <1>8, <2>5, DiagnosedFacts DEF Wide
    <3> QED BY <2>1, <2>2, <3>1 DEF Referenced
  <2>6. CASE \E i \in D : r \in asking.questions[i].expects \cup asking.questions[i].forbids
    BY <2>2, <2>6 DEF Referenced
  <2>7. CASE \E i \in D : r \in asking.results[i].cited \cup Ids(ScopeOf(asking.token, asking.questions[i]))
    BY <2>2, <2>3, <2>7 DEF Referenced
  <2> QED BY <1>2, <1>8, <2>5, <2>6, <2>7, ToldFacts
<1>11. \A token \in SUBSET Repos : Reads(token, e) \/ Lists(token, e) => Told(e) \subseteq token
  BY <1>10, EvalConstants DEF Reads, Lists
<1>12. /\ kept \in Seq(Evaluation) /\ kept' \in Seq(Evaluation) /\ Len(kept') = Len(kept) + 1
       /\ DOMAIN kept' = 1..(Len(kept) + 1)
       /\ kept'[Len(kept) + 1] = e /\ \A i \in 1..Len(kept) : kept'[i] = kept[i]
  BY <1>1, <1>7 DEF EvalShapes
<1>13. EvaluationsStayPrivate'
  <2> SUFFICES ASSUME NEW i \in DOMAIN kept'
               PROVE  /\ Reads(kept'[i].by, kept'[i])
                      /\ \A token \in SUBSET Repos :
                           Reads(token, kept'[i]) \/ Lists(token, kept'[i]) => Told(kept'[i]) \subseteq token
    BY DEF EvaluationsStayPrivate
  <2>1. CASE i = Len(kept) + 1
    BY <1>9, <1>11, <1>12, <2>1
  <2>2. CASE i # Len(kept) + 1
    <3>1. i \in DOMAIN kept /\ kept'[i] = kept[i]
      BY <1>12, <2>2
    <3> QED BY <3>1 DEF EvaluationsStayPrivate
  <2> QED BY <2>1, <2>2
<1>14. EvalTypeOK' /\ EvalShapes' /\ StaysAuthorised'
  <2>1. /\ Idle.token = Whole /\ Idle.questions = <<>> /\ Idle.results = <<>> /\ Whole \in Scopes
        /\ Idle \in [token : Scopes, questions : Seq(Questions), results : Seq(Result)]
        /\ Len(<<>>) = 0 /\ DOMAIN <<>> = {} /\ <<>> \in Seq(Questions)
    BY DEF Idle, Scopes
  <2>2. Len(kept') <= MaxEvals
    BY <1>12, EvalConstants DEF Persist, EvalShapes
  <2> QED BY <1>1, <1>12, <2>1, <2>2 DEF EvalTypeOK, EvalShapes, StaysAuthorised
<1> QED BY <1>13, <1>14

\* The inductive invariant holds in every state of the evaluations, for any repositories,
\* questions and number of evaluations.
THEOREM EvalInvariance == EvalSpec => []EvalIInv
<1>1. EvalIInv /\ [EvalNext]_evalVars => EvalIInv'
  <2> SUFFICES ASSUME EvalIInv, [EvalNext]_evalVars PROVE EvalIInv'
    OBVIOUS
  <2> USE DEF EvalIInv
  <2>1. CASE UNCHANGED <<asking, kept>> /\ lives' \in [Repos -> {"live", "archived", "deleted"}]
    BY <2>1 DEF EvalTypeOK, EvalShapes, StaysAuthorised, EvaluationsStayPrivate
  <2>2. ASSUME NEW r \in Repos, NEW life \in {"live", "archived", "deleted"}, ChangeLife(r, life)
        PROVE  EvalIInv'
    BY <2>1, <2>2 DEF ChangeLife, EvalTypeOK
  <2>3. CASE UNCHANGED evalVars
    BY <2>1, <2>3 DEF evalVars, EvalTypeOK
  <2>4. CASE Abandon
    <3>1. /\ Idle.token = Whole /\ Idle.questions = <<>> /\ Idle.results = <<>> /\ Whole \in Scopes
          /\ Idle \in [token : Scopes, questions : Seq(Questions), results : Seq(Result)]
          /\ Len(<<>>) = 0 /\ DOMAIN <<>> = {} /\ <<>> \in Seq(Questions)
      BY DEF Idle, Scopes
    <3>2. asking' = Idle /\ UNCHANGED <<lives, kept>>
      BY <2>4 DEF Abandon
    <3>3. EvalTypeOK' /\ EvalShapes'
      BY <3>1, <3>2 DEF EvalTypeOK, EvalShapes
    <3>4. StaysAuthorised' /\ EvaluationsStayPrivate'
      BY <3>1, <3>2 DEF StaysAuthorised, EvaluationsStayPrivate
    <3> QED BY <3>3, <3>4
  <2> QED BY <2>2, <2>3, <2>4, BeginEvalStep, AskQuestionStep, PersistStep DEF EvalNext
<1> QED BY <1>1, EvalInitially, PTL DEF EvalSpec

\* A limited token lists or reads an evaluation only when it may read every resource the
\* evaluation tells of, and who ran it can read it, although resources come and go while it
\* runs.
THEOREM EvalsPrivate == EvalSpec => []EvalsArePrivate
<1>1. EvalIInv => EvalsArePrivate
  BY DEF EvalIInv, EvalsArePrivate
<1> QED BY <1>1, EvalInvariance, PTL

-----------------------------------------------------------------------------
(* Accounts *)

\* What a bootstrap leaves, and nothing takes away.
Ready ==
    /\ accounts[Root].known /\ accounts[Root].password /\ accounts[Root].platform
    /\ members[Home][Root] # "none"
    /\ First \in projects[Home]

\* Before the first bootstrap commits nobody is there, nobody serves, and a process that
\* has read the tables has read nothing.
Blank ==
    /\ \A u \in Users : accounts[u] = NoAccount
    /\ \A w \in Workspaces : /\ projects[w] = {}
                             /\ \A u \in Users : members[w][u] = "none"
                             /\ \A p \in Projects, u \in Users : grants[w][p][u] = "none"
    /\ \A c \in Callers : calls[c].op = "idle"
    /\ \A p \in Processes :
         /\ boot[p].pc # "up"
         /\ boot[p].pc = "loaded" =>
              /\ boot[p].row = NoAccount /\ boot[p].role = "none" /\ boot[p].grant = "none"
              /\ ~boot[p].home /\ ~boot[p].project

\* Roles: an elevated one in a project is of an administrator, a grant is of a project
\* that is there, and the administrator's role in the first project is that in Home.
RolesAgree ==
    /\ GrantsFollow
    /\ \A w \in Workspaces, p \in Projects, u \in Users : grants[w][p][u] # "none" => p \in projects[w]
    /\ members[Home][Root] = grants[Home][First][Root]

\* Only the bootstrap makes platform administrators, and a row that is not there has no columns.
AccountsAgree ==
    \A u \in Users : /\ accounts[u].platform => u = Root
                     /\ ~accounts[u].known => accounts[u] = NoAccount

\* A bootstrap read the administrator's two roles at once.
BootsAgree ==
    \A p \in Processes : boot[p].pc = "loaded" => boot[p].role = boot[p].grant

\* The roles a call on a member loaded are those in the tables, or a bootstrap has raised
\* them since.
CopiesHold(call) ==
    \/ /\ call.role = members[call.ws][call.user]
       /\ \A p \in Projects : call.granted[p] = grants[call.ws][p][call.user]
    \/ /\ call.ws = Home /\ call.user = Root
       /\ call.role = "member" /\ call.granted[First] = "member"
       /\ members[Home][Root] = "admin"
       /\ \A p \in Projects \ {First} : call.granted[p] = grants[Home][p][Root]

\* The columns of the member's row that the call read as set are still set.
RowHolds(call) ==
    /\ call.row.known => accounts[call.user].known
    /\ call.row.active => accounts[call.user].active
    /\ call.row.password => accounts[call.user].password
    /\ call.row.platform => accounts[call.user].platform

\* The call does not lower its member.
Keeps(call) ==
    /\ call.want.role # "member" \/ call.role = "member"
    /\ call.want.active # "off"

\* What the count of administrators that can log in is still worth.
CountHolds(call) ==
    call.row = accounts[call.user] =>
        \/ \E v \in LoginAdmins(call.ws) : v # call.user
        \/ call.user \notin LoginAdmins(call.ws)
        \/ Keeps(call)

\* What an open call relies on, whatever other calls have committed since.
CallStands(call) ==
    /\ call.op # "idle" => Ready /\ members[call.ws][call.by] # "none"
    /\ call.op \in {"update", "upsert"} =>
         /\ call.projects \subseteq projects[call.ws]
         /\ (call.ws = Home /\ call.user = Root) =>
               /\ First \in call.projects /\ call.role = call.granted[First]
               /\ call.want.active # "none" => call.role = "admin"

\* What the copies of an open call are worth until another call commits.
CallFresh(call) ==
    /\ call.op = "project" => members[call.ws][call.by] = "admin"
    /\ call.op \in {"update", "upsert"} =>
         /\ call.projects = projects[call.ws]
         /\ CopiesHold(call) /\ RowHolds(call) /\ CountHolds(call)

CallHolds(call) == CallStands(call) /\ (~call.overtaken => CallFresh(call))

\* What every open call relies on.
CallsHold == \A c \in Callers : CallHolds(calls[c])

\* The inductive invariant of Accounts: nothing serves before a bootstrap committed, roles
\* in projects follow roles in workspaces until a call commits that another has overtaken, and
\* the copies a call loaded that none has overtaken, or a bootstrap, are what is there, but
\* for what a bootstrap raised since.
AccountIInv ==
    /\ AccountTypeOK /\ (Ready \/ Blank) /\ (Serving => Ready)
    /\ RolesAgree /\ AccountsAgree /\ BootsAgree /\ CallsHold

\* Empty tables and processes that are down.
LEMMA AccountInitially == AccountInit => AccountIInv
<1> SUFFICES ASSUME AccountInit PROVE AccountIInv
  OBVIOUS
<1>1. NoAccount \in Account /\ NoPayload \in Payload
  BY DEF NoAccount, Account, NoPayload, Payload
<1>2. NoAccountCall \in AccountCall /\ NoAccountCall.op = "idle"
  BY <1>1, AccountConstants DEF NoAccountCall, AccountCall, AccountRoles
<1>3. BootDown.pc = "down" /\ BootDown \in [pc : {"down", "loaded", "up"}, row : Account,
                               role : AccountRoles \cup {"none"},
                               grant : AccountRoles \cup {"none"},
                               home : BOOLEAN, project : BOOLEAN]
  BY <1>1 DEF BootDown
<1>4. AccountTypeOK
  BY <1>1, <1>2, <1>3, AccountConstants DEF AccountInit, AccountTypeOK, Token
<1>5. Blank
  BY <1>2, <1>3 DEF AccountInit, Blank
<1>6. RolesAgree /\ AccountsAgree /\ BootsAgree /\ CallsHold /\ ~Serving
  BY <1>2, <1>3, AccountConstants
     DEF AccountInit, RolesAgree, GrantsFollow, AccountsAgree, BootsAgree, CallsHold, CallHolds, CallStands,
         CallFresh, Serving, NoAccount
<1> QED BY <1>4, <1>5, <1>6 DEF AccountIInv

\* An idle caller holds no copies.
LEMMA NoCallFacts == NoAccountCall \in AccountCall /\ NoAccountCall.op = "idle"
<1>1. NoAccount \in Account /\ NoPayload \in Payload
  BY DEF NoAccount, Account, NoPayload, Payload
<1> QED BY <1>1, AccountConstants DEF NoAccountCall, AccountCall, AccountRoles

\* A call that ends leaves the others as they are.
LEMMA EndFacts ==
  ASSUME AccountTypeOK, NEW c \in Callers, End(c)
  PROVE  /\ calls' \in [Callers -> AccountCall] /\ mixed' = mixed
         /\ \A d \in Callers : calls'[d] = calls[d] \/ calls'[d].op = "idle"
BY NoCallFacts DEF AccountTypeOK, End

\* A call that ends with rows written leaves the others overtaken.
LEMMA OvertakeFacts ==
  ASSUME AccountTypeOK, NEW c \in Callers, Overtake(c)
  PROVE  /\ calls' \in [Callers -> AccountCall] /\ mixed' \in BOOLEAN
         /\ ~mixed' => ~mixed /\ ~calls[c].overtaken
         /\ \A d \in Callers : \/ calls'[d].op = "idle"
                               \/ /\ calls'[d].overtaken
                                  /\ calls'[d] = [calls[d] EXCEPT !.overtaken = TRUE]
<1>1. NoAccountCall \in AccountCall /\ NoAccountCall.op = "idle"
  BY NoCallFacts
<1>2. mixed' \in BOOLEAN /\ (~mixed' => ~mixed /\ ~calls[c].overtaken)
  BY DEF Overtake
<1>3. ASSUME NEW d \in Callers
      PROVE  /\ calls'[d] \in AccountCall
             /\ \/ calls'[d].op = "idle"
                \/ /\ calls'[d].overtaken
                   /\ calls'[d] = [calls[d] EXCEPT !.overtaken = TRUE]
  <2>1. CASE d = c
    <3>1. calls'[d] = NoAccountCall
      BY <2>1 DEF Overtake
    <3> QED BY <1>1, <3>1
  <2>2. CASE d # c
    <3>1. calls[d] \in AccountCall /\ calls'[d] = [calls[d] EXCEPT !.overtaken = calls[d].op # "idle"]
      BY <2>2 DEF Overtake, AccountTypeOK
    <3>2. CASE calls[d].op = "idle"
      <4>1. (calls[d].op # "idle") = FALSE
        BY <3>2
      <4>2. calls'[d] = [calls[d] EXCEPT !.overtaken = FALSE]
        BY <3>1, <4>1
      <4> QED BY <3>1, <3>2, <4>2 DEF AccountCall
    <3>3. CASE calls[d].op # "idle"
      <4>1. (calls[d].op # "idle") = TRUE
        BY <3>3
      <4>2. calls'[d] = [calls[d] EXCEPT !.overtaken = TRUE]
        BY <3>1, <4>1
      <4> QED BY <3>1, <4>2 DEF AccountCall
    <3> QED BY <3>2, <3>3
  <2> QED BY <2>1, <2>2
<1>4. calls' \in [Callers -> AccountCall]
  BY <1>3 DEF Overtake
<1> QED BY <1>2, <1>3, <1>4

\* What a call relies on that another has overtaken: members stay members and projects stay.
LEMMA OvertakenStand ==
  ASSUME AccountIInv, NEW c \in Callers, Overtake(c), Ready', members' \in [Workspaces -> [Users -> AccountRoles \cup {"none"}]],
         \A w \in Workspaces, u \in Users : members[w][u] # "none" => members'[w][u] # "none",
         \A w \in Workspaces : projects[w] \subseteq projects'[w]
  PROVE  CallsHold'
<1> SUFFICES ASSUME NEW d \in Callers PROVE CallHolds(calls[d])'
  BY DEF CallsHold
<1>1. CASE calls'[d].op = "idle"
  BY <1>1 DEF CallHolds, CallStands, CallFresh
<1>2. CASE calls'[d].overtaken /\ calls'[d] = [calls[d] EXCEPT !.overtaken = TRUE]
  <2>1. PICK call \in AccountCall : call = calls[d]
    BY DEF AccountIInv, AccountTypeOK
  <2>2. PICK left : left = calls'[d]
    OBVIOUS
  <2>3. /\ left.op = call.op /\ left.ws = call.ws /\ left.user = call.user /\ left.by = call.by
        /\ left.want = call.want /\ left.role = call.role /\ left.granted = call.granted
        /\ left.projects = call.projects /\ left.overtaken
    BY <1>2, <2>1, <2>2 DEF AccountCall
  <2>4. CallStands(call) /\ call.ws \in Workspaces /\ call.by \in Users
    BY <2>1 DEF AccountIInv, CallsHold, CallHolds, AccountCall
  <2>5. CallStands(left)'
    BY <2>3, <2>4 DEF CallStands
  <2>6. CallStands(calls[d])'
    BY <2>2, <2>5 DEF CallStands, Ready
  <2> QED BY <1>2, <2>6 DEF CallHolds
<1> QED BY <1>1, <1>2, OvertakeFacts DEF AccountIInv

\* A token that ends, and a call that ends and writes nothing but tokens.
LEMMA TokenStep ==
  ASSUME AccountIInv, UNCHANGED <<accounts, members, grants, projects, boot, mixed>>,
         tokens' \in [TokenNumbers -> Token],
         calls' \in [Callers -> AccountCall],
         \A c \in Callers : calls'[c] = calls[c] \/ calls'[c].op = "idle"
  PROVE  AccountIInv'
<1> USE DEF AccountIInv
<1>1. AccountTypeOK' /\ (Serving => Ready)'
  BY DEF AccountTypeOK, Serving, Ready
<1>2. RolesAgree' /\ AccountsAgree' /\ BootsAgree'
  BY DEF RolesAgree, GrantsFollow, AccountsAgree, BootsAgree
<1>3. (Ready \/ Blank)'
  BY DEF Ready, Blank
<1>4. CallsHold'
  <2> SUFFICES ASSUME NEW c \in Callers PROVE CallHolds(calls[c])'
    BY DEF CallsHold
  <2>1. CASE calls'[c].op = "idle"
    BY <2>1 DEF CallHolds, CallStands, CallFresh
  <2>2. CASE calls'[c] = calls[c]
    <3>1. CallHolds(calls[c])
      BY DEF CallsHold
    <3> QED BY <2>2, <3>1
            DEF CallHolds, CallStands, CallFresh, CopiesHold, RowHolds, CountHolds, Keeps, LoginAdmins, Ready
  <2> QED BY <2>1, <2>2
<1> QED BY <1>1, <1>2, <1>3, <1>4

\* logout, revoke_api_token and expiry change no role.
LEMMA EndTokenStep ==
  ASSUME AccountIInv, NEW t \in TokenNumbers, EndToken(t)
  PROVE  AccountIInv'
<1>1. tokens' \in [TokenNumbers -> Token]
  <2>1. tokens \in [TokenNumbers -> Token] /\ tokens[t] \in Token
    BY DEF AccountIInv, AccountTypeOK
  <2>2. PICK row : row = [tokens[t] EXCEPT !.status = "ended"]
    OBVIOUS
  <2>3. row \in Token
    BY <2>1, <2>2 DEF Token
  <2>4. tokens' = [tokens EXCEPT ![t] = row]
    BY <2>2 DEF EndToken
  <2> QED BY <2>1, <2>3, <2>4
<1>2. calls' \in [Callers -> AccountCall] /\ calls' = calls
  BY DEF EndToken, AccountIInv, AccountTypeOK
<1> QED BY <1>1, <1>2, TokenStep DEF EndToken

\* A token that is issued changes no role.
LEMMA CommitTokenStep ==
  ASSUME AccountIInv, NEW c \in Callers, CommitToken(c)
  PROVE  AccountIInv'
<1>1. tokens' \in [TokenNumbers -> Token]
  <2>1. calls[c] \in AccountCall
    BY DEF AccountIInv, AccountTypeOK
  <2>2. PICK row : row = [status |-> "live", ws |-> calls[c].ws, owner |-> calls[c].by,
                           type |-> IF calls[c].op = "login" THEN "session" ELSE "api"]
    OBVIOUS
  <2>3. row \in Token
    BY <2>1, <2>2 DEF Token, AccountCall
  <2>4. PICK t \in FreeTokens : tokens' = [tokens EXCEPT ![t] = row]
    BY <2>2 DEF CommitToken
  <2>5. t \in TokenNumbers
    BY <2>4 DEF FreeTokens
  <2> QED BY <2>3, <2>4, <2>5 DEF AccountIInv, AccountTypeOK
<1>2. /\ calls' \in [Callers -> AccountCall] /\ mixed' = mixed
      /\ \A d \in Callers : calls'[d] = calls[d] \/ calls'[d].op = "idle"
  BY EndFacts DEF CommitToken, AccountIInv
<1> QED BY <1>1, <1>2, TokenStep DEF CommitToken

\* A call that begins takes copies of what is there.
LEMMA BeginStep ==
  ASSUME AccountIInv, NEW c \in Callers, NEW op \in {"update", "upsert", "project", "token", "login"},
         NEW by \in Users, NEW w \in Workspaces, NEW u \in Users, NEW want \in Payload,
         NEW sessions \in SUBSET TokenNumbers,
         NEW call, call = Loaded(op, by, w, u, want, sessions), Begin(c, call),
         UNCHANGED <<accounts, members, grants, projects, tokens, boot, mixed>>,
         members[w][by] # "none", op = "project" => members[w][by] = "admin",
         op \in {"update", "upsert"} => CountHolds(call),
         (op \in {"update", "upsert"} /\ want.active # "none" /\ w = Home /\ u = Root) => members[w][u] = "admin"
  PROVE  AccountIInv'
<1> USE DEF AccountIInv
<1>1. call \in AccountCall
  <2>1. /\ members[w][u] \in AccountRoles \cup {"none"} /\ accounts[u] \in Account
        /\ [p \in Projects |-> grants[w][p][u]] \in [Projects -> AccountRoles \cup {"none"}]
        /\ projects[w] \in SUBSET Projects
    BY DEF AccountTypeOK
  <2> QED BY <2>1 DEF Loaded, AccountCall
<1>2. /\ call.overtaken = FALSE
      /\ call.op = op /\ call.by = by /\ call.ws = w /\ call.user = u /\ call.want = want
      /\ call.row = accounts[u] /\ call.role = members[w][u] /\ call.projects = projects[w]
      /\ \A p \in Projects : call.granted[p] = grants[w][p][u]
  BY DEF Loaded
<1>3. Serving /\ Ready
  BY DEF Begin
<1>4. CallHolds(call)
  <2>1. (w = Home /\ u = Root) => First \in projects[w] /\ call.role = call.granted[First]
    BY <1>2, <1>3, AccountConstants DEF Ready, RolesAgree
  <2>2. CallStands(call)
    BY <1>2, <1>3, <2>1 DEF CallStands
  <2>3. CallFresh(call)
    BY <1>2 DEF CallFresh, CopiesHold, RowHolds
  <2> QED BY <2>2, <2>3 DEF CallHolds
<1>5. ASSUME NEW open, CallHolds(open) PROVE CallHolds(open)'
  BY <1>5 DEF CallHolds, CallStands, CallFresh, CopiesHold, RowHolds, CountHolds, LoginAdmins, Keeps, Ready
<1>6. calls' \in [Callers -> AccountCall] /\ \A d \in Callers : calls'[d] = call \/ calls'[d] = calls[d]
  BY <1>1 DEF Begin, AccountTypeOK
<1>7. AccountTypeOK' /\ Ready'
  BY <1>3, <1>6 DEF AccountTypeOK, Ready
<1>8. RolesAgree' /\ AccountsAgree' /\ BootsAgree'
  BY DEF RolesAgree, GrantsFollow, AccountsAgree, BootsAgree
<1>9. CallsHold'
  <2> SUFFICES ASSUME NEW d \in Callers PROVE CallHolds(calls[d])'
    BY DEF CallsHold
  <2>1. PICK open : open = calls'[d]
    OBVIOUS
  <2>2. CallHolds(open)
    BY <1>4, <1>6, <2>1 DEF CallsHold
  <2>3. CallHolds(open)'
    BY <1>5, <2>2
  <2> QED BY <2>1, <2>3
          DEF CallHolds, CallStands, CallFresh, CopiesHold, RowHolds, CountHolds, LoginAdmins, Keeps, Ready
<1> QED BY <1>7, <1>8, <1>9

\* login, create_api_token and create_project begin with a member of the workspace.
LEMMA OpenSteps ==
  ASSUME AccountIInv, NEW c \in Callers, NEW w \in Workspaces, NEW u \in Users,
         Login(c, w, u) \/ CreateApiToken(c, w, u) \/ CreateProject(c, w, u)
  PROVE  AccountIInv'
<1>1. NoPayload \in Payload /\ {} \in SUBSET TokenNumbers
  BY DEF NoPayload, Payload
<1>2. CASE Login(c, w, u)
  <2>1. PICK call : call = Loaded("login", u, w, u, NoPayload, {})
    OBVIOUS
  <2> QED BY <1>1, <1>2, <2>1, BeginStep DEF Login
<1>3. CASE CreateApiToken(c, w, u)
  <2>1. PICK call : call = Loaded("token", u, w, u, NoPayload, {})
    OBVIOUS
  <2> QED BY <1>1, <1>3, <2>1, BeginStep DEF CreateApiToken, ByAdmin
<1>4. CASE CreateProject(c, w, u)
  <2>1. PICK call : call = Loaded("project", u, w, u, NoPayload, {})
    OBVIOUS
  <2> QED BY <1>1, <1>4, <2>1, BeginStep DEF CreateProject, ByAdmin
<1> QED BY <1>2, <1>3, <1>4

\* assert_not_last_admin_transition: there is another, or the call leaves this one be.
LEMMA CountFacts ==
  ASSUME NEW w, NEW u, NEW call, call.ws = w, call.user = u,
         NEW role, NEW active, NEW password,
         ~LosesLastAdmin(w, u, role, active, password),
         role = "admin" /\ active /\ password => Keeps(call)
  PROVE  CountHolds(call)
<1>1. CASE u \notin LoginAdmins(w)
  BY <1>1 DEF CountHolds
<1>2. CASE role = "admin" /\ active /\ password
  BY <1>2 DEF CountHolds
<1>3. CASE u \in LoginAdmins(w) /\ ~(Cardinality(LoginAdmins(w)) <= 1)
  <2>1. Cardinality({u}) = 1
    BY FS_Singleton
  <2>2. LoginAdmins(w) # {u}
    BY <1>3, <2>1
  <2>3. PICK v \in LoginAdmins(w) : v # u
    BY <1>3, <2>2
  <2> QED BY <2>3 DEF CountHolds
<1> QED BY <1>1, <1>2, <1>3 DEF LosesLastAdmin

\* create_workspace_member counts the administrators before it begins to write.
LEMMA UpsertMemberStep ==
  ASSUME AccountIInv, NEW c \in Callers, NEW w \in Workspaces, NEW by \in Users, NEW u \in Users,
         NEW want \in Wants, UpsertMember(c, w, by, u, want)
  PROVE  AccountIInv'
<1>1. PICK sessions \in SUBSET TokenNumbers :
         sessions = IF members[w][u] \in {"none", want.role} THEN {} ELSE SessionsOf(w, u)
  BY DEF SessionsOf
<1>2. PICK call : call = Loaded("upsert", by, w, u, want, sessions)
  OBVIOUS
<1>3. call.ws = w /\ call.user = u /\ call.want = want /\ call.role = members[w][u]
  BY <1>2 DEF Loaded
<1>4. CountHolds(call)
  <2>1. CASE members[w][u] = "none"
    BY <1>3, <2>1 DEF CountHolds, LoginAdmins
  <2>2. CASE members[w][u] # "none"
    <3>1. want.role = "admin" => Keeps(call)
      BY <1>3 DEF Keeps, UpsertMember
    <3> QED BY <1>3, <2>2, <3>1, CountFacts DEF UpsertMember
  <2> QED BY <2>1, <2>2
<1>5. want \in Payload
  BY AccountConstants DEF Payload, AccountRoles
<1> QED BY <1>1, <1>2, <1>4, <1>5, BeginStep DEF UpsertMember, ByAdmin

\* update_workspace_member counts the administrators before it begins to write, and only the
\* platform administrator changes a member's activity.
LEMMA UpdateMemberStep ==
  ASSUME AccountIInv, NEW c \in Callers, NEW w \in Workspaces, NEW by \in Users, NEW u \in Users,
         NEW want \in Wants, UpdateMember(c, w, by, u, want)
  PROVE  AccountIInv'
<1>1. PICK sessions \in SUBSET TokenNumbers :
         sessions = IF want = NoPayload THEN {} ELSE SessionsOf(w, u)
  BY DEF SessionsOf
<1>2. PICK call : call = Loaded("update", by, w, u, want, sessions)
  OBVIOUS
<1>3. call.ws = w /\ call.user = u /\ call.want = want /\ call.role = members[w][u]
  BY <1>2 DEF Loaded
<1>4. CountHolds(call)
  <2> DEFINE role == IF want.role = "none" THEN members[w][u] ELSE want.role
             active == NextActive(want, accounts[u])
             password == want.password \/ accounts[u].password
  <2>1. ~LosesLastAdmin(w, u, role, active, password)
    BY DEF UpdateMember
  <2>2. role = "admin" /\ active /\ password => Keeps(call)
    BY <1>3 DEF Keeps, NextActive
  <2>3. PICK r, a, p : r = role /\ a = active /\ p = password
    OBVIOUS
  <2> HIDE DEF role, active, password
  <2>4. ~LosesLastAdmin(w, u, r, a, p) /\ (r = "admin" /\ a /\ p => Keeps(call))
    BY <2>1, <2>2, <2>3
  <2> QED BY <1>3, <2>4, CountFacts
<1>5. want.active # "none" => by = Root /\ members[w][by] = "admin"
  BY DEF UpdateMember, ByAdmin, AccountIInv, AccountsAgree
<1>6. want \in Payload
  BY AccountConstants DEF Payload, AccountRoles
<1> QED BY <1>1, <1>2, <1>4, <1>5, <1>6, BeginStep DEF UpdateMember, ByAdmin

\* The rows of users: what a new one and the administrator's are.
LEMMA RowFacts ==
  ASSUME AccountTypeOK
  PROVE  /\ \A u \in Users : accounts[u] \in Account
         /\ NoAccount \in Account
         /\ \A r, s \in Account : r.known = s.known /\ r.active = s.active /\ r.password = s.password
                                    /\ r.platform = s.platform => r = s
BY DEF AccountTypeOK, Account, NoAccount

\* A workspace that is created under an open call is another than the call's.
LEMMA CreateWorkspaceStep ==
  ASSUME AccountIInv, NEW w \in Workspaces, NEW u \in Users, CreateWorkspace(w, u)
  PROVE  AccountIInv'
<1> USE DEF AccountIInv
<1>1. /\ Ready /\ \A x \in Users : members[w][x] = "none"
      /\ members' = [members EXCEPT ![w][u] = "admin"]
      /\ UNCHANGED <<grants, projects, tokens, calls, boot, mixed>>
  BY DEF CreateWorkspace, Exists
<1>2. /\ accounts' \in [Users -> Account] /\ \A x \in Users : x # u => accounts'[x] = accounts[x]
      /\ \/ accounts[u].known /\ accounts'[u] = accounts[u]
         \/ /\ accounts[u] = NoAccount /\ accounts'[u].known /\ accounts'[u].active
            /\ ~accounts'[u].password /\ ~accounts'[u].platform
  <2>1. CASE accounts[u].known
    BY <2>1 DEF CreateWorkspace, AccountTypeOK
  <2>2. CASE ~accounts[u].known
    <3>1. accounts[u] = NoAccount
      BY <2>2 DEF AccountsAgree
    <3>2. PICK row : row = [NoAccount EXCEPT !.known = TRUE, !.active = TRUE]
      OBVIOUS
    <3>3. row \in Account /\ row.known /\ row.active /\ ~row.password /\ ~row.platform
      BY <3>2 DEF Account, NoAccount
    <3>4. accounts' = [accounts EXCEPT ![u] = row]
      BY <2>2, <3>2 DEF CreateWorkspace
    <3> QED BY <3>1, <3>3, <3>4 DEF AccountTypeOK
  <2> QED BY <2>1, <2>2
<1>3. /\ members' \in [Workspaces -> [Users -> AccountRoles \cup {"none"}]]
      /\ members'[w][u] = "admin"
      /\ \A v \in Workspaces, x \in Users : v # w \/ x # u => members'[v][x] = members[v][x]
  BY <1>1 DEF AccountTypeOK, AccountRoles
<1>4. w # Home
  BY <1>1, AccountConstants DEF Ready
<1>5. AccountTypeOK'
  BY <1>1, <1>2, <1>3 DEF AccountTypeOK
<1>6. Ready'
  BY <1>1, <1>2, <1>3, <1>4, AccountConstants DEF Ready, NoAccount
<1>7. RolesAgree'
  <2>1. GrantsFollow'
    BY <1>1, <1>3 DEF RolesAgree, GrantsFollow
  <2> QED BY <1>1, <1>3, <1>4, <2>1, AccountConstants DEF RolesAgree
<1>8. AccountsAgree' /\ BootsAgree'
  BY <1>1, <1>2 DEF AccountsAgree, BootsAgree
<1>9. ASSUME NEW v \in Workspaces, v # w PROVE LoginAdmins(v)' = LoginAdmins(v)
  BY <1>2, <1>3, <1>9 DEF LoginAdmins, NoAccount
<1>10. CallsHold'
  <2> SUFFICES ASSUME NEW c \in Callers PROVE CallHolds(calls[c])'
    BY DEF CallsHold
  <2>1. PICK call : call = calls[c]
    OBVIOUS
  <2>2. CallHolds(call) /\ call \in AccountCall /\ calls'[c] = call
    BY <1>1, <2>1 DEF CallsHold, AccountTypeOK
  <2>3. call.ws \in Workspaces /\ call.by \in Users /\ call.user \in Users
    BY <2>2 DEF AccountCall
  <2>4. CASE call.op = "idle"
    BY <2>2, <2>4 DEF CallHolds, CallStands, CallFresh
  <2>5. CASE call.op # "idle"
    <3>1. call.ws # w
      BY <1>1, <2>2, <2>3, <2>5 DEF CallHolds, CallStands
    <3>2. LoginAdmins(call.ws)' = LoginAdmins(call.ws)
      BY <1>9, <2>3, <3>1
    <3>3. members'[call.ws] = members[call.ws]
      BY <1>1, <2>3, <3>1 DEF AccountTypeOK
    <3>4. ASSUME ~call.overtaken, call.op \in {"update", "upsert"}
          PROVE  CopiesHold(call)' /\ RowHolds(call)' /\ CountHolds(call)'
      <4>1. CopiesHold(call) /\ RowHolds(call) /\ CountHolds(call)
        BY <2>2, <3>4 DEF CallHolds, CallFresh
      <4>2. CopiesHold(call)'
        BY <1>1, <1>3, <1>4, <2>3, <3>1, <4>1, AccountConstants DEF CopiesHold
      <4>3. RowHolds(call)'
        BY <1>2, <2>3, <4>1 DEF RowHolds, NoAccount
      <4>4. call.row = accounts'[call.user] => call.row = accounts[call.user]
        BY <1>2, <2>3, <4>1 DEF RowHolds, NoAccount
      <4>5. CountHolds(call)'
        BY <3>2, <4>1, <4>4 DEF CountHolds, Keeps
      <4> QED BY <4>2, <4>3, <4>5
    <3>5. CallStands(call)'
      BY <1>1, <1>6, <2>2, <3>3 DEF CallHolds, CallStands
    <3>6. ~call.overtaken => CallFresh(call)'
      BY <1>1, <2>2, <3>3, <3>4 DEF CallHolds, CallFresh
    <3>7. CallHolds(call)'
      BY <3>5, <3>6 DEF CallHolds
    <3> QED BY <2>2, <3>7
            DEF CallHolds, CallStands, CallFresh, CopiesHold, RowHolds, CountHolds, LoginAdmins, Keeps
  <2> QED BY <2>4, <2>5
<1> QED BY <1>1, <1>5, <1>6, <1>7, <1>8, <1>10

\* The creator of a project is still an administrator when it is committed, unless another
\* call has overtaken theirs.
LEMMA CommitProjectStep ==
  ASSUME AccountIInv, NEW c \in Callers, NEW p \in Projects, CommitProject(c, p)
  PROVE  AccountIInv'
<1> USE DEF AccountIInv
<1>1. UNCHANGED <<accounts, members, tokens, boot>>
  BY DEF CommitProject
<1>2. PICK call \in AccountCall : call = calls[c]
  BY DEF AccountTypeOK
<1>3. call.op = "project" /\ call.ws \in Workspaces /\ call.by \in Users
  BY <1>2 DEF CommitProject, AccountCall
<1>4. Ready /\ (~call.overtaken => members[call.ws][call.by] = "admin")
  BY <1>2, <1>3 DEF CallsHold, CallHolds, CallStands, CallFresh
<1>5. CASE End(c) /\ UNCHANGED <<projects, grants>>
  <2>1. /\ calls' \in [Callers -> AccountCall] /\ mixed' = mixed
        /\ \A d \in Callers : calls'[d] = calls[d] \/ calls'[d].op = "idle"
    BY <1>5, EndFacts
  <2>2. tokens' \in [TokenNumbers -> Token]
    BY <1>1 DEF AccountTypeOK
  <2> QED BY <1>1, <1>5, <2>1, <2>2, TokenStep
<1>6. CASE /\ p \notin projects[call.ws] /\ Overtake(c)
           /\ projects' = [projects EXCEPT ![call.ws] = @ \cup {p}]
           /\ grants' = [grants EXCEPT ![call.ws][p][call.by] = "admin"]
  <2>0. calls' \in [Callers -> AccountCall] /\ mixed' \in BOOLEAN /\ (~mixed' => ~mixed /\ ~call.overtaken)
    BY <1>2, <1>6, OvertakeFacts
  <2>1. /\ projects' \in [Workspaces -> SUBSET Projects]
        /\ \A w \in Workspaces : projects[w] \subseteq projects'[w]
        /\ p \in projects'[call.ws]
    BY <1>3, <1>6 DEF AccountTypeOK
  <2>2. /\ grants' \in [Workspaces -> [Projects -> [Users -> AccountRoles \cup {"none"}]]]
        /\ grants'[call.ws][p][call.by] = "admin"
        /\ \A w \in Workspaces, q \in Projects, u \in Users :
              w # call.ws \/ q # p \/ u # call.by => grants'[w][q][u] = grants[w][q][u]
    BY <1>3, <1>6 DEF AccountTypeOK, AccountRoles
  <2>3. call.ws # Home \/ p # First
    BY <1>4, <1>6 DEF Ready
  <2>4. AccountTypeOK' /\ Ready' /\ AccountsAgree' /\ BootsAgree'
    BY <1>1, <1>4, <2>0, <2>1, <2>2, AccountConstants DEF AccountTypeOK, Ready, AccountsAgree, BootsAgree
  <2>8. CallsHold'
    <3>1. members' \in [Workspaces -> [Users -> AccountRoles \cup {"none"}]]
      BY <1>1 DEF AccountTypeOK
    <3>2. \A w \in Workspaces, u \in Users : members[w][u] # "none" => members'[w][u] # "none"
      BY <1>1
    <3> QED BY <1>6, <2>1, <2>4, <3>1, <3>2, OvertakenStand
  <2>5. GrantsFollow'
    <3> SUFFICES ASSUME ~mixed', NEW w \in Workspaces, NEW q \in Projects, NEW u \in Users,
                        grants'[w][q][u] = "admin"
                 PROVE  members'[w][u] = "admin"
      BY DEF GrantsFollow
    <3>1. CASE w = call.ws /\ q = p /\ u = call.by
      BY <1>1, <1>4, <2>0, <3>1
    <3>2. CASE w # call.ws \/ q # p \/ u # call.by
      <4>1. grants[w][q][u] = "admin"
        BY <2>2, <3>2
      <4> QED BY <1>1, <2>0, <4>1 DEF RolesAgree, GrantsFollow
    <3> QED BY <3>1, <3>2
  <2>6. ASSUME NEW w \in Workspaces, NEW q \in Projects, NEW u \in Users, grants'[w][q][u] # "none"
        PROVE  q \in projects'[w]
    <3>1. CASE w = call.ws /\ q = p
      BY <2>1, <3>1
    <3>2. CASE w # call.ws \/ q # p
      <4>1. grants[w][q][u] # "none"
        BY <2>2, <2>6, <3>2
      <4>2. q \in projects[w]
        BY <4>1 DEF RolesAgree
      <4> QED BY <2>1, <4>2
    <3> QED BY <3>1, <3>2
  <2>7. members'[Home][Root] = grants'[Home][First][Root]
    BY <1>1, <2>2, <2>3, AccountConstants DEF RolesAgree
  <2> QED BY <2>4, <2>5, <2>6, <2>7, <2>8 DEF RolesAgree
<1> QED BY <1>2, <1>5, <1>6 DEF CommitProject

\* What the commit of a call on a member writes.
LEMMA CommitFacts ==
  ASSUME AccountIInv, NEW c \in Callers, CommitMember(c), ~InsertFails(calls[c]),
         NEW call, call = calls[c]
  PROVE  /\ call \in AccountCall /\ call.op \in {"update", "upsert"} /\ CallHolds(call)
         /\ accounts' \in [Users -> Account]
         /\ accounts'[call.user] = NewAccount(call)
         /\ \A u \in Users \ {call.user} : accounts'[u] = accounts[u]
         /\ members' \in [Workspaces -> [Users -> AccountRoles \cup {"none"}]]
         /\ members'[call.ws][call.user] = NewRole(call.role, call.want.role, members[call.ws][call.user])
         /\ \A w \in Workspaces, u \in Users : w # call.ws \/ u # call.user => members'[w][u] = members[w][u]
         /\ grants' \in [Workspaces -> [Projects -> [Users -> AccountRoles \cup {"none"}]]]
         /\ \A p \in call.projects : grants'[call.ws][p][call.user] =
               NewRole(call.granted[p], call.want.role, grants[call.ws][p][call.user])
         /\ \A w \in Workspaces, p \in Projects, u \in Users :
               w # call.ws \/ u # call.user \/ p \notin call.projects => grants'[w][p][u] = grants[w][p][u]
         /\ UNCHANGED <<projects, boot>> /\ Overtake(c)
         /\ tokens' \in [TokenNumbers -> Token] /\ calls' \in [Callers -> AccountCall]
<1> USE DEF AccountIInv
<1>1. call \in AccountCall /\ call.op \in {"update", "upsert"} /\ CallHolds(call)
  BY DEF CommitMember, AccountTypeOK, CallsHold
<1>2. /\ call.ws \in Workspaces /\ call.user \in Users
      /\ call.role \in AccountRoles \cup {"none"} /\ call.want.role \in AccountRoles \cup {"none"}
      /\ call.granted \in [Projects -> AccountRoles \cup {"none"}]
      /\ call.row \in Account /\ call.want \in Payload
  BY <1>1 DEF AccountCall, Payload
<1>3. /\ accounts' = [accounts EXCEPT ![call.user] = NewAccount(call)]
      /\ members' = [members EXCEPT ![call.ws][call.user] =
                                NewRole(call.role, call.want.role, members[call.ws][call.user])]
      /\ grants' = [grants EXCEPT ![call.ws] = NewGrants(call)]
      /\ tokens' = [t \in TokenNumbers |->
                                IF t \in call.sessions
                                THEN [tokens[t] EXCEPT !.status = "ended"] ELSE tokens[t]]
  BY DEF CommitMember
<1>4. NewAccount(call) \in Account
  <2>1. accounts[call.user] \in Account
    BY <1>2 DEF AccountTypeOK
  <2> QED BY <1>2, <2>1 DEF NewAccount, Account, NextActive, Payload
<1>5. /\ accounts' \in [Users -> Account] /\ accounts'[call.user] = NewAccount(call)
      /\ \A u \in Users \ {call.user} : accounts'[u] = accounts[u]
  BY <1>2, <1>3, <1>4 DEF AccountTypeOK
<1>6. \A now \in AccountRoles \cup {"none"} : \A loaded :
          NewRole(loaded, call.want.role, now) \in AccountRoles \cup {"none"}
  BY <1>2 DEF NewRole
<1>7. /\ members' \in [Workspaces -> [Users -> AccountRoles \cup {"none"}]]
      /\ members'[call.ws][call.user] = NewRole(call.role, call.want.role, members[call.ws][call.user])
      /\ \A w \in Workspaces, u \in Users : w # call.ws \/ u # call.user => members'[w][u] = members[w][u]
  <2>1. PICK role : role = NewRole(call.role, call.want.role, members[call.ws][call.user])
    OBVIOUS
  <2>2. role \in AccountRoles \cup {"none"}
    <3>1. members[call.ws][call.user] \in AccountRoles \cup {"none"}
      BY <1>2 DEF AccountTypeOK
    <3> QED BY <1>6, <2>1, <3>1
  <2>3. members' = [members EXCEPT ![call.ws][call.user] = role]
    BY <1>3, <2>1
  <2> QED BY <1>2, <2>1, <2>2, <2>3 DEF AccountTypeOK
<1>8. /\ grants' \in [Workspaces -> [Projects -> [Users -> AccountRoles \cup {"none"}]]]
      /\ \A p \in call.projects : grants'[call.ws][p][call.user] =
               NewRole(call.granted[p], call.want.role, grants[call.ws][p][call.user])
      /\ \A w \in Workspaces, p \in Projects, u \in Users :
               w # call.ws \/ u # call.user \/ p \notin call.projects => grants'[w][p][u] = grants[w][p][u]
  <2> DEFINE now(p) == grants[call.ws][p]
             role(p) == NewRole(call.granted[p], call.want.role, now(p)[call.user])
  <2>0. call.projects \subseteq Projects
    BY <1>1 DEF AccountCall
  <2>1. \A p \in Projects : now(p) \in [Users -> AccountRoles \cup {"none"}]
    BY <1>2 DEF AccountTypeOK
  <2>2. \A p \in Projects : role(p) \in AccountRoles \cup {"none"}
    BY <1>2, <1>6, <2>1
  <2>3. NewGrants(call) = [p \in Projects |-> IF p \in call.projects
                             THEN [now(p) EXCEPT ![call.user] = role(p)] ELSE now(p)]
    BY <1>2 DEF NewGrants
  <2> HIDE DEF role, now
  <2>4. \A p \in Projects : /\ p \in call.projects => NewGrants(call)[p] = [now(p) EXCEPT ![call.user] = role(p)]
                            /\ p \notin call.projects => NewGrants(call)[p] = now(p)
    BY <2>3
  <2>5. NewGrants(call) \in [Projects -> [Users -> AccountRoles \cup {"none"}]]
    BY <1>2, <2>1, <2>2, <2>3
  <2>6. \A p \in call.projects : /\ NewGrants(call)[p][call.user] = role(p)
           /\ \A u \in Users : u # call.user => NewGrants(call)[p][u] = now(p)[u]
    <3> TAKE p \in call.projects
    <3>1. now(p) \in [Users -> AccountRoles \cup {"none"}]
      BY <2>0, <2>1
    <3>2. NewGrants(call)[p] = [now(p) EXCEPT ![call.user] = role(p)]
      BY <2>0, <2>4
    <3> QED BY <1>2, <3>1, <3>2
  <2>7. /\ grants' \in [Workspaces -> [Projects -> [Users -> AccountRoles \cup {"none"}]]]
        /\ grants'[call.ws] = NewGrants(call)
        /\ \A w \in Workspaces : w # call.ws => grants'[w] = grants[w]
    BY <1>2, <1>3, <2>5 DEF AccountTypeOK
  <2>8. \A p : now(p) = grants[call.ws][p]
    BY DEF now
  <2>9. \A p \in call.projects : grants'[call.ws][p][call.user] =
               NewRole(call.granted[p], call.want.role, grants[call.ws][p][call.user])
    BY <2>6, <2>7, <2>8 DEF role
  <2>10. ASSUME NEW w \in Workspaces, NEW p \in Projects, NEW u \in Users,
                w # call.ws \/ u # call.user \/ p \notin call.projects
         PROVE  grants'[w][p][u] = grants[w][p][u]
    <3>1. CASE w # call.ws
      BY <2>7, <3>1
    <3>2. CASE w = call.ws /\ p \notin call.projects
      BY <2>4, <2>7, <2>8, <3>2
    <3>3. CASE w = call.ws /\ p \in call.projects
      BY <2>6, <2>7, <2>8, <2>10, <3>3
    <3> QED BY <3>1, <3>2, <3>3
  <2> QED BY <2>7, <2>9, <2>10
<1>9. tokens' \in [TokenNumbers -> Token]
  <2>1. \A t \in TokenNumbers : tokens[t] \in Token /\ [tokens[t] EXCEPT !.status = "ended"] \in Token
    <3> TAKE t \in TokenNumbers
    <3>1. tokens[t] \in Token
      BY DEF AccountTypeOK
    <3> QED BY <3>1 DEF Token
  <2> QED BY <1>3, <2>1
<1>10. calls' \in [Callers -> AccountCall] /\ Overtake(c)
  BY OvertakeFacts DEF CommitMember
<1> QED BY <1>1, <1>5, <1>7, <1>8, <1>9, <1>10 DEF CommitMember

\* Roles still agree after a change of one, a bootstrap in the middle of it included.
LEMMA CommitMemberStep ==
  ASSUME AccountIInv, NEW c \in Callers, CommitMember(c)
  PROVE  AccountIInv'
<1> USE DEF AccountIInv
<1>1. CASE InsertFails(calls[c])
  <2>1. /\ calls' \in [Callers -> AccountCall] /\ mixed' = mixed
        /\ \A d \in Callers : calls'[d] = calls[d] \/ calls'[d].op = "idle"
    BY <1>1, EndFacts DEF CommitMember
  <2>2. UNCHANGED <<accounts, members, grants, projects, boot>> /\ tokens' \in [TokenNumbers -> Token]
    BY <1>1 DEF CommitMember, AccountTypeOK
  <2> QED BY <2>1, <2>2, TokenStep
<1>2. CASE ~InsertFails(calls[c])
  <2>1. PICK call : call = calls[c]
    OBVIOUS
  <2>2.  /\ call \in AccountCall /\ call.op \in {"update", "upsert"} /\ CallHolds(call)
         /\ accounts' \in [Users -> Account]
         /\ accounts'[call.user] = NewAccount(call)
         /\ \A u \in Users \ {call.user} : accounts'[u] = accounts[u]
         /\ members' \in [Workspaces -> [Users -> AccountRoles \cup {"none"}]]
         /\ members'[call.ws][call.user] = NewRole(call.role, call.want.role, members[call.ws][call.user])
         /\ \A w \in Workspaces, u \in Users : w # call.ws \/ u # call.user => members'[w][u] = members[w][u]
    BY <1>2, <2>1, CommitFacts
  <2>b. \A p \in call.projects : grants'[call.ws][p][call.user] =
               NewRole(call.granted[p], call.want.role, grants[call.ws][p][call.user])
    BY <1>2, <2>1, CommitFacts
  <2>c. \A w \in Workspaces, p \in Projects, u \in Users :
               w # call.ws \/ u # call.user \/ p \notin call.projects => grants'[w][p][u] = grants[w][p][u]
    BY <1>2, <2>1, CommitFacts
  <2>a. /\ grants' \in [Workspaces -> [Projects -> [Users -> AccountRoles \cup {"none"}]]]
        /\ UNCHANGED <<projects, boot>> /\ Overtake(c)
        /\ tokens' \in [TokenNumbers -> Token] /\ calls' \in [Callers -> AccountCall]
    BY <1>2, <2>1, CommitFacts
  <2>4. /\ call.ws \in Workspaces /\ call.user \in Users
        /\ call.role \in {"admin", "member", "none"} /\ call.want.role \in {"admin", "member", "none"}
        /\ call.granted \in [Projects -> {"admin", "member", "none"}]
    BY <2>2 DEF AccountCall, Payload, AccountRoles
  <2>d. mixed' \in BOOLEAN /\ (~mixed' => ~mixed /\ ~call.overtaken)
    BY <2>1, <2>a, OvertakeFacts
  <2>5. /\ Ready /\ call.projects \subseteq projects[call.ws]
        /\ ~call.overtaken => CopiesHold(call)
        /\ (call.ws = Home /\ call.user = Root) => First \in call.projects /\ call.role = call.granted[First]
    BY <2>2 DEF CallHolds, CallStands, CallFresh
  <2>6. /\ accounts'[call.user].known
        /\ accounts[call.user].password => accounts'[call.user].password
        /\ accounts'[call.user].platform = accounts[call.user].platform
    <3>1. NewAccount(call).known = TRUE
      BY DEF NewAccount
    <3>2. NewAccount(call).password = (accounts[call.user].password \/ call.want.password)
      BY DEF NewAccount
    <3>3. NewAccount(call).platform = accounts[call.user].platform
      BY DEF NewAccount
    <3> QED BY <2>2, <3>1, <3>2, <3>3
  <2>7. Ready'
    <3>1. members'[Home][Root] # "none"
      BY <2>2, <2>4, <2>5, AccountConstants DEF Ready, NewRole
    <3> QED BY <2>2, <2>a, <2>5, <2>6, <3>1, AccountConstants DEF Ready
  <2>8. AccountsAgree'
    BY <2>2, <2>4, <2>6 DEF AccountsAgree
  <2>9. GrantsFollow'
    <3> SUFFICES ASSUME ~mixed', NEW w \in Workspaces, NEW p \in Projects, NEW u \in Users, grants'[w][p][u] = "admin"
                 PROVE  members'[w][u] = "admin"
      BY DEF GrantsFollow
    <3>0. ~mixed /\ CopiesHold(call)
      BY <2>d, <2>5
    <3>1. CASE w # call.ws \/ u # call.user
      <4>1. grants'[w][p][u] = grants[w][p][u] /\ members'[w][u] = members[w][u]
        BY <2>2, <2>b, <2>c, <3>1
      <4> QED BY <3>0, <4>1 DEF RolesAgree, GrantsFollow
    <3>2. CASE w = call.ws /\ u = call.user /\ p \notin call.projects
      <4>1. call.projects = projects[call.ws] /\ grants'[w][p][u] = grants[w][p][u]
        BY <2>c, <2>d, <2>2, <3>2 DEF CallHolds, CallFresh
      <4> QED BY <3>2, <4>1 DEF RolesAgree
    <3>3. CASE w = call.ws /\ u = call.user /\ p \in call.projects
      <4>2. NewRole(call.granted[p], call.want.role, grants[w][p][u]) = "admin"
        BY <2>b, <3>3
      <4>3. members'[w][u] = NewRole(call.role, call.want.role, members[w][u])
        BY <2>2, <3>3
      <4>4. grants[w][p][u] = "admin" => members[w][u] = "admin"
        BY <3>0 DEF RolesAgree, GrantsFollow
      <4>5. CASE call.want.role = "none"
        BY <4>2, <4>3, <4>4, <4>5 DEF NewRole
      <4>6. CASE call.want.role = "admin"
        <5>1. call.role = "admin" => members[w][u] = "admin"
          BY <3>0, <3>3 DEF CopiesHold
        <5> QED BY <4>3, <4>6, <5>1 DEF NewRole
      <4>7. CASE call.want.role = "member"
        <5>1. call.granted[p] = "member" /\ grants[w][p][u] = "admin"
          BY <4>2, <4>7 DEF NewRole
        <5>2. call.role = "member" /\ members[w][u] = "admin"
          BY <3>0, <3>3, <4>4, <5>1 DEF CopiesHold
        <5> QED BY <4>3, <4>7, <5>2 DEF NewRole
      <4> QED BY <2>4, <4>5, <4>6, <4>7
    <3> QED BY <3>1, <3>2, <3>3
  <2>10. ASSUME NEW w \in Workspaces, NEW p \in Projects, NEW u \in Users, grants'[w][p][u] # "none"
         PROVE  p \in projects'[w]
    <3>1. CASE w = call.ws /\ p \in call.projects
      BY <2>a, <2>5, <3>1
    <3>2. CASE w # call.ws \/ p \notin call.projects
      BY <2>a, <2>c, <2>10, <3>2 DEF RolesAgree
    <3> QED BY <3>1, <3>2
  <2>11. members'[Home][Root] = grants'[Home][First][Root]
    <3>1. First \in projects[Home] /\ members[Home][Root] = grants[Home][First][Root]
      BY <2>5 DEF Ready, RolesAgree
    <3>2. CASE call.ws # Home \/ call.user # Root
      BY <2>2, <2>b, <2>c, <3>1, <3>2, AccountConstants
    <3>3. CASE call.ws = Home /\ call.user = Root
      <4>1. First \in call.projects /\ call.role = call.granted[First]
        BY <2>5, <3>3
      <4> QED BY <2>2, <2>b, <2>c, <3>1, <3>3, <4>1
    <3> QED BY <3>2, <3>3
  <2>12. AccountTypeOK' /\ BootsAgree'
    BY <2>2, <2>a, <2>d DEF AccountTypeOK, BootsAgree
  <2>13. CallsHold'
    <3>1. \A w \in Workspaces, u \in Users : members[w][u] # "none" => members'[w][u] # "none"
      BY <2>2, <2>4 DEF NewRole
    <3>2. \A w \in Workspaces : projects[w] \subseteq projects'[w]
      BY <2>a
    <3> QED BY <2>2, <2>a, <2>7, <3>1, <3>2, OvertakenStand
  <2> QED BY <2>7, <2>8, <2>9, <2>10, <2>11, <2>12, <2>13 DEF RolesAgree
<1> QED BY <1>1, <1>2

\* A change of boot only, that agrees with the tables.
LEMMA BootOnlyStep ==
  ASSUME AccountIInv, UNCHANGED <<accounts, members, grants, projects, tokens, calls, mixed>>,
         boot' \in [Processes -> [pc : {"down", "loaded", "up"}, row : Account,
                               role : AccountRoles \cup {"none"},
                               grant : AccountRoles \cup {"none"},
                               home : BOOLEAN, project : BOOLEAN]],
         BootsAgree', (Ready \/ Blank)', (Serving => Ready)'
  PROVE  AccountIInv'
<1> USE DEF AccountIInv
<1>1. AccountTypeOK' /\ RolesAgree' /\ AccountsAgree'
  BY DEF AccountTypeOK, RolesAgree, GrantsFollow, AccountsAgree
<1>2. CallsHold'
  <2> SUFFICES ASSUME NEW c \in Callers
               PROVE  CallHolds(calls[c])'
    BY DEF CallsHold
  <2>1. CallHolds(calls[c]) /\ (Ready => Ready')
    BY DEF CallsHold, Ready
  <2>2. CopiesHold(calls[c]) => CopiesHold(calls[c])'
    BY DEF CopiesHold
  <2>3. RowHolds(calls[c]) => RowHolds(calls[c])'
    BY DEF RowHolds
  <2>4. CountHolds(calls[c]) => CountHolds(calls[c])'
    BY DEF CountHolds, Keeps, LoginAdmins
  <2> QED BY <2>1, <2>2, <2>3, <2>4 DEF CallHolds, CallStands, CallFresh
<1> QED BY <1>1, <1>2

\* A bootstrap that reads before the first has committed reads nothing.
LEMMA BootReadStep ==
  ASSUME AccountIInv, NEW p \in Processes, BootRead(p)
  PROVE  AccountIInv'
<1> USE DEF AccountIInv
<1>1. PICK b : b = [pc |-> "loaded", row |-> accounts[Root], role |-> members[Home][Root],
                    grant |-> grants[Home][First][Root], home |-> Exists(Home),
                    project |-> First \in projects[Home]]
  OBVIOUS
<1>2. b \in [pc : {"down", "loaded", "up"}, row : Account, role : AccountRoles \cup {"none"},
             grant : AccountRoles \cup {"none"}, home : BOOLEAN, project : BOOLEAN]
  <2>1. Exists(Home) \in BOOLEAN
    BY DEF Exists
  <2>2. /\ accounts[Root] \in Account /\ members[Home][Root] \in AccountRoles \cup {"none"}
        /\ grants[Home][First][Root] \in AccountRoles \cup {"none"}
    BY AccountConstants DEF AccountTypeOK
  <2> QED BY <1>1, <2>1, <2>2
<1>3. boot' = [boot EXCEPT ![p] = b] /\ UNCHANGED <<accounts, members, grants, projects, tokens, calls, mixed>>
  BY <1>1 DEF BootRead
<1>4. b.pc = "loaded" /\ b.role = b.grant
  BY <1>1 DEF RolesAgree
<1>5. /\ boot' \in [Processes -> [pc : {"down", "loaded", "up"}, row : Account,
                               role : AccountRoles \cup {"none"},
                               grant : AccountRoles \cup {"none"},
                               home : BOOLEAN, project : BOOLEAN]]
      /\ boot'[p] = b /\ \A q \in Processes : q # p => boot'[q] = boot[q]
  BY <1>2, <1>3 DEF AccountTypeOK
<1>6. BootsAgree' /\ (Serving => Ready)'
  BY <1>3, <1>4, <1>5 DEF BootsAgree, Serving, Ready
<1>7. Blank => Blank'
  <2> SUFFICES ASSUME Blank PROVE Blank'
    OBVIOUS
  <2>1. ~Exists(Home) /\ First \notin projects[Home]
    BY AccountConstants DEF Blank, Exists
  <2>2. /\ accounts[Root] = NoAccount /\ members[Home][Root] = "none"
        /\ grants[Home][First][Root] = "none"
    BY AccountConstants DEF Blank
  <2>3. b.row = NoAccount /\ b.role = "none" /\ b.grant = "none" /\ ~b.home /\ ~b.project
    BY <1>1, <2>1, <2>2
  <2> QED BY <1>3, <1>4, <1>5, <2>3 DEF Blank
<1>8. Ready => Ready'
  BY <1>3 DEF Ready
<1> QED BY <1>3, <1>5, <1>6, <1>7, <1>8, BootOnlyStep

\* A process that stops leaves the tables.
LEMMA StopStep ==
  ASSUME AccountIInv, NEW p \in Processes, Stop(p)
  PROVE  AccountIInv'
<1> USE DEF AccountIInv
<1>1. /\ boot' = [boot EXCEPT ![p] = BootDown]
      /\ UNCHANGED <<accounts, members, grants, projects, tokens, calls, mixed>>
  BY DEF Stop
<1>2. BootDown.pc = "down" /\ BootDown \in [pc : {"down", "loaded", "up"}, row : Account,
                               role : AccountRoles \cup {"none"},
                               grant : AccountRoles \cup {"none"},
                               home : BOOLEAN, project : BOOLEAN]
  BY DEF BootDown, NoAccount, Account
<1>3. /\ boot' \in [Processes -> [pc : {"down", "loaded", "up"}, row : Account,
                               role : AccountRoles \cup {"none"},
                               grant : AccountRoles \cup {"none"},
                               home : BOOLEAN, project : BOOLEAN]]
      /\ boot'[p] = BootDown /\ \A q \in Processes : q # p => boot'[q] = boot[q]
  BY <1>1, <1>2 DEF AccountTypeOK
<1>4. Ready /\ Ready'
  BY <1>1 DEF Stop, Serving, Ready
<1>5. BootsAgree'
  BY <1>2, <1>3 DEF BootsAgree
<1> QED BY <1>1, <1>3, <1>4, <1>5, BootOnlyStep

\* What a bootstrap that meets no conflict writes.
LEMMA BootFacts ==
  ASSUME AccountIInv, NEW p \in Processes, BootCommit(p), ~BootConflict(boot[p])
  PROVE  /\ accounts' \in [Users -> Account]
         /\ \A u \in Users : u # Root => accounts'[u] = accounts[u]
         /\ accounts'[Root].known /\ accounts'[Root].password /\ accounts'[Root].platform
         /\ accounts[Root].active => accounts'[Root].active
         /\ members' \in [Workspaces -> [Users -> AccountRoles \cup {"none"}]]
         /\ members'[Home][Root] = NewRole(boot[p].role, "admin", members[Home][Root])
         /\ \A w \in Workspaces, u \in Users : w # Home \/ u # Root => members'[w][u] = members[w][u]
         /\ grants' \in [Workspaces -> [Projects -> [Users -> AccountRoles \cup {"none"}]]]
         /\ grants'[Home][First][Root] = NewRole(boot[p].grant, "admin", grants[Home][First][Root])
         /\ \A w \in Workspaces, q \in Projects, u \in Users :
               w # Home \/ q # First \/ u # Root => grants'[w][q][u] = grants[w][q][u]
         /\ projects' \in [Workspaces -> SUBSET Projects]
         /\ First \in projects'[Home] /\ \A w \in Workspaces : projects[w] \subseteq projects'[w]
         /\ \A w \in Workspaces : w # Home \/ First \in projects[w] => projects'[w] = projects[w]
<1> USE DEF AccountIInv
<1> USE AccountConstants
<1>1. PICK b : b = boot[p]
  OBVIOUS
<1>2. /\ b.row \in Account /\ b.role \in AccountRoles \cup {"none"} /\ b.grant \in AccountRoles \cup {"none"}
  BY <1>1 DEF AccountTypeOK
<1>3. /\ accounts' = [accounts EXCEPT ![Root] =
                        [known |-> TRUE, password |-> TRUE,
                         active |-> IF b.row.active THEN accounts[Root].active ELSE TRUE,
                         platform |-> IF b.row.platform THEN accounts[Root].platform ELSE TRUE]]
      /\ members' = [members EXCEPT ![Home][Root] = NewRole(b.role, "admin", members[Home][Root])]
      /\ projects' = [projects EXCEPT ![Home] = projects[Home] \cup {First}]
      /\ grants' = [grants EXCEPT ![Home][First][Root] = NewRole(b.grant, "admin", grants[Home][First][Root])]
  BY <1>1 DEF BootCommit, BootGrants
<1>4. b.row.platform => accounts[Root].platform
  <2>1. CASE Ready
    BY <2>1 DEF Ready
  <2>2. CASE Blank
    <3>1. b.row = NoAccount
      BY <1>1, <2>2 DEF Blank, BootCommit
    <3> QED BY <3>1 DEF NoAccount
  <2> QED BY <2>1, <2>2
<1>5. /\ accounts' \in [Users -> Account]
      /\ \A u \in Users : u # Root => accounts'[u] = accounts[u]
      /\ accounts'[Root].known /\ accounts'[Root].password /\ accounts'[Root].platform
      /\ accounts[Root].active => accounts'[Root].active
  <2>1. PICK row : row = [known |-> TRUE, password |-> TRUE,
                         active |-> IF b.row.active THEN accounts[Root].active ELSE TRUE,
                         platform |-> IF b.row.platform THEN accounts[Root].platform ELSE TRUE]
    OBVIOUS
  <2>2. accounts[Root] \in Account
    BY DEF AccountTypeOK
  <2>3. row \in Account
    BY <1>2, <2>1, <2>2 DEF Account
  <2>4. row.known = TRUE /\ row.password = TRUE
    BY <2>1
  <2>5. row.platform
    BY <1>4, <2>1
  <2>6. accounts[Root].active => row.active
    BY <2>1
  <2>7. accounts' = [accounts EXCEPT ![Root] = row]
    BY <1>3, <2>1
  <2>8. /\ accounts' \in [Users -> Account] /\ accounts'[Root] = row
        /\ \A u \in Users : u # Root => accounts'[u] = accounts[u]
    BY <2>3, <2>7 DEF AccountTypeOK
  <2> QED BY <2>4, <2>5, <2>6, <2>8
<1>6. \A now \in AccountRoles \cup {"none"} : \A loaded :
          NewRole(loaded, "admin", now) \in AccountRoles \cup {"none"}
  BY DEF NewRole, AccountRoles
<1>7. /\ members' \in [Workspaces -> [Users -> AccountRoles \cup {"none"}]]
      /\ members'[Home][Root] = NewRole(b.role, "admin", members[Home][Root])
      /\ \A w \in Workspaces, u \in Users : w # Home \/ u # Root => members'[w][u] = members[w][u]
  <2>1. PICK role : role = NewRole(b.role, "admin", members[Home][Root])
    OBVIOUS
  <2>2. members[Home][Root] \in AccountRoles \cup {"none"}
    BY DEF AccountTypeOK
  <2>3. role \in AccountRoles \cup {"none"}
    BY <1>6, <2>1, <2>2
  <2>4. members' = [members EXCEPT ![Home][Root] = role]
    BY <1>3, <2>1
  <2> QED BY <2>1, <2>3, <2>4 DEF AccountTypeOK
<1>8. /\ grants' \in [Workspaces -> [Projects -> [Users -> AccountRoles \cup {"none"}]]]
      /\ grants'[Home][First][Root] = NewRole(b.grant, "admin", grants[Home][First][Root])
      /\ \A w \in Workspaces, q \in Projects, u \in Users :
               w # Home \/ q # First \/ u # Root => grants'[w][q][u] = grants[w][q][u]
  <2>1. PICK role : role = NewRole(b.grant, "admin", grants[Home][First][Root])
    OBVIOUS
  <2>2. grants[Home][First][Root] \in AccountRoles \cup {"none"}
    BY DEF AccountTypeOK
  <2>3. role \in AccountRoles \cup {"none"}
    BY <1>6, <2>1, <2>2
  <2>4. grants' = [grants EXCEPT ![Home][First][Root] = role]
    BY <1>3, <2>1
  <2> QED BY <2>1, <2>3, <2>4 DEF AccountTypeOK
<1>9. /\ projects' \in [Workspaces -> SUBSET Projects]
      /\ First \in projects'[Home] /\ \A w \in Workspaces : projects[w] \subseteq projects'[w]
      /\ \A w \in Workspaces : w # Home \/ First \in projects[w] => projects'[w] = projects[w]
  BY <1>3 DEF AccountTypeOK
<1> QED BY <1>1, <1>5, <1>7, <1>8, <1>9

\* The first bootstrap finds nothing and leaves the administrator, Home and its first project.
LEMMA FirstBootStep ==
  ASSUME AccountIInv, NEW p \in Processes, BootCommit(p), Blank
  PROVE  /\ ~BootConflict(boot[p])
         /\ boot[p].role = "none" /\ boot[p].grant = "none"
<1>2. /\ boot[p].row = NoAccount /\ boot[p].role = "none" /\ boot[p].grant = "none"
      /\ ~boot[p].home /\ ~boot[p].project
  BY DEF Blank, BootCommit
<1>3. /\ accounts[Root] = NoAccount /\ ~Exists(Home) /\ First \notin projects[Home]
      /\ members[Home][Root] = "none" /\ grants[Home][First][Root] = "none"
  BY AccountConstants DEF Blank, Exists
<1> QED BY <1>2, <1>3 DEF BootConflict, NoAccount

\* A bootstrap that overlaps a call on a member raises what the call loaded, if anything.
LEMMA RaisedCall ==
  ASSUME AccountIInv, Ready, NEW p \in Processes, BootCommit(p), ~BootConflict(boot[p]),
         NEW c \in Callers, NEW call, call = calls[c], UNCHANGED calls
  PROVE  CallHolds(call)'
<1> USE DEF AccountIInv
<1> USE AccountConstants
<1>1. CallHolds(call) /\ call \in AccountCall
  BY DEF CallsHold, AccountTypeOK
<1>2. call.ws \in Workspaces /\ call.by \in Users /\ call.user \in Users /\ call.row \in Account
  BY <1>1 DEF AccountCall
<1>3. /\ \A u \in Users : u # Root => accounts'[u] = accounts[u]
      /\ accounts'[Root].known /\ accounts'[Root].password /\ accounts'[Root].platform
      /\ accounts[Root].active => accounts'[Root].active
      /\ accounts' \in [Users -> Account]
  BY BootFacts
<1>4. /\ members'[Home][Root] = NewRole(boot[p].role, "admin", members[Home][Root])
      /\ \A w \in Workspaces, u \in Users : w # Home \/ u # Root => members'[w][u] = members[w][u]
  BY BootFacts
<1>5. grants'[Home][First][Root] = NewRole(boot[p].grant, "admin", grants[Home][First][Root])
  BY BootFacts
<1>6. \A w \in Workspaces, q \in Projects, u \in Users :
               w # Home \/ q # First \/ u # Root => grants'[w][q][u] = grants[w][q][u]
  BY BootFacts
<1>7. projects'[call.ws] = projects[call.ws] /\ First \in projects'[Home]
  BY <1>2, BootFacts DEF Ready
<1>8. boot[p].role = boot[p].grant /\ members[Home][Root] = grants[Home][First][Root]
  BY DEF BootsAgree, RolesAgree, BootCommit
<1>9. \/ /\ members'[Home][Root] = members[Home][Root]
         /\ grants'[Home][First][Root] = grants[Home][First][Root]
      \/ members'[Home][Root] = "admin" /\ grants'[Home][First][Root] = "admin"
  BY <1>4, <1>5, <1>8 DEF NewRole
<1>10. Ready'
  BY <1>3, <1>4, <1>7 DEF Ready, NewRole
<1>11. members[call.ws][call.by] = "admin" => members'[call.ws][call.by] = "admin"
  BY <1>2, <1>4, <1>9
<1>12. members[call.ws][call.by] # "none" => members'[call.ws][call.by] # "none"
  BY <1>2, <1>4, <1>9
<1>13. ASSUME ~call.overtaken, call.op \in {"update", "upsert"}
       PROVE  /\ CopiesHold(call)' /\ RowHolds(call)' /\ CountHolds(call)'
  <2>1. /\ CopiesHold(call) /\ RowHolds(call) /\ CountHolds(call)
        /\ (call.want.active # "none" /\ call.ws = Home /\ call.user = Root) => call.role = "admin"
    BY <1>1, <1>13 DEF CallHolds, CallStands, CallFresh
  <2>2. RowHolds(call)'
    BY <1>2, <1>3, <2>1 DEF RowHolds
  <2>3. ASSUME call.ws # Home \/ call.user # Root PROVE CopiesHold(call)'
    BY <1>2, <1>4, <1>6, <2>1, <2>3 DEF CopiesHold
  <2>4. ASSUME call.ws = Home, call.user = Root PROVE CopiesHold(call)'
    <3>1. \A q \in Projects \ {First} : call.granted[q] = grants'[Home][q][Root]
      BY <1>6, <2>1, <2>4 DEF CopiesHold
    <3>2. CASE members'[Home][Root] = members[Home][Root] /\ grants'[Home][First][Root] = grants[Home][First][Root]
      BY <2>1, <2>4, <3>1, <3>2 DEF CopiesHold
    <3>3. CASE members'[Home][Root] = "admin" /\ grants'[Home][First][Root] = "admin" /\ members[Home][Root] = "member"
      <4>1. call.role = "member" /\ call.granted[First] = "member"
        BY <1>8, <2>1, <2>4, <3>3 DEF CopiesHold
      <4> QED BY <2>4, <3>1, <3>3, <4>1 DEF CopiesHold
    <3>4. members[Home][Root] \in {"admin", "member"}
      BY DEF Ready, AccountTypeOK, AccountRoles
    <3> QED BY <1>8, <1>9, <3>2, <3>3, <3>4
  <2>5. CopiesHold(call)'
    BY <2>3, <2>4
  <2>6. CountHolds(call)'
    <3> SUFFICES ASSUME call.row = accounts'[call.user]
                 PROVE  \/ \E v \in LoginAdmins(call.ws)' : v # call.user
                        \/ call.user \notin LoginAdmins(call.ws)'
                        \/ Keeps(call)
      BY DEF CountHolds, Keeps
    <3>1. LoginAdmins(call.ws) \subseteq LoginAdmins(call.ws)'
      BY <1>2, <1>3, <1>4, <1>9 DEF LoginAdmins
    <3>2. call.row = accounts[call.user]
      <4>1. accounts[call.user] \in Account
        BY <1>2 DEF AccountTypeOK
      <4>2. CASE call.user # Root
        BY <1>2, <1>3, <4>2
      <4>3. CASE call.user = Root
        <5>1. accounts[Root].known /\ accounts[Root].password /\ accounts[Root].platform
          BY DEF Ready
        <5>2. accounts[Root].active = call.row.active
          BY <1>2, <1>3, <2>1, <4>1, <4>3 DEF RowHolds, Account
        <5>3. /\ accounts[Root].known = call.row.known /\ accounts[Root].password = call.row.password
              /\ accounts[Root].platform = call.row.platform
          BY <1>2, <1>3, <4>1, <4>3, <5>1 DEF Account
        <5> QED BY <1>2, <4>1, <4>3, <5>2, <5>3, RowFacts
      <4> QED BY <4>2, <4>3
    <3>3. CASE \E v \in LoginAdmins(call.ws) : v # call.user
      BY <3>1, <3>3
    <3>4. CASE Keeps(call)
      BY <3>4
    <3>5. CASE call.user \notin LoginAdmins(call.ws) /\ call.user \in LoginAdmins(call.ws)'
      <4>1. members[call.ws][call.user] # "admin" /\ members'[call.ws][call.user] = "admin"
        BY <1>2, <3>2, <3>5 DEF LoginAdmins
      <4>5. call.ws = Home /\ call.user = Root
        BY <1>2, <1>4, <4>1
      <4>6. members[Home][Root] \in {"admin", "member"}
        BY DEF Ready, AccountTypeOK, AccountRoles
      <4>2. call.ws = Home /\ call.user = Root /\ members[Home][Root] = "member"
        BY <4>1, <4>5, <4>6
      <4>3. call.role = "member"
        BY <2>1, <4>2 DEF CopiesHold
      <4>4. call.want.active = "none"
        BY <2>1, <4>2, <4>3
      <4> QED BY <4>3, <4>4 DEF Keeps
    <3> QED BY <2>1, <3>2, <3>3, <3>4, <3>5 DEF CountHolds
  <2> QED BY <2>2, <2>5, <2>6
<1>14. CallStands(call)'
  BY <1>1, <1>7, <1>10, <1>12 DEF CallHolds, CallStands
<1>15. ~call.overtaken => CallFresh(call)'
  BY <1>1, <1>7, <1>11, <1>13 DEF CallHolds, CallFresh
<1> QED BY <1>14, <1>15 DEF CallHolds

\* A bootstrap that commits under an open call leaves the administrator, Home and its first
\* project, or has lost the race to a process that did.
LEMMA BootCommitStep ==
  ASSUME AccountIInv, NEW p \in Processes, BootCommit(p)
  PROVE  AccountIInv'
<1> USE DEF AccountIInv
<1> USE AccountConstants
<1>1. /\ boot' = [boot EXCEPT ![p] = [BootDown EXCEPT !.pc = "up"]] /\ UNCHANGED <<tokens, calls, mixed>>
      /\ boot[p].pc = "loaded"
  BY DEF BootCommit
<1>2. /\ boot' \in [Processes -> [pc : {"down", "loaded", "up"}, row : Account,
                               role : AccountRoles \cup {"none"},
                               grant : AccountRoles \cup {"none"},
                               home : BOOLEAN, project : BOOLEAN]]
      /\ BootsAgree'
  <2>1. PICK b : b = [BootDown EXCEPT !.pc = "up"]
    OBVIOUS
  <2>2. b.pc = "up" /\ b \in [pc : {"down", "loaded", "up"}, row : Account,
                               role : AccountRoles \cup {"none"},
                               grant : AccountRoles \cup {"none"},
                               home : BOOLEAN, project : BOOLEAN]
    BY <2>1 DEF BootDown, NoAccount, Account
  <2> QED BY <1>1, <2>1, <2>2 DEF AccountTypeOK, BootsAgree
<1>3. CASE BootConflict(boot[p])
  <2>1. Ready /\ UNCHANGED <<accounts, members, grants, projects>>
    BY <1>3, FirstBootStep DEF BootCommit
  <2>2. Ready'
    BY <2>1 DEF Ready
  <2> QED BY <1>1, <1>2, <2>1, <2>2, BootOnlyStep
<1>4. CASE ~BootConflict(boot[p])
  <2>1. boot[p].role = boot[p].grant /\ members[Home][Root] = grants[Home][First][Root]
    BY <1>1 DEF BootsAgree, RolesAgree
  <2>2. /\ \A u \in Users : u # Root => accounts'[u] = accounts[u]
        /\ accounts'[Root].known /\ accounts'[Root].password /\ accounts'[Root].platform
        /\ accounts' \in [Users -> Account]
    BY <1>4, BootFacts
  <2>3. /\ members' \in [Workspaces -> [Users -> AccountRoles \cup {"none"}]]
        /\ members'[Home][Root] = NewRole(boot[p].role, "admin", members[Home][Root])
        /\ \A w \in Workspaces, u \in Users : w # Home \/ u # Root => members'[w][u] = members[w][u]
    BY <1>4, BootFacts
  <2>4. /\ grants' \in [Workspaces -> [Projects -> [Users -> AccountRoles \cup {"none"}]]]
        /\ grants'[Home][First][Root] = NewRole(boot[p].grant, "admin", grants[Home][First][Root])
    BY <1>4, BootFacts
  <2>5. \A w \in Workspaces, q \in Projects, u \in Users :
               w # Home \/ q # First \/ u # Root => grants'[w][q][u] = grants[w][q][u]
    BY <1>4, BootFacts
  <2>6. /\ projects' \in [Workspaces -> SUBSET Projects]
        /\ First \in projects'[Home] /\ \A w \in Workspaces : projects[w] \subseteq projects'[w]
    BY <1>4, BootFacts
  <2>7. Ready'
    <3>1. CASE Blank
      <4>1. boot[p].role = "none"
        BY <3>1, FirstBootStep
      <4> QED BY <2>2, <2>3, <2>6, <4>1 DEF Ready, NewRole
    <3>2. CASE Ready
      BY <2>2, <2>3, <2>6, <3>2 DEF Ready, NewRole
    <3> QED BY <3>1, <3>2
  <2>8. members'[Home][Root] = grants'[Home][First][Root]
    BY <2>1, <2>3, <2>4 DEF NewRole
  <2>9. ASSUME NEW w \in Workspaces, NEW q \in Projects, NEW u \in Users
        PROVE  /\ ~mixed' /\ grants'[w][q][u] = "admin" => members'[w][u] = "admin"
               /\ grants'[w][q][u] # "none" => q \in projects'[w]
    <3>1. CASE w = Home /\ q = First /\ u = Root
      BY <2>6, <2>8, <3>1
    <3>2. CASE w # Home \/ q # First \/ u # Root
      <4>1. grants'[w][q][u] = grants[w][q][u]
        BY <2>5, <3>2
      <4>2. grants[w][q][u] # "none" => q \in projects'[w]
        BY <2>6 DEF RolesAgree
      <4>3. ~mixed' /\ grants[w][q][u] = "admin" => members[w][u] = "admin"
        BY <1>1 DEF RolesAgree, GrantsFollow
      <4>4. members[w][u] = "admin" => members'[w][u] = "admin"
        BY <2>3 DEF NewRole
      <4> QED BY <4>1, <4>2, <4>3, <4>4
    <3> QED BY <3>1, <3>2
  <2>10. RolesAgree'
    BY <2>8, <2>9 DEF RolesAgree, GrantsFollow
  <2>11. AccountsAgree'
    BY <2>2 DEF AccountsAgree
  <2>12. CallsHold'
    <3> SUFFICES ASSUME NEW c \in Callers PROVE CallHolds(calls[c])'
      BY DEF CallsHold
    <3>1. PICK call : call = calls[c]
      OBVIOUS
    <3>2. calls'[c] = call
      BY <1>1, <3>1
    <3>3. CASE Ready
      <4>1. CallHolds(call)'
        BY <1>1, <1>4, <3>1, <3>3, RaisedCall
      <4> QED BY <3>2, <4>1
              DEF CallHolds, CallStands, CallFresh, CopiesHold, RowHolds, CountHolds, LoginAdmins, Keeps, Ready
    <3>4. CASE Blank
      <4>1. call.op = "idle"
        BY <3>1, <3>4 DEF Blank
      <4> QED BY <3>2, <4>1 DEF CallHolds, CallStands, CallFresh
    <3> QED BY <3>3, <3>4
  <2>13. AccountTypeOK'
    BY <1>1, <1>2, <2>2, <2>3, <2>4, <2>6 DEF AccountTypeOK
  <2> QED BY <1>2, <2>7, <2>10, <2>11, <2>12, <2>13
<1> QED BY <1>3, <1>4

\* Every step of the accounts keeps the inductive invariant, of calls that overlap too.
LEMMA AccountStep == AccountIInv /\ [AccountNext]_accountVars => AccountIInv'
<1> SUFFICES ASSUME AccountIInv, [AccountNext]_accountVars PROVE AccountIInv'
  OBVIOUS
<1>1. CASE UNCHANGED accountVars
  <2>1. UNCHANGED <<accounts, members, grants, projects, tokens, calls, boot, mixed>>
    BY <1>1 DEF accountVars
  <2> QED BY <2>1, TokenStep DEF AccountIInv, AccountTypeOK
<1> QED BY <1>1, CreateWorkspaceStep, OpenSteps, UpsertMemberStep, UpdateMemberStep, CommitTokenStep,
           CommitMemberStep, CommitProjectStep, EndTokenStep, BootReadStep, BootCommitStep, StopStep
        DEF AccountNext

\* A call that commits leaves an administrator that can log in, if there was one, no other
\* call has overtaken it and its copy of the member's row is not stale.
LEMMA AnAdminStays ==
  ASSUME AccountIInv, NEW c \in Callers, CommitMember(c), ~calls[c].overtaken,
         calls[c].row = accounts[calls[c].user], LoginAdmins(calls[c].ws) # {},
         NEW w, w = calls[c].ws
  PROVE  LoginAdmins(w)' # {}
<1> USE DEF AccountIInv
<1>1. CASE InsertFails(calls[c])
  <2>1. UNCHANGED <<accounts, members>>
    BY <1>1 DEF CommitMember
  <2> QED BY <2>1 DEF LoginAdmins
<1>2. CASE ~InsertFails(calls[c])
  <2>1. PICK call : call = calls[c]
    OBVIOUS
  <2>2. /\ call \in AccountCall /\ call.op \in {"update", "upsert"} /\ CallHolds(call)
        /\ accounts'[call.user] = NewAccount(call)
        /\ \A u \in Users \ {call.user} : accounts'[u] = accounts[u]
    BY <1>2, <2>1, CommitFacts
  <2>3. /\ members'[call.ws][call.user] = NewRole(call.role, call.want.role, members[call.ws][call.user])
        /\ \A v \in Workspaces, u \in Users : v # call.ws \/ u # call.user => members'[v][u] = members[v][u]
    BY <1>2, <2>1, CommitFacts
  <2>4. call.ws \in Workspaces /\ call.user \in Users /\ call.want \in Payload /\ w = call.ws
    BY <2>1, <2>2 DEF AccountCall
  <2>5. CASE \E v \in LoginAdmins(call.ws) : v # call.user
    <3>1. PICK v \in LoginAdmins(call.ws) : v # call.user
      BY <2>5
    <3>2. v \in Users /\ accounts'[v] = accounts[v] /\ members'[call.ws][v] = members[call.ws][v]
      BY <2>2, <2>3, <2>4, <3>1 DEF LoginAdmins
    <3>3. v \in LoginAdmins(w)'
      BY <2>4, <3>1, <3>2 DEF LoginAdmins
    <3> QED BY <3>3
  <2>6. CASE call.user \notin LoginAdmins(call.ws)
    BY <2>1, <2>5, <2>6
  <2>7. CASE Keeps(call) /\ call.user \in LoginAdmins(call.ws)
    <3>1. members[call.ws][call.user] = "admin" /\ accounts[call.user].active /\ accounts[call.user].password
      BY <2>7 DEF LoginAdmins
    <3>2. members'[call.ws][call.user] = "admin"
      BY <2>3, <2>4, <2>7, <3>1 DEF NewRole, Keeps, Payload, AccountRoles
    <3>3. call.row.active = TRUE
      <4>1. call.row \in Account /\ call.row = accounts[call.user]
        BY <2>1, <2>2 DEF AccountCall
      <4> QED BY <3>1, <4>1 DEF Account
    <3>4. NextActive(call.want, call.row) = TRUE
      BY <2>4, <2>7, <3>3 DEF NextActive, Keeps, Payload
    <3>5. NewAccount(call).active = TRUE
      <4>1. accounts[call.user].active = TRUE
        BY <2>4, <3>1 DEF AccountTypeOK, Account
      <4> QED BY <3>3, <3>4, <4>1 DEF NewAccount
    <3>6. NewAccount(call).password
      BY <3>1 DEF NewAccount
    <3>7. call.user \in LoginAdmins(w)'
      BY <2>2, <2>4, <3>2, <3>5, <3>6 DEF LoginAdmins
    <3> QED BY <3>7
  <2> QED BY <2>1, <2>2, <2>5, <2>6, <2>7 DEF CallHolds, CallFresh, CountHolds
<1> QED BY <1>1, <1>2

\* Only the commit of a call on a member ends one.
LEMMA OnlyCommitEnds ==
  ASSUME AccountIInv, [AccountNext]_accountVars, NEW c \in Callers,
         calls[c].op \in {"update", "upsert"}, calls'[c].op = "idle"
  PROVE  CommitMember(c)
<1>1. calls' # calls /\ calls'[c].op # calls[c].op
  OBVIOUS
<1>2. AccountNext
  BY <1>1 DEF accountVars
<1>3. calls \in [Callers -> AccountCall]
  BY DEF AccountIInv, AccountTypeOK
<1>4. ASSUME NEW d \in Callers, NEW call, Begin(d, call) PROVE FALSE
  <2>1. d # c /\ calls' = [calls EXCEPT ![d] = call]
    BY <1>4 DEF Begin
  <2> QED BY <1>1, <1>3, <2>1
<1>5. ASSUME NEW d \in Callers, d # c, End(d) \/ Overtake(d) PROVE FALSE
  <2>1. calls'[c] = calls[c] \/ calls'[c] = [calls[c] EXCEPT !.overtaken = calls[c].op # "idle"]
    BY <1>3, <1>5 DEF End, Overtake
  <2>2. calls'[c].op = calls[c].op
    BY <1>3, <2>1 DEF AccountCall
  <2> QED BY <1>1, <2>2
<1>6. ASSUME NEW d \in Callers, CommitToken(d) PROVE FALSE
  <2>1. d # c /\ End(d)
    BY <1>6 DEF CommitToken
  <2> QED BY <1>5, <2>1
<1>7. ASSUME NEW d \in Callers, NEW p \in Projects, CommitProject(d, p) PROVE FALSE
  <2>1. d # c /\ (End(d) \/ Overtake(d))
    BY <1>7 DEF CommitProject
  <2> QED BY <1>5, <2>1
<1>8. ASSUME NEW d \in Callers, CommitMember(d) PROVE CommitMember(c)
  <2>1. End(d) \/ Overtake(d)
    BY <1>8 DEF CommitMember
  <2> QED BY <1>5, <1>8, <2>1
<1>9. ASSUME NEW w \in Workspaces, NEW u \in Users, CreateWorkspace(w, u) PROVE FALSE
  BY <1>1, <1>9 DEF CreateWorkspace
<1>10. ASSUME NEW w \in Workspaces, NEW u \in Users, NEW d \in Callers,
              Login(d, w, u) \/ CreateApiToken(d, w, u) \/ CreateProject(d, w, u)
       PROVE  FALSE
  BY <1>4, <1>10 DEF Login, CreateApiToken, CreateProject
<1>11. ASSUME NEW w \in Workspaces, NEW u \in Users, NEW d \in Callers, NEW by \in Users, NEW want \in Wants,
              UpsertMember(d, w, by, u, want) \/ UpdateMember(d, w, by, u, want)
       PROVE  FALSE
  BY <1>4, <1>11 DEF UpsertMember, UpdateMember
<1>12. ASSUME NEW t \in TokenNumbers, EndToken(t) PROVE FALSE
  BY <1>1, <1>12 DEF EndToken
<1>13. ASSUME NEW p \in Processes, BootRead(p) \/ BootCommit(p) \/ Stop(p) PROVE FALSE
  BY <1>1, <1>13 DEF BootRead, BootCommit, Stop
<1> QED BY <1>2, <1>6, <1>7, <1>8, <1>9, <1>10, <1>11, <1>12, <1>13 DEF AccountNext

\* The inductive invariant holds in every state of the accounts, for any users, workspaces,
\* projects, processes, tokens and calls that overlap, with the e-mail header trusted or not.
THEOREM AccountInvariance == AccountSpec => []AccountIInv
<1>1. AccountIInv /\ [AccountNext]_accountVars => AccountIInv'
  BY AccountStep
<1> QED BY <1>1, AccountInitially, PTL DEF AccountSpec

\* Whatever calls overlap, and although replicas start, bootstrap and stop in the middle of
\* them: whoever serves has been provisioned; a call on members that no other call has
\* overtaken leaves the workspace an administrator that can log in; and elevated project
\* roles are of administrators of the workspace until a call commits that another has
\* overtaken.
THEOREM AccountsGoverned == AccountSpec => AccountsAreGoverned
<1>1. AccountIInv => AccountTypeOK /\ GrantsFollow /\ Provisioned
  <2> SUFFICES ASSUME AccountIInv PROVE AccountTypeOK /\ GrantsFollow /\ Provisioned
    OBVIOUS
  <2>1. Serving => Ready /\ grants[Home][First][Root] # "none"
    BY DEF AccountIInv, RolesAgree, Ready
  <2> QED BY <2>1 DEF AccountIInv, RolesAgree, Ready, Provisioned
<1>2. AccountIInv /\ [AccountNext]_accountVars =>
        [\A c \in Callers, w \in Workspaces :
            (/\ calls[c].op \in {"update", "upsert"} /\ calls'[c].op = "idle"
             /\ ~calls[c].overtaken
             /\ calls[c].ws = w /\ calls[c].row = accounts[calls[c].user]
             /\ LoginAdmins(w) # {}) => (LoginAdmins(w))' # {}]_accountVars
  BY OnlyCommitEnds, AnAdminStays
<1> QED BY <1>1, <1>2, AccountInvariance, PTL DEF AccountSpec, AccountsAreGoverned, AdminKept

-----------------------------------------------------------------------------
(* Manifests and reports of evaluations *)

\* A manifest of n questions, as the validator takes it.
IsManifest(qs) ==
    /\ qs \in Seq([id : Nat, control : BOOLEAN, chars : Nat, expects : SUBSET Nat, criteria : BOOLEAN])
    /\ qs # <<>> /\ \A i \in DOMAIN qs : qs[i].id = i

\* What the case at hand is.
CaseIsKnown ==
    \/ report.kind = "manifest" /\ IsManifest(report.questions) /\ report.size \in Nat \ {0}
    \/ report.kind = "report" /\ report.results \in Seq(Results) /\ report.quality \in Qualities

\* The manifests enumerated are lists of questions that carry their number.
LEMMA ManifestFacts ==
  ASSUME NEW n \in Nat \ {0}, NEW qs \in ManifestsOf(n), qs # <<>>
  PROVE  IsManifest(qs)
<1> DEFINE Question == [id : Nat, control : BOOLEAN, chars : Nat, expects : SUBSET Nat, criteria : BOOLEAN]
<1>1. PICK m \in [controls : SUBSET (1..n), named : SUBSET (1..n), chars : [1..n -> CharLimits]] :
        qs = [i \in 1..n |-> [id |-> i, control |-> i \in m.controls, chars |-> m.chars[i],
                      expects |-> IF i \in m.named THEN {i} ELSE {}, criteria |-> TRUE]]
  BY DEF ManifestsOf
<1>2. \A i \in 1..n : m.chars[i] \in Nat
  BY <1>1, ReportConstants
<1>3. ASSUME NEW i \in 1..n PROVE qs[i] \in Question /\ qs[i].id = i
  <2>1. qs[i] = [id |-> i, control |-> i \in m.controls, chars |-> m.chars[i],
                 expects |-> IF i \in m.named THEN {i} ELSE {}, criteria |-> TRUE]
    BY <1>1
  <2>2. PICK more \in BOOLEAN : more = (i \in m.controls)
    <3>1. CASE i \in m.controls
      <4>1. (i \in m.controls) = TRUE
        BY <3>1
      <4> QED BY <4>1
    <3>2. CASE i \notin m.controls
      <4>1. (i \in m.controls) = FALSE
        BY <3>2
      <4> QED BY <4>1
    <3> QED BY <3>1, <3>2
  <2>3. PICK ids \in SUBSET Nat : ids = IF i \in m.named THEN {i} ELSE {}
    <3>1. {i} \in SUBSET Nat /\ {} \in SUBSET Nat
      OBVIOUS
    <3> QED BY <3>1
  <2>4. qs[i] = [id |-> i, control |-> more, chars |-> m.chars[i], expects |-> ids, criteria |-> TRUE]
    BY <2>1, <2>2, <2>3
  <2> QED BY <1>2, <2>4
<1>4. DOMAIN qs = 1..n /\ qs = [i \in 1..n |-> qs[i]]
  BY <1>1
<1> HIDE DEF Question
<1>5. qs \in Seq(Question)
  BY <1>3, <1>4
<1> QED BY <1>3, <1>4, <1>5 DEF IsManifest, Question

\* Every case is a manifest the validator takes or a report of graded results.
LEMMA CasesInitially == ReportsInit => CaseIsKnown
<1> SUFFICES ASSUME ReportsInit PROVE CaseIsKnown
  OBVIOUS
<1>1. ASSUME NEW n \in 1..MaxManifest, NEW size \in 1..MaxBatch, NEW qs \in ManifestsOf(n), ValidManifest(qs),
             report = [kind |-> "manifest", questions |-> qs, size |-> size]
      PROVE  CaseIsKnown
  <2>1. n \in Nat \ {0} /\ size \in Nat \ {0} /\ qs # <<>>
    BY <1>1, ReportConstants DEF ValidManifest
  <2>2. IsManifest(qs)
    BY <2>1, ManifestFacts
  <2> QED BY <1>1, <2>1, <2>2 DEF CaseIsKnown
<1>2. ASSUME NEW queried \in {{1}, {1, 2}}, NEW quality \in Qualities, NEW first \in {r \in Results : r.of = 1},
             NEW rest \in {<<>>} \cup {<<r>> : r \in Uniform},
             report = [kind |-> "report", asked |-> queried, results |-> <<first>> \o rest, quality |-> quality]
      PROVE  CaseIsKnown
  <2>1. Uniform \subseteq Results
    BY DEF Uniform
  <2>2. first \in Results /\ rest \in Seq(Results)
    <3>1. CASE rest = <<>>
      BY <3>1
    <3>2. CASE rest \in {<<r>> : r \in Uniform}
      <4>1. PICK r \in Results : rest = <<r>>
        BY <2>1, <3>2
      <4>2. <<r>> \in Seq(Results)
        OBVIOUS
      <4> QED BY <4>1, <4>2
    <3> QED BY <3>1, <3>2
  <2>3. <<first>> \o rest \in Seq(Results)
    BY <2>2
  <2> QED BY <1>2, <2>3 DEF CaseIsKnown
<1> QED BY <1>1, <1>2 DEF ReportsInit

\* Products grow with their factor.
LEMMA Products ==
  ASSUME NEW s \in Nat \ {0}, NEW a \in Int, NEW b \in Int, a <= b
  PROVE  a * s <= b * s
<1>1. b = a + (b - a) /\ b - a \in Nat
  OBVIOUS
<1>2. PICK d \in Nat : d = b - a
  BY <1>1
<1>3. b * s = (a + d) * s /\ (a + d) * s = a * s + d * s /\ d * s \in Nat
  BY <1>2
<1> QED BY <1>3

\* A manifest of n questions makes enough requests of s for all, and none too many.
LEMMA RequestCount ==
  ASSUME NEW n \in Nat \ {0}, NEW s \in Nat \ {0}, NEW m, m = (n + s - 1) \div s
  PROVE  m \in Nat /\ n <= m * s /\ (m - 1) * s < n
<1>1. PICK t \in Nat : t = n + s - 1
  OBVIOUS
<1>2. m = t \div s
  BY <1>1
<1>3. m \in Nat /\ m * s <= t /\ t < (m + 1) * s
  BY <1>2
<1>4. (m + 1) * s = m * s + s /\ (m - 1) * s = m * s - s /\ m * s \in Nat
  BY <1>3
<1> QED BY <1>1, <1>3, <1>4

\* Every question has its place in a request.
LEMMA PlaceFacts ==
  ASSUME NEW n \in Nat \ {0}, NEW s \in Nat \ {0}, NEW m \in Nat, n <= m * s, NEW i \in 1..n
  PROVE  \E k \in 1..m : (k - 1) * s < i /\ i <= k * s
<1> DEFINE S == {k \in Nat : i <= k * s}
<1>1. m \in S
  OBVIOUS
<1>2. S \in SUBSET Nat /\ S # {}
  BY <1>1
<1>3. PICK k \in S : \A l \in S : k <= l
  BY <1>2, SmallestOf
<1>4. k \in Nat /\ i <= k * s /\ k <= m
  BY <1>1, <1>3
<1>5. 0 * s = 0 /\ k # 0
  BY <1>4
<1>6. k - 1 \in Nat /\ k - 1 \notin S
  BY <1>3, <1>4, <1>5
<1>7. (k - 1) * s < i
  BY <1>6
<1> QED BY <1>4, <1>5, <1>7

\* A request holds the questions of its slice.
LEMMA BatchFacts ==
  ASSUME NEW qs, NEW n \in Nat \ {0}, IsManifest(qs), n = Len(qs), NEW s \in Nat \ {0}, NEW k \in Nat \ {0},
         (k - 1) * s < n
  PROVE  /\ Len(Batch(qs, s, k)) \in 1..s
         /\ DOMAIN Batch(qs, s, k) = 1..Len(Batch(qs, s, k))
         /\ \A j \in 1..s : (k - 1) * s + j <= n =>
              j \in DOMAIN Batch(qs, s, k) /\ Batch(qs, s, k)[j] = qs[(k - 1) * s + j]
         /\ \A j \in DOMAIN Batch(qs, s, k) : Batch(qs, s, k)[j].chars \in Nat
<1> DEFINE Question == [id : Nat, control : BOOLEAN, chars : Nat, expects : SUBSET Nat, criteria : BOOLEAN]
<1>1. qs \in Seq(Question) /\ DOMAIN qs = 1..n
  BY DEF IsManifest
<1>2. PICK a \in Nat : a = (k - 1) * s
  OBVIOUS
<1>3. k * s = a + s
  BY <1>2
<1>4. PICK b : b = Min({k * s, n})
  OBVIOUS
<1>5. b \in Nat /\ b <= a + s /\ b <= n /\ (b = n \/ b = a + s)
  <2>1. \E x \in {a + s, n} : \A y \in {a + s, n} : x <= y
    BY <1>2
  <2>2. b \in {a + s, n} /\ \A y \in {a + s, n} : b <= y
    BY <1>3, <1>4, <2>1 DEF Min
  <2> QED BY <1>2, <2>2
<1>6. Batch(qs, s, k) = SubSeq(qs, a + 1, b)
  BY <1>1, <1>2, <1>4 DEF Batch
<1>7. a + 1 \in 1..n /\ b \in 1..n /\ a + 1 <= b
  BY <1>2, <1>5
<1> HIDE DEF Question
<1>8. /\ SubSeq(qs, a + 1, b) \in Seq(Question) /\ Len(SubSeq(qs, a + 1, b)) = b - a
      /\ \A j \in 1..(b - a) : SubSeq(qs, a + 1, b)[j] = qs[a + j]
  <2>1. SubSeq(qs, a + 1, b) = [j \in 1..(b - a) |-> qs[a + j]]
    BY <1>1, <1>2, <1>5, <1>7
  <2>2. \A j \in 1..(b - a) : qs[a + j] \in Question
    BY <1>1, <1>2, <1>5, <1>7
  <2> QED BY <1>2, <1>5, <1>7, <2>1, <2>2
<1>9. PICK batch \in Seq(Question) : batch = Batch(qs, s, k)
  BY <1>6, <1>8
<1>10. Len(batch) = b - a /\ DOMAIN batch = 1..(b - a) /\ \A j \in 1..(b - a) : batch[j] = qs[a + j]
  BY <1>6, <1>8, <1>9
<1>11. Len(batch) \in 1..s
  BY <1>2, <1>5, <1>7, <1>10
<1>12. \A j \in 1..s : a + j <= n => j \in 1..(b - a)
  BY <1>2, <1>5, <1>7
<1>13. \A j \in DOMAIN batch : batch[j].chars \in Nat
  <2>1. \A j \in DOMAIN batch : batch[j] \in Question
    BY <1>9
  <2> QED BY <2>1 DEF Question
<1> QED BY <1>2, <1>9, <1>10, <1>11, <1>12, <1>13

\* A request asks for the context of its neediest question.
LEMMA NeediestFacts ==
  ASSUME NEW b, NEW n \in Nat \ {0}, DOMAIN b = 1..n, \A j \in 1..n : b[j].chars \in Nat
  PROVE  \A j \in 1..n : Max({b[i].chars : i \in DOMAIN b}) >= b[j].chars
<1> DEFINE S == {b[i].chars : i \in DOMAIN b}
           f == [i \in 1..n |-> b[i].chars]
<1>1. S \in SUBSET Nat /\ b[1].chars \in S
  OBVIOUS
<1>2. IsFiniteSet(S)
  <2>1. f \in [1..n -> S] /\ \A x \in S : \E i \in 1..n : f[i] = x
    OBVIOUS
  <2>2. f \in Surjection(1..n, S)
    BY <2>1 DEF Surjection
  <2>3. ExistsSurjection(1..n, S)
    BY <2>2 DEF ExistsSurjection
  <2> HIDE DEF S, f
  <2> QED BY <2>3, FS_NatSurjection
<1>3. PICK x \in S : \A y \in S : y <= x
  BY <1>1, <1>2, GreatestOf
<1>4. Max(S) \in S /\ \A y \in S : Max(S) >= y
  <2>1. \A y \in S : x >= y
    BY <1>1, <1>3
  <2> HIDE DEF S
  <2> QED BY <2>1, <1>3 DEF Max
<1> QED BY <1>4

\* What a request says of the questions it carries.
LEMMA RequestFacts ==
  ASSUME NEW b
  PROVE  /\ Request(b).questions = [j \in DOMAIN b |-> [id |-> b[j].id, chars |-> b[j].chars]]
         /\ Request(b).max_chars = Max({b[x].chars : x \in DOMAIN b})
BY DEF Request

\* Every question of a manifest is sent once and in order, for any sizes.
LEMMA NothingLost ==
  ASSUME CaseIsKnown PROVE NoQuestionIsLost
<1> SUFFICES ASSUME report.kind = "manifest" PROVE NoQuestionIsLost
  BY DEF NoQuestionIsLost
<1>1. PICK qs : qs = report.questions
  OBVIOUS
<1>2. PICK s \in Nat \ {0} : s = report.size
  BY DEF CaseIsKnown
<1>3. IsManifest(qs)
  BY <1>1 DEF CaseIsKnown
<1>4. PICK n \in Nat \ {0} : n = Len(qs) /\ DOMAIN qs = 1..n
  <2>1. Len(qs) \in Nat /\ DOMAIN qs = 1..Len(qs) /\ Len(qs) # 0
    BY <1>3 DEF IsManifest
  <2> QED BY <2>1
<1>5. PICK m : m = BatchCount(qs, s) /\ m = (n + s - 1) \div s
  BY <1>4 DEF BatchCount
<1>6. m \in Nat /\ n <= m * s /\ (m - 1) * s < n
  BY <1>5, RequestCount
<1>7. ASSUME NEW k \in 1..m
      PROVE  /\ k \in Nat \ {0} /\ (k - 1) * s < n
             /\ Len(Batch(qs, s, k)) \in 1..s
             /\ DOMAIN Batch(qs, s, k) = 1..Len(Batch(qs, s, k))
             /\ \A j \in 1..s : (k - 1) * s + j <= n =>
                  j \in DOMAIN Batch(qs, s, k) /\ Batch(qs, s, k)[j] = qs[(k - 1) * s + j]
             /\ \A j \in DOMAIN Batch(qs, s, k) : Batch(qs, s, k)[j].chars \in Nat
  <2>1. k - 1 \in Int /\ m - 1 \in Int /\ k - 1 <= m - 1 /\ (k - 1) * s \in Int /\ (m - 1) * s \in Int
    BY <1>6
  <2>2. (k - 1) * s <= (m - 1) * s
    BY <2>1, Products
  <2>3. k \in Nat \ {0} /\ (k - 1) * s < n
    BY <1>6, <2>1, <2>2
  <2> QED BY <1>3, <1>4, <2>3, BatchFacts
<1> DEFINE sent == Payloads(qs, s)
<1>8. DOMAIN sent = 1..m
  BY <1>5 DEF Payloads
<1>11. \A k \in 1..m : sent[k] = Request(Batch(qs, s, k))
  BY <1>5 DEF Payloads
<1> HIDE DEF sent
<1>9. ASSUME NEW i \in 1..n
      PROVE  \E k \in DOMAIN sent : \E j \in DOMAIN sent[k].questions :
                  /\ sent[k].questions[j].id = i
                  /\ sent[k].max_chars >= qs[i].chars
                  /\ i = (k - 1) * s + j
  <2>1. PICK k \in 1..m : (k - 1) * s < i /\ i <= k * s
    BY <1>6, PlaceFacts
  <2>2. PICK a \in Nat : a = (k - 1) * s /\ k * s = a + s
    <3>1. (k - 1) * s \in Nat /\ k * s = (k - 1) * s + s
      OBVIOUS
    <3> QED BY <3>1
  <2>3. PICK j \in 1..s : i = a + j
    BY <2>1, <2>2
  <2>4. PICK b : b = Batch(qs, s, k)
    OBVIOUS
  <2>5. /\ Len(b) \in 1..s /\ DOMAIN b = 1..Len(b) /\ j \in DOMAIN b /\ b[j] = qs[i]
        /\ \A l \in DOMAIN b : b[l].chars \in Nat
    <3>1. (k - 1) * s + j <= n /\ qs[(k - 1) * s + j] = qs[i]
      BY <2>2, <2>3
    <3>2. j \in DOMAIN Batch(qs, s, k) /\ Batch(qs, s, k)[j] = qs[(k - 1) * s + j]
      BY <1>7, <3>1
    <3> QED BY <1>7, <2>4, <3>1, <3>2
  <2>6. qs[i].id = i
    BY <1>3, <1>4 DEF IsManifest
  <2>7. \A l \in 1..Len(b) : Max({b[x].chars : x \in DOMAIN b}) >= b[l].chars
    <3>1. Len(b) \in Nat \ {0} /\ DOMAIN b = 1..Len(b) /\ \A l \in 1..Len(b) : b[l].chars \in Nat
      BY <2>5
    <3>2. PICK len \in Nat \ {0} : len = Len(b)
      BY <3>1
    <3>3. DOMAIN b = 1..len /\ \A l \in 1..len : b[l].chars \in Nat
      BY <3>1, <3>2
    <3>4. \A l \in 1..len : Max({b[x].chars : x \in DOMAIN b}) >= b[l].chars
      BY <3>3, NeediestFacts
    <3> QED BY <3>2, <3>4
  <2>8. sent[k].max_chars >= qs[i].chars
    <3>1. sent[k].max_chars = Max({b[x].chars : x \in DOMAIN b})
      <4>1. sent[k] = Request(b)
        BY <1>11, <2>4
      <4>2. Request(b).max_chars = Max({b[x].chars : x \in DOMAIN b})
        BY DEF Request
      <4> QED BY <4>1, <4>2
    <3>2. j \in 1..Len(b) /\ b[j] = qs[i]
      BY <2>5
    <3> QED BY <2>7, <3>1, <3>2
  <2>9. sent[k].questions = [l \in DOMAIN b |-> [id |-> b[l].id, chars |-> b[l].chars]]
    <3>1. sent[k] = Request(b)
      BY <1>11, <2>4
    <3> QED BY <3>1, RequestFacts
  <2>10. j \in DOMAIN sent[k].questions /\ sent[k].questions[j].id = i
    BY <2>5, <2>6, <2>9
  <2> QED BY <1>8, <2>2, <2>3, <2>8, <2>10
<1>10. ASSUME NEW k \in DOMAIN sent PROVE Len(sent[k].questions) \in 1..s
  <2>1. PICK b : b = Batch(qs, s, k)
    OBVIOUS
  <2>2. Len(b) \in 1..s /\ DOMAIN b = 1..Len(b)
    BY <1>7, <1>8, <2>1
  <2>3. sent[k].questions = [l \in 1..Len(b) |-> [id |-> b[l].id, chars |-> b[l].chars]]
    <3>1. sent[k].questions = [l \in DOMAIN b |-> [id |-> b[l].id, chars |-> b[l].chars]]
      <4>1. sent[k] = Request(b)
        BY <1>8, <1>11, <2>1
      <4> QED BY <4>1, RequestFacts
    <3> QED BY <2>2, <3>1, Zenon
  <2>4. Len(sent[k].questions) = Len(b)
    BY <2>2, <2>3
  <2> QED BY <2>2, <2>4
<1> QED BY <1>1, <1>2, <1>4, <1>9, <1>10 DEF NoQuestionIsLost, sent

\* Ranks are numbers, and the worst is reached when something blocks.
LEMMA RankFacts ==
  ASSUME NEW results, NEW quality
  PROVE  /\ Rank("PASS") = 0 /\ Rank("RISK") = 1 /\ Rank("BLOCK") = 2
         /\ Aggregate(results, quality).verdict = ExpectedVerdict(results, quality)
         /\ ExpectedVerdict(results, quality) = "BLOCK" <=> Blocks(results)
         /\ ExpectedVerdict(results, quality) = "PASS" <=>
              ~Blocks(results) /\ ~Graded(results, "PARTIAL") /\ quality # "dev"
         /\ ExpectedVerdict(results, quality) \in {"PASS", "RISK", "BLOCK"}
BY DEF Rank, Aggregate, ExpectedVerdict

\* A result of a report, field by field.
LEMMA ResultFacts ==
  ASSUME NEW rs \in Seq(Results), NEW i \in DOMAIN rs
  PROVE  /\ rs[i].grade \in Grades /\ rs[i].checks \in [Checks -> Statuses]
         /\ rs[i] = [of |-> rs[i].of, grade |-> rs[i].grade, checks |-> rs[i].checks]
<1>1. rs[i] \in Results
  OBVIOUS
<1> QED BY <1>1 DEF Results

\* What is graded worse still blocks, or is still partial.
LEMMA WorseBlocks ==
  ASSUME NEW rs, NEW worse, DOMAIN worse = DOMAIN rs, NEW quality,
         \A i \in DOMAIN rs : rs[i].grade = "FAIL" => worse[i].grade = "FAIL",
         \A i \in DOMAIN rs : rs[i].grade = "PARTIAL" => worse[i].grade \in {"PARTIAL", "FAIL"},
         \A i \in DOMAIN rs : \A c \in Checks : rs[i].checks[c] = "fail" => worse[i].checks[c] = "fail"
  PROVE  Rank(Aggregate(worse, quality).verdict) >= Rank(Aggregate(rs, quality).verdict)
<1>1. ASSUME Blocks(rs) PROVE Blocks(worse)
  <2>1. CASE Graded(rs, "FAIL")
    BY <2>1 DEF Graded, Blocks
  <2>2. CASE FailedChecks(rs) # {}
    <3>1. PICK f \in (DOMAIN rs) \X Checks : rs[f[1]].checks[f[2]] = "fail"
      BY <2>2 DEF FailedChecks
    <3>2. f[1] \in DOMAIN rs /\ f[2] \in Checks
      BY <3>1
    <3>3. worse[f[1]].checks[f[2]] = "fail"
      BY <3>1, <3>2
    <3>4. f \in FailedChecks(worse)
      BY <3>1, <3>3 DEF FailedChecks
    <3> QED BY <3>4 DEF Blocks
  <2> QED BY <1>1, <2>1, <2>2 DEF Blocks
<1>2. ASSUME Graded(rs, "PARTIAL"), ~Blocks(worse) PROVE Graded(worse, "PARTIAL")
  BY <1>2 DEF Graded, Blocks
<1>3. PICK x \in {"PASS", "RISK", "BLOCK"} : x = Aggregate(rs, quality).verdict
  BY RankFacts
<1>4. PICK y \in {"PASS", "RISK", "BLOCK"} : y = Aggregate(worse, quality).verdict
  BY RankFacts
<1>5. /\ x = "BLOCK" <=> Blocks(rs)
      /\ x = "PASS" <=> ~Blocks(rs) /\ ~Graded(rs, "PARTIAL") /\ quality # "dev"
      /\ y = "BLOCK" <=> Blocks(worse)
      /\ y = "PASS" <=> ~Blocks(worse) /\ ~Graded(worse, "PARTIAL") /\ quality # "dev"
  BY <1>3, <1>4, RankFacts
<1>6. x = "BLOCK" => y = "BLOCK"
  BY <1>1, <1>5
<1>7. y = "PASS" => x = "PASS"
  BY <1>1, <1>2, <1>5
<1>8. Rank("PASS") = 0 /\ Rank("RISK") = 1 /\ Rank("BLOCK") = 2
  BY RankFacts
<1>9. Rank(y) >= Rank(x)
  BY <1>6, <1>7, <1>8
<1> QED BY <1>3, <1>4, <1>9

\* A rate below one, where no check failed, is of a partial answer.
LEMMA RateFacts ==
  ASSUME NEW rs \in Seq(Results), NEW c \in Checks, FailedChecks(rs) = {}, Rate(rs, c)[1] < Rate(rs, c)[2]
  PROVE  \E i \in DOMAIN rs : rs[i].checks[c] = "partial"
<1> DEFINE applying == {i \in DOMAIN rs : rs[i].checks[c] # "not_applicable"}
           passing == {i \in applying : rs[i].checks[c] = "pass"}
<1>1. CASE applying = {}
  <2>1. Rate(rs, c) = <<1, 1>>
    BY <1>1 DEF Rate
  <2> QED BY <2>1
<1>2. CASE applying # {}
  <2>1. Rate(rs, c) = <<Cardinality(passing), Cardinality(applying)>>
    BY <1>2 DEF Rate
  <2>2. Cardinality(applying) \in Nat
    <3>1. applying \subseteq 1..Len(rs) /\ Len(rs) \in Nat
      OBVIOUS
    <3>2. IsFiniteSet(1..Len(rs))
      BY <3>1, FS_Interval
    <3>3. IsFiniteSet(applying)
      BY <3>1, <3>2, FS_Subset
    <3> QED BY <3>3, FS_CardinalityType
  <2>3. Cardinality(passing) < Cardinality(applying)
    BY <2>1
  <2>4. passing # applying
    <3>1. ASSUME passing = applying PROVE FALSE
      <4>1. Cardinality(passing) = Cardinality(applying)
        BY <3>1
      <4> HIDE DEF passing, applying
      <4> QED BY <2>2, <2>3, <4>1
    <3> QED BY <3>1
  <2>5. PICK i \in applying : i \notin passing
    BY <2>4
  <2>6. i \in DOMAIN rs /\ rs[i].checks[c] \notin {"pass", "not_applicable"}
    BY <2>5
  <2>7. rs[i].checks[c] \in Statuses
    BY <2>6, ResultFacts
  <2>8. rs[i].checks[c] # "fail"
    <3>1. ASSUME rs[i].checks[c] = "fail" PROVE FALSE
      <4>1. PICK f : f = <<i, c>>
        OBVIOUS
      <4>2. f \in FailedChecks(rs)
        BY <2>6, <3>1, <4>1 DEF FailedChecks
      <4> QED BY <4>2
    <3> QED BY <3>1
  <2> QED BY <2>6, <2>7, <2>8 DEF Statuses
<1> QED BY <1>1, <1>2

\* What VerdictsFollowGrades says of a report.
Sound(queried, rs, quality) ==
    /\ \A i \in DOMAIN rs :
          /\ \A c \in Checks : \A s \in Worse(rs[i].checks[c]) :
                Rank(Aggregate([rs EXCEPT ![i].checks[c] = s], quality).verdict)
                    >= Rank(Aggregate(rs, quality).verdict)
          /\ \A g \in WorseGrade(rs[i].grade) :
                Rank(Aggregate([rs EXCEPT ![i].grade = g], quality).verdict)
                    >= Rank(Aggregate(rs, quality).verdict)
    /\ ValidReport(queried, rs, Aggregate(rs, quality), quality) /\ Aggregate(rs, quality).verdict = "PASS" =>
          /\ \A q \in queried : \E i \in DOMAIN rs : rs[i].of = q /\ rs[i].grade = "PASS"
          /\ \A c \in Checks : Aggregate(rs, quality).rates[c][1] < Aggregate(rs, quality).rates[c][2] =>
                \E i \in DOMAIN rs : rs[i].checks[c] = "partial"
          /\ quality # "dev"

\* No verdict of a report is better than its grades, for any results.
LEMMA VerdictsFollow ==
  ASSUME NEW queried, NEW rs \in Seq(Results), NEW quality \in Qualities
  PROVE  Sound(queried, rs, quality)
<1>3. PICK now : now = Aggregate(rs, quality)
  OBVIOUS
<1>4. ASSUME NEW i \in DOMAIN rs, NEW c \in Checks, NEW s \in Worse(rs[i].checks[c]), NEW worse,
             worse = [rs EXCEPT ![i].checks[c] = s]
      PROVE  Rank(Aggregate(worse, quality).verdict) >= Rank(now.verdict)
  <2>1. rs[i] = [of |-> rs[i].of, grade |-> rs[i].grade, checks |-> rs[i].checks]
        /\ rs[i].checks \in [Checks -> Statuses]
    BY ResultFacts
  <2>2. PICK checks : checks = [rs[i].checks EXCEPT ![c] = s]
    OBVIOUS
  <2>3. PICK new : new = [rs[i] EXCEPT !.checks = checks]
    OBVIOUS
  <2>4. worse = [rs EXCEPT ![i] = new]
    BY <1>4, <2>2, <2>3
  <2>5. new.grade = rs[i].grade /\ new.checks = checks
    BY <2>1, <2>3
  <2>6. checks[c] = s /\ \A d \in Checks \ {c} : checks[d] = rs[i].checks[d]
    BY <2>1, <2>2
  <2>7. rs[i].checks[c] # "fail"
    <3>1. Worse("fail") = {}
      BY DEF Worse
    <3> QED BY <3>1
  <2>8. DOMAIN worse = DOMAIN rs /\ worse[i] = new /\ \A j \in (DOMAIN rs) \ {i} : worse[j] = rs[j]
    BY <2>4
  <2>9. \A j \in DOMAIN rs : worse[j].grade = rs[j].grade
    BY <2>5, <2>8
  <2>10. \A j \in DOMAIN rs : \A d \in Checks : rs[j].checks[d] = "fail" => worse[j].checks[d] = "fail"
    BY <2>5, <2>6, <2>7, <2>8
  <2>11. /\ \A j \in DOMAIN rs : rs[j].grade = "FAIL" => worse[j].grade = "FAIL"
         /\ \A j \in DOMAIN rs : rs[j].grade = "PARTIAL" => worse[j].grade \in {"PARTIAL", "FAIL"}
    BY <2>9
  <2> QED BY <1>3, <2>8, <2>10, <2>11, WorseBlocks
<1>5. ASSUME NEW i \in DOMAIN rs, NEW g \in WorseGrade(rs[i].grade), NEW worse,
             worse = [rs EXCEPT ![i].grade = g]
      PROVE  Rank(Aggregate(worse, quality).verdict) >= Rank(now.verdict)
  <2>1. rs[i] = [of |-> rs[i].of, grade |-> rs[i].grade, checks |-> rs[i].checks]
        /\ rs[i].grade \in Grades
    BY ResultFacts
  <2>2. PICK new : new = [rs[i] EXCEPT !.grade = g]
    OBVIOUS
  <2>3. worse = [rs EXCEPT ![i] = new]
    BY <1>5, <2>2
  <2>4. new.grade = g /\ new.checks = rs[i].checks
    BY <2>1, <2>2
  <2>5. DOMAIN worse = DOMAIN rs /\ worse[i] = new /\ \A j \in (DOMAIN rs) \ {i} : worse[j] = rs[j]
    BY <2>3
  <2>6. WorseGrade("FAIL") = {} /\ WorseGrade("PARTIAL") = {"FAIL"}
    BY DEF WorseGrade
  <2>7. rs[i].grade # "FAIL" /\ (rs[i].grade = "PARTIAL" => g = "FAIL")
    BY <2>6
  <2>8. \A j \in DOMAIN rs : rs[j].grade = "FAIL" => worse[j].grade = "FAIL"
    BY <2>5, <2>7
  <2>9. \A j \in DOMAIN rs : rs[j].grade = "PARTIAL" => worse[j].grade \in {"PARTIAL", "FAIL"}
    BY <2>4, <2>5, <2>7
  <2>10. \A j \in DOMAIN rs : \A d \in Checks : rs[j].checks[d] = "fail" => worse[j].checks[d] = "fail"
    BY <2>4, <2>5
  <2> QED BY <1>3, <2>5, <2>8, <2>9, <2>10, WorseBlocks
<1>6. ASSUME ValidReport(queried, rs, now, quality), now.verdict = "PASS"
      PROVE  /\ \A q \in queried : \E i \in DOMAIN rs : rs[i].of = q /\ rs[i].grade = "PASS"
             /\ \A c \in Checks : now.rates[c][1] < now.rates[c][2] =>
                        \E i \in DOMAIN rs : rs[i].checks[c] = "partial"
             /\ quality # "dev"
  <2>1. ~Blocks(rs) /\ ~Graded(rs, "PARTIAL") /\ quality # "dev"
    BY <1>3, <1>6, RankFacts
  <2>2. FailedChecks(rs) = {} /\ \A i \in DOMAIN rs : rs[i].grade # "FAIL" /\ rs[i].grade # "PARTIAL"
    BY <2>1 DEF Blocks, Graded
  <2>3. \A i \in DOMAIN rs : rs[i].grade = "PASS"
    BY <2>2, ResultFacts DEF Grades
  <2>4. {rs[i].of : i \in DOMAIN rs} = queried
    BY <1>6 DEF ValidReport
  <2>5. \A q \in queried : \E i \in DOMAIN rs : rs[i].of = q
    BY <2>4
  <2>6. now.rates = [c \in Checks |-> Rate(rs, c)]
    BY <1>3 DEF Aggregate
  <2>7. ASSUME NEW c \in Checks, now.rates[c][1] < now.rates[c][2]
        PROVE  \E i \in DOMAIN rs : rs[i].checks[c] = "partial"
    <3>1. Rate(rs, c)[1] < Rate(rs, c)[2]
      BY <2>6, <2>7
    <3> QED BY <2>2, <3>1, RateFacts
  <2> QED BY <2>1, <2>3, <2>5, <2>7
<1>7. \A i \in DOMAIN rs :
        /\ \A c \in Checks : \A s \in Worse(rs[i].checks[c]) :
              Rank(Aggregate([rs EXCEPT ![i].checks[c] = s], quality).verdict) >= Rank(now.verdict)
        /\ \A g \in WorseGrade(rs[i].grade) :
              Rank(Aggregate([rs EXCEPT ![i].grade = g], quality).verdict) >= Rank(now.verdict)
  BY <1>4, <1>5
<1>8. ValidReport(queried, rs, now, quality) /\ now.verdict = "PASS" =>
        /\ \A q \in queried : \E i \in DOMAIN rs : rs[i].of = q /\ rs[i].grade = "PASS"
        /\ \A c \in Checks : now.rates[c][1] < now.rates[c][2] =>
                        \E i \in DOMAIN rs : rs[i].checks[c] = "partial"
        /\ quality # "dev"
  BY <1>6
<1> QED BY <1>3, <1>7, <1>8 DEF Sound

\* A manifest is sent whole and in order, in requests no larger than the API takes, and no
\* verdict of a report is better than its grades, for manifests, requests and reports of any
\* length (question_batches, api_eval_payloads, _assert_report_aggregate_matches_results).
THEOREM EvalsHonest == ReportsSpec => []EvalsAreHonest
<1>1. CaseIsKnown /\ [ReportsNext]_report => CaseIsKnown'
  BY DEF ReportsNext, CaseIsKnown
<1>2. CaseIsKnown => VerdictsFollowGrades
  <2>1. VerdictsFollowGrades <=>
          (report.kind = "report" => Sound(report.asked, report.results, report.quality))
    BY DEF VerdictsFollowGrades, Sound
  <2> QED BY <2>1, VerdictsFollow DEF CaseIsKnown
<1>3. CaseIsKnown => EvalsAreHonest
  BY <1>2, NothingLost DEF EvalsAreHonest
<1> QED BY CasesInitially, <1>1, <1>3, PTL DEF ReportsSpec

-----------------------------------------------------------------------------
(* Packages of skill exports *)

\* A path dealt before another has fewer dealt before it.
LEMMA DealtFacts ==
  ASSUME NEW S \in SUBSET RoutePaths, IsFiniteSet(S)
  PROVE  /\ \A p \in S : IsFiniteSet(Dealt(S, p)) /\ Cardinality(Dealt(S, p)) \in Nat
         /\ \A p \in S : Turn(S, p) \in Nat
         /\ \A p, q \in S : q \in Dealt(S, p) =>
               Cardinality(Dealt(S, q)) < Cardinality(Dealt(S, p))
         /\ \A p, q \in S : p = q \/ p \in Dealt(S, q) \/ q \in Dealt(S, p)
         /\ \A p, q \in S : (q < p /\ GroupOf[q] = GroupOf[p]) => Turn(S, q) < Turn(S, p)
<1> DEFINE Mates(p) == {q \in Ahead(S, p) : GroupOf[q] = GroupOf[p]}
<1>1. \A p \in S : p \in Nat /\ GroupOf[p] \in Nat
  BY SkillPackagesAssumption
<1>2. \A p \in S : Mates(p) \subseteq S /\ Dealt(S, p) \subseteq S
  BY DEF Ahead, Dealt
<1>3. \A p \in S : /\ IsFiniteSet(Mates(p)) /\ Cardinality(Mates(p)) \in Nat
                   /\ IsFiniteSet(Dealt(S, p)) /\ Cardinality(Dealt(S, p)) \in Nat
  BY <1>2, FS_Subset, FS_CardinalityType
<1>4. \A p \in S : Turn(S, p) = Cardinality(Mates(p))
  BY DEF Turn
<1>5. \A p \in S : Turn(S, p) \in Nat
  BY <1>3, <1>4
<1>6. ASSUME NEW p \in S, NEW q \in S, q < p, GroupOf[q] = GroupOf[p]
      PROVE  Turn(S, q) < Turn(S, p)
  <2>1. q \in Mates(p) /\ q \notin Mates(q)
    BY <1>1, <1>6 DEF Ahead
  <2>2. Mates(q) \subseteq Mates(p)
    BY <1>1, <1>6 DEF Ahead
  <2> HIDE DEF Mates
  <2>3. Mates(q) # Mates(p)
    BY <2>1
  <2>4. Cardinality(Mates(q)) < Cardinality(Mates(p))
    BY <1>3, <2>2, <2>3, FS_Subset
  <2> QED BY <1>4, <2>4
<1> HIDE DEF Mates
<1>7. ASSUME NEW p \in S, NEW q \in S, p # q
      PROVE  p \in Dealt(S, q) \/ q \in Dealt(S, p)
  <2>1. CASE GroupOf[p] = GroupOf[q]
    BY <1>1, <1>5, <1>6, <1>7, <2>1 DEF Dealt
  <2>2. CASE GroupOf[p] # GroupOf[q]
    BY <1>1, <1>5, <1>7, <2>2 DEF Dealt
  <2> QED BY <2>1, <2>2
<1>8. ASSUME NEW p \in S, NEW q \in S, q \in Dealt(S, p)
      PROVE  Cardinality(Dealt(S, q)) < Cardinality(Dealt(S, p))
  <2>1. q \notin Dealt(S, q)
    BY <1>1, <1>5 DEF Dealt
  <2>2. Dealt(S, q) \subseteq Dealt(S, p)
    <3> SUFFICES ASSUME NEW x \in Dealt(S, q)
                 PROVE  x \in Dealt(S, p)
      OBVIOUS
    <3>1. /\ x \in S
          /\ \/ Turn(S, x) < Turn(S, q)
             \/ Turn(S, x) = Turn(S, q) /\ GroupOf[x] < GroupOf[q]
      BY DEF Dealt
    <3>2. \/ Turn(S, q) < Turn(S, p)
          \/ Turn(S, q) = Turn(S, p) /\ GroupOf[q] < GroupOf[p]
      BY <1>8 DEF Dealt
    <3>3. \/ Turn(S, x) < Turn(S, p)
          \/ Turn(S, x) = Turn(S, p) /\ GroupOf[x] < GroupOf[p]
      BY <1>1, <1>5, <3>1, <3>2
    <3> QED BY <3>1, <3>3 DEF Dealt
  <2>3. Dealt(S, q) # Dealt(S, p)
    BY <1>8, <2>1
  <2> QED BY <1>3, <2>2, <2>3, FS_Subset
<1> QED BY <1>3, <1>5, <1>6, <1>7, <1>8

\* Where a path is left out, the dealt ones are those before one that is left out too, and as
\* many as there is room for.
LEMMA DealtAreFirst ==
  ASSUME NEW S \in SUBSET RoutePaths, IsFiniteSet(S), NEW limit \in Nat \ {0},
         NEW p \in S, p \notin Balanced(S, limit)
  PROVE  Cardinality(Balanced(S, limit)) = limit
<1> DEFINE B == Balanced(S, limit)
           before(q) == Cardinality(Dealt(S, q))
           out == {before(q) : q \in S \ B}
<1>1. \A q \in S : before(q) \in Nat /\ (q \in B <=> before(q) < limit)
  BY DealtFacts DEF Balanced
<1>2. B \subseteq S
  BY DEF Balanced
<1>3. PICK m \in S \ B : \A q \in S \ B : before(m) <= before(q)
  <2>1. out \in SUBSET Nat /\ out # {}
    BY <1>1
  <2>2. PICK n \in out : \A k \in out : n <= k
    <3> HIDE DEF out
    <3> QED BY <2>1, SmallestOf
  <2> QED BY <2>2
<1>4. B = Dealt(S, m)
  <2>1. \A q \in B : q \in Dealt(S, m)
    <3> TAKE q \in B
    <3>1. q # m /\ q \in S
      BY <1>2, <1>3
    <3>2. ~(m \in Dealt(S, q))
      <4> SUFFICES ASSUME m \in Dealt(S, q)
                   PROVE  FALSE
        OBVIOUS
      <4>1. before(m) < before(q)
        BY <3>1, DealtFacts
      <4> QED BY <1>1, <1>3, <3>1, <4>1
    <3> QED BY <3>1, <3>2, DealtFacts
  <2>2. \A q \in Dealt(S, m) : q \in B
    <3> TAKE q \in Dealt(S, m)
    <3>1. q \in S
      BY DEF Dealt
    <3>2. before(q) < before(m)
      BY <3>1, DealtFacts
    <3> QED BY <1>1, <1>3, <3>1, <3>2
  <2> QED BY <2>1, <2>2
<1>5. IsFiniteSet(B) /\ Cardinality(B) = before(m) /\ limit <= before(m)
  BY <1>1, <1>3, <1>4, DealtFacts
<1>6. PICK last \in B : \A q \in B : before(q) <= before(last)
  <2> DEFINE ins == {before(q) : q \in B}
  <2>1. B # {}
    <3>1. Cardinality(B) \in Nat /\ Cardinality(B) # 0
      BY <1>1, <1>5
    <3> QED BY <3>1, FS_EmptySet
  <2>2. ins \in SUBSET Nat /\ ins # {}
    BY <1>1, <1>2, <2>1
  <2>3. IsFiniteSet(ins)
    <3>1. ins \subseteq 0..limit
      BY <1>1, <1>2
    <3>2. IsFiniteSet(0..limit)
      BY FS_Interval
    <3> HIDE DEF ins
    <3> QED BY <3>1, <3>2, FS_Subset
  <2>4. PICK n \in ins : \A k \in ins : k <= n
    <3> HIDE DEF ins
    <3> QED BY <2>2, <2>3, GreatestOf
  <2> QED BY <2>4
<1>7. B \ {last} = Dealt(S, last)
  <2>1. last \in S
    BY <1>2
  <2>2. ASSUME NEW q \in B \ {last}
        PROVE  q \in Dealt(S, last)
    <3>1. q \in S /\ before(q) <= before(last)
      BY <1>2, <1>6
    <3>2. ~(last \in Dealt(S, q))
      <4> SUFFICES ASSUME last \in Dealt(S, q)
                   PROVE  FALSE
        OBVIOUS
      <4>1. before(last) < before(q)
        BY <2>1, <3>1, DealtFacts
      <4> QED BY <1>1, <2>1, <3>1, <4>1
    <3> QED BY <2>1, <3>1, <3>2, DealtFacts
  <2>3. ASSUME NEW q \in Dealt(S, last)
        PROVE  q \in B \ {last}
    <3>1. q \in S
      BY DEF Dealt
    <3>2. before(q) < before(last)
      BY <2>1, <3>1, DealtFacts
    <3>3. q # last
      BY <1>1, <2>1, <3>2
    <3> QED BY <1>1, <1>6, <2>1, <3>1, <3>2, <3>3
  <2> QED BY <2>2, <2>3
<1>8. Cardinality(B) - 1 = before(last)
  <2> HIDE DEF B
  <2>1. Cardinality(B \ {last}) = Cardinality(B) - 1
    BY <1>5, <1>6, FS_RemoveElement
  <2> QED BY <1>7, <2>1
<1>9. before(last) < limit
  BY <1>1, <1>2, <1>6
<1>10. Cardinality(B) \in Nat
  BY <1>1, <1>5
<1> QED BY <1>1, <1>5, <1>8, <1>9, <1>10

\* While a group has a path left out, no other group has two paths more.
LEMMA DealtFairly ==
  ASSUME NEW S \in SUBSET RoutePaths, IsFiniteSet(S), NEW limit \in Nat \ {0},
         NEW p \in S, p \notin Balanced(S, limit), NEW q \in Balanced(S, limit)
  PROVE  Cardinality({x \in Balanced(S, limit) : GroupOf[x] = GroupOf[q]})
           <= Cardinality({x \in Balanced(S, limit) : GroupOf[x] = GroupOf[p]}) + 1
<1> DEFINE B == Balanced(S, limit)
           out == {x \in S \ B : GroupOf[x] = GroupOf[p]}
           share(y) == {x \in B : GroupOf[x] = GroupOf[y]}
           mates(y) == {x \in Ahead(S, y) : GroupOf[x] = GroupOf[y]}
<1>1. /\ B \subseteq S /\ S \subseteq Nat
      /\ \A x, y \in S : y \in B /\ x \in Dealt(S, y) => x \in B
  <2>1. B \subseteq S /\ S \subseteq Nat
    BY SkillPackagesAssumption DEF Balanced
  <2>2. \A x \in S : Cardinality(Dealt(S, x)) \in Nat /\ (x \in B <=> Cardinality(Dealt(S, x)) < limit)
    BY DealtFacts DEF Balanced
  <2>3. ASSUME NEW x \in S, NEW y \in S, y \in B, x \in Dealt(S, y) PROVE x \in B
    <3>1. Cardinality(Dealt(S, x)) < Cardinality(Dealt(S, y))
      BY <2>3, DealtFacts
    <3> QED BY <2>2, <2>3, <3>1
  <2> QED BY <2>1, <2>3
<1>2. PICK m \in out : \A x \in out : m <= x
  <2>1. out \in SUBSET Nat /\ out # {}
    BY <1>1
  <2> HIDE DEF out
  <2> QED BY <2>1, SmallestOf
<1>3. m \in S /\ m \notin B /\ GroupOf[m] = GroupOf[p]
  BY <1>2
<1>4. share(p) = mates(m)
  <2>1. ASSUME NEW x \in share(p)
        PROVE  x \in mates(m)
    <3>1. x \in B /\ x \in S /\ x # m /\ GroupOf[x] = GroupOf[m]
      BY <1>1, <1>3
    <3>2. ~(m < x)
      <4> SUFFICES ASSUME m < x
                   PROVE  FALSE
        OBVIOUS
      <4>1. Turn(S, m) < Turn(S, x)
        BY <1>3, <3>1, DealtFacts
      <4>2. m \in Dealt(S, x)
        BY <1>3, <4>1 DEF Dealt
      <4> QED BY <1>1, <1>3, <3>1, <4>2
    <3>3. x < m
      BY <1>1, <1>3, <3>1, <3>2
    <3> QED BY <3>1, <3>3 DEF Ahead
  <2>2. ASSUME NEW x \in mates(m)
        PROVE  x \in share(p)
    <3>1. x \in S /\ x < m /\ GroupOf[x] = GroupOf[p]
      BY <1>3 DEF Ahead
    <3>2. ~(m <= x)
      BY <1>1, <1>3, <3>1
    <3>3. x \notin out
      BY <1>2, <3>2
    <3> QED BY <3>1, <3>3
  <2> QED BY <2>1, <2>2
<1>5. Cardinality(share(p)) = Turn(S, m)
  BY <1>4 DEF Turn
<1>6. IsFiniteSet(share(q)) /\ share(q) \in SUBSET Nat /\ q \in share(q)
  <2>1. share(q) \subseteq S
    BY <1>1
  <2>2. IsFiniteSet(share(q))
    <3> HIDE DEF share
    <3> QED BY <2>1, FS_Subset
  <2> QED BY <1>1, <2>1, <2>2
<1>7. PICK last \in share(q) : \A x \in share(q) : x <= last
  <2> HIDE DEF share
  <2> QED BY <1>6, GreatestOf
<1>8. last \in B /\ last \in S /\ GroupOf[last] = GroupOf[q]
  BY <1>1, <1>7
<1>9. share(q) \subseteq mates(last) \cup {last}
  <2> SUFFICES ASSUME NEW x \in share(q), x # last
               PROVE  x \in mates(last)
    OBVIOUS
  <2>1. x \in S /\ x \in Nat /\ last \in Nat /\ x <= last /\ GroupOf[x] = GroupOf[last]
    BY <1>1, <1>7, <1>8
  <2>2. x < last
    BY <2>1
  <2> QED BY <2>1, <2>2 DEF Ahead
<1>10. Cardinality(share(q)) <= Turn(S, last) + 1
  <2>1. mates(last) \subseteq S /\ last \notin mates(last)
    BY <1>1, <1>8 DEF Ahead
  <2>2. Turn(S, last) = Cardinality(mates(last))
    BY DEF Turn
  <2> HIDE DEF mates, share
  <2>3. IsFiniteSet(mates(last))
    BY <2>1, FS_Subset
  <2>4. /\ IsFiniteSet(mates(last) \cup {last})
        /\ Cardinality(mates(last) \cup {last}) = Cardinality(mates(last)) + 1
    BY <2>1, <2>3, FS_AddElement
  <2>5. Cardinality(share(q)) <= Cardinality(mates(last) \cup {last})
    BY <1>9, <2>4, FS_Subset
  <2> QED BY <2>2, <2>4, <2>5
<1>11. Turn(S, last) <= Turn(S, m)
  <2>1. ~(Turn(S, m) < Turn(S, last))
    <3> SUFFICES ASSUME Turn(S, m) < Turn(S, last)
                 PROVE  FALSE
      OBVIOUS
    <3>1. m \in Dealt(S, last)
      BY <1>3 DEF Dealt
    <3> QED BY <1>1, <1>3, <1>8, <3>1
  <2>2. Turn(S, m) \in Nat /\ Turn(S, last) \in Nat
    BY <1>3, <1>8, DealtFacts
  <2> QED BY <2>1, <2>2
<1>12. Cardinality(share(q)) \in Nat
  <2> HIDE DEF share
  <2> QED BY <1>6, FS_CardinalityType
<1>13. Turn(S, m) \in Nat /\ Turn(S, last) \in Nat
  BY <1>3, <1>8, DealtFacts
<1>14. Cardinality(share(q)) <= Cardinality(share(p)) + 1
  BY <1>5, <1>10, <1>11, <1>12, <1>13
<1> QED BY <1>14

\* What goes into a package.
ReadOf(title, first, later) ==
    {title} \cup {first[r] : r \in Covered} \cup {later[r] : r \in Covered}
      \cup HeadingTexts \cup pinned.titles

\* The files of a package that was reviewed with a comment.
FilesOf(pages, texts, status, comment) ==
    [pages |-> [f \in PackageFiles |-> Sealed(pages[f])],
     manifest |-> Sealed([texts |-> texts, inventory |-> pages, status |-> status, comment |-> comment])]

\* A package is what the compiler made of a title, of the names it read twice and of the lines
\* it looked for, and it has its files while it may be approved; what a review changes of them is
\* what they say of the review.
IsMadeOf(package, title, first, later, markers) ==
    LET pages == Rendered(title, first, later)
        manifest == Manifest(title, first, pages)
    IN  /\ package = [status |-> package.status, hash |-> PackageHash(pages, manifest),
                      findings |-> Findings(pages, manifest, markers),
                      files |-> package.files, read |-> ReadOf(title, first, later)]
        /\ package.status \in {"draft", "failed", "approved", "rejected", "invalidated"}
        /\ package.findings # {} => package.status \in {"failed", "rejected", "invalidated"}
        /\ package.status \in {"draft", "approved"} \/ package.files # Unsealed =>
             /\ package.findings = {}
             /\ \E comment \in Comments \cup {"none"} :
                  package.files = FilesOf(pages, manifest.texts,
                      IF package.status = "approved" THEN "approved" ELSE "draft", comment)

IsMade(package) ==
    \E title \in SkillTitles, first, later \in [Covered -> ResourceNames], markers \in Markers :
        IsMadeOf(package, title, first, later, markers)

\* Every package is what one compilation made, but for its review.
PackagesAreMade == \A e \in DOMAIN packages : IsMade(packages[e])

\* No two packages have the same hash.
HashesDiffer == \A d, e \in DOMAIN packages : packages[d].hash = packages[e].hash => d = e

\* The inductive invariant of SkillPackages.
PackageIInv ==
    /\ pinned \in Pins
    /\ named \in [Covered -> ResourceNames]
    /\ compiling # NoCompile =>
         compiling.title \in SkillTitles /\ compiling.first \in [Covered -> ResourceNames]
    /\ packages \in Seq({packages[e] : e \in DOMAIN packages})
    /\ PackagesAreMade /\ HashesDiffer

\* A sequence is one of what it holds.
LEMMA SeqOfItsOwn ==
  \A S : \A s \in Seq(S) : s \in Seq({s[i] : i \in DOMAIN s})
<1> TAKE S
<1> TAKE s \in Seq(S)
<1> DEFINE T == {s[i] : i \in DOMAIN s}
<1>1. Len(s) \in Nat /\ DOMAIN s = 1..Len(s) /\ s \in [1..Len(s) -> S]
  OBVIOUS
<1>2. s \in [1..Len(s) -> T]
  BY <1>1
<1> HIDE DEF T
<1>3. [1..Len(s) -> T] \subseteq Seq(T)
  BY <1>1
<1> QED BY <1>2, <1>3 DEF T

\* A step that changes one package.
LEMMA OnePackage ==
  ASSUME PackageIInv, NEW e \in DOMAIN packages, NEW x,
         packages' = [packages EXCEPT ![e] = x]
  PROVE  /\ DOMAIN packages' = DOMAIN packages /\ Len(packages') = Len(packages)
         /\ packages'[e] = x
         /\ \A d \in DOMAIN packages : d # e => packages'[d] = packages[d]
         /\ packages' \in Seq({packages'[d] : d \in DOMAIN packages'})
<1> DEFINE S == {packages[d] : d \in DOMAIN packages}
<1>1. packages \in Seq(S) /\ e \in DOMAIN packages
  BY DEF PackageIInv
<1> HIDE DEF S
<1>2. Len(packages) \in Nat /\ DOMAIN packages = 1..Len(packages)
  BY <1>1
<1>3. /\ DOMAIN packages' = DOMAIN packages /\ packages'[e] = x
      /\ \A d \in DOMAIN packages : d # e => packages'[d] = packages[d]
  BY <1>2
<1>4. packages \in Seq(S \cup {x})
  BY <1>1
<1>5. packages' \in Seq(S \cup {x})
  BY <1>1, <1>4
<1>6. Len(packages') = Len(packages)
  BY <1>2, <1>3, <1>5
<1>7. packages' \in Seq({packages'[d] : d \in DOMAIN packages'})
  <2>1. PICK now, T : now = packages' /\ T = S \cup {x}
    OBVIOUS
  <2>2. now \in Seq(T)
    BY <1>5, <2>1
  <2>3. now \in Seq({now[d] : d \in DOMAIN now})
    BY <2>2, SeqOfItsOwn
  <2> QED BY <2>1, <2>3
<1> QED BY <1>3, <1>6, <1>7

\* The fields of what is rendered.
LEMMA RenderedFacts ==
  ASSUME NEW title, NEW first, NEW later, Covered # {},
         NEW pages, pages = Rendered(title, first, later)
  PROVE  /\ pages = [f \in PackageFiles |-> pages[f]]
         /\ pages["skill"] = Skill(title) /\ pages["readme"] = Readme(title)
         /\ pages["structure"] = DataStructure(first) /\ pages["map"] = ResourceMap(later)
         /\ pages["coverage"] = SourceCoverage(first) /\ pages["freshness"] = FreshnessPage(first)
         /\ pages["routes"] = TaskRoutes /\ pages["onboarding"] = Playbook({"docs", "config"})
         /\ pages["architecture"] = Playbook({"docs", "runtime", "config"})
         /\ pages["debugging"] = Playbook({"runtime", "tests", "config", "ci_release"})
         /\ pages["impact"] = Playbook(RouteKinds) /\ pages["smoke"] = SmokeQueries(first)
         /\ pages["fixed"] = Fixed
<1>1. DOMAIN pages = PackageFiles
  BY DEF Rendered, PackageFiles
<1>2. pages = [f \in DOMAIN pages |-> pages[f]]
  BY DEF Rendered
<1>3. /\ pages.skill = Skill(title) /\ pages.readme = Readme(title)
      /\ pages.structure = DataStructure(first) /\ pages.map = ResourceMap(later)
      /\ pages.coverage = SourceCoverage(first) /\ pages.freshness = FreshnessPage(first)
      /\ pages.routes = TaskRoutes /\ pages.onboarding = Playbook({"docs", "config"})
  BY DEF Rendered
<1>4. /\ pages.architecture = Playbook({"docs", "runtime", "config"})
      /\ pages.debugging = Playbook({"runtime", "tests", "config", "ci_release"})
      /\ pages.impact = Playbook(RouteKinds) /\ pages.smoke = SmokeQueries(first)
      /\ pages.fixed = Fixed
  BY DEF Rendered
<1> QED BY <1>1, <1>2, <1>3, <1>4

\* Every text of a file is one that went in, redacted, and every text that went in is shown.
LEMMA TextsShown ==
  ASSUME NEW title, NEW first, NEW later, NEW pages, pages = Rendered(title, first, later),
         NEW read, read = ReadOf(title, first, later)
  PROVE  /\ \A f \in PackageFiles : \A t \in pages[f].texts : \E u \in read : t = Safe(u)
         /\ \A t \in Manifest(title, first, pages).texts : \E u \in read : t = Safe(u)
         /\ \A u \in read : \E f \in PackageFiles : Safe(u) \in pages[f].texts
         /\ pages["structure"].rows = Balanced(ManifestRows, FileLimit)
         /\ pages = [f \in PackageFiles |-> pages[f]]
<1>1. Covered # {}
  BY SkillPackagesAssumption
<1> DEFINE Fits(texts) == \A t \in texts : \E u \in read : t = Safe(u)
<1>2. /\ title \in read /\ \A r \in Covered : first[r] \in read /\ later[r] \in read
      /\ HeadingTexts \subseteq read /\ pinned.titles \subseteq read
      /\ \A u \in read : \/ u = title \/ u \in HeadingTexts \/ u \in pinned.titles
                         \/ \E r \in Covered : u = first[r] \/ u = later[r]
  BY DEF ReadOf
<1>3. Fits({Safe(title)}) /\ Fits(SafeNames(first)) /\ Fits(SafeNames(later)) /\ Fits({})
      /\ Fits({Safe(t) : t \in HeadingTexts}) /\ Fits({Safe(t) : t \in pinned.titles})
  BY <1>2 DEF SafeNames
<1>4. SafeNames(first) # {}
  BY <1>1 DEF SafeNames
<1>5. Fits({CHOOSE t \in SafeNames(first) : TRUE})
  <2>1. (CHOOSE t \in SafeNames(first) : TRUE) \in SafeNames(first)
    BY <1>4
  <2> QED BY <1>3, <2>1
<1>6. /\ pages["skill"].texts = {Safe(title)} /\ pages["readme"].texts = {Safe(title)}
      /\ pages["structure"].texts = SafeNames(first) \cup {Safe(t) : t \in HeadingTexts}
      /\ pages["structure"].rows = Balanced(ManifestRows, FileLimit)
      /\ pages["map"].texts = SafeNames(later) \cup {Safe(t) : t \in pinned.titles}
      /\ pages["coverage"].texts = SafeNames(first) /\ pages["freshness"].texts = SafeNames(first)
      /\ pages["smoke"].texts = {CHOOSE t \in SafeNames(first) : TRUE}
      /\ \A f \in {"routes", "onboarding", "architecture", "debugging", "impact", "fixed"} :
            pages[f].texts = {}
  <2>1. pages["skill"].texts = {Safe(title)} /\ pages["readme"].texts = {Safe(title)}
    <3>1. pages["skill"] = Skill(title) /\ pages["readme"] = Readme(title)
      BY <1>1, RenderedFacts
    <3> QED BY <3>1 DEF Skill, Readme, Shows
  <2>2. /\ pages["structure"].texts = SafeNames(first) \cup {Safe(t) : t \in HeadingTexts}
        /\ pages["structure"].rows = Balanced(ManifestRows, FileLimit)
    <3>1. pages["structure"] = DataStructure(first)
      BY <1>1, RenderedFacts
    <3> QED BY <3>1 DEF DataStructure, Shows
  <2>3. pages["map"].texts = SafeNames(later) \cup {Safe(t) : t \in pinned.titles}
    <3>1. pages["map"] = ResourceMap(later)
      BY <1>1, RenderedFacts
    <3> QED BY <3>1 DEF ResourceMap, Shows
  <2>4. pages["coverage"].texts = SafeNames(first) /\ pages["freshness"].texts = SafeNames(first)
    <3>1. pages["coverage"] = SourceCoverage(first) /\ pages["freshness"] = FreshnessPage(first)
      BY <1>1, RenderedFacts
    <3> QED BY <3>1 DEF SourceCoverage, FreshnessPage, Shows
  <2>5. pages["smoke"].texts = {CHOOSE t \in SafeNames(first) : TRUE}
    <3>1. pages["smoke"] = SmokeQueries(first)
      BY <1>1, RenderedFacts
    <3> QED BY <3>1 DEF SmokeQueries, Shows
  <2>6. \A f \in {"routes", "onboarding", "architecture", "debugging", "impact", "fixed"} :
            pages[f].texts = {}
    BY <1>1, RenderedFacts DEF TaskRoutes, Playbook, Fixed, Shows
  <2> QED BY <2>1, <2>2, <2>3, <2>4, <2>5, <2>6
<1>11. \A f \in PackageFiles : Fits(pages[f].texts)
  <2>1. Fits(SafeNames(first) \cup {Safe(t) : t \in HeadingTexts})
    BY <1>3
  <2>2. Fits(SafeNames(later) \cup {Safe(t) : t \in pinned.titles})
    BY <1>3
  <2> HIDE DEF Fits
  <2>3. Fits(pages["skill"].texts) /\ Fits(pages["readme"].texts)
    BY <1>3, <1>6
  <2>4. Fits(pages["structure"].texts)
    BY <1>6, <2>1
  <2>5. Fits(pages["map"].texts)
    BY <1>6, <2>2
  <2>6. Fits(pages["coverage"].texts) /\ Fits(pages["freshness"].texts)
    BY <1>3, <1>6
  <2>7. Fits(pages["smoke"].texts)
    BY <1>5, <1>6
  <2>8. \A f \in {"routes", "onboarding", "architecture", "debugging", "impact", "fixed"} :
            Fits(pages[f].texts)
    BY <1>3, <1>6
  <2> QED BY <2>3, <2>4, <2>5, <2>6, <2>7, <2>8 DEF PackageFiles
<1>7. Fits(Manifest(title, first, pages).texts)
  BY <1>3 DEF Manifest
<1>8. ASSUME NEW u \in read
      PROVE  \E f \in PackageFiles : Safe(u) \in pages[f].texts
  <2>1. /\ Safe(title) \in pages["skill"].texts
        /\ \A r \in Covered : Safe(later[r]) \in pages["map"].texts
        /\ \A t \in pinned.titles : Safe(t) \in pages["map"].texts
    BY <1>6 DEF SafeNames
  <2>2. /\ \A r \in Covered : Safe(first[r]) \in pages["structure"].texts
        /\ \A t \in HeadingTexts : Safe(t) \in pages["structure"].texts
    BY <1>6 DEF SafeNames
  <2>3. {"skill", "map", "structure"} \subseteq PackageFiles
    BY DEF PackageFiles
  <2> QED BY <1>2, <2>1, <2>2, <2>3
<1>10. pages = [f \in PackageFiles |-> pages[f]]
  BY <1>1, RenderedFacts
<1> QED BY <1>6, <1>7, <1>8, <1>10, <1>11

\* What a version pins does not change, and neither does what can be made of it.
LEMMA MadeStays ==
  ASSUME pinned' = pinned, NEW package
  PROVE  IsMade(package)' <=> IsMade(package)
<1>1. ManifestRows' = ManifestRows /\ HeadingTexts' = HeadingTexts /\ Markers' = Markers
  BY DEF ManifestRows, HeadingTexts, Headings, Markers
<1>2. TooManyRows' <=> TooManyRows
  BY DEF TooManyRows, ManifestRows, Headings
<1>3. \A kinds : RouteRows(kinds)' = RouteRows(kinds)
  BY <1>1 DEF RouteRows
<1>4. \A first, later : /\ DataStructure(first)' = DataStructure(first)
                        /\ ResourceMap(later)' = ResourceMap(later)
                        /\ SourceCoverage(first)' = SourceCoverage(first)
  BY <1>1 DEF DataStructure, ResourceMap, SourceCoverage
<1>5. TaskRoutes' = TaskRoutes /\ \A kinds : Playbook(kinds)' = Playbook(kinds)
  BY <1>3 DEF TaskRoutes, Playbook
<1>6. \A title, first, later : Rendered(title, first, later)' = Rendered(title, first, later)
  BY <1>4, <1>5 DEF Rendered
<1>7. \A pages, manifest, markers : Findings(pages, manifest, markers)' = Findings(pages, manifest, markers)
  BY <1>2 DEF Findings
<1>8. \A title, first, later : ReadOf(title, first, later)' = ReadOf(title, first, later)
  BY <1>1 DEF ReadOf
<1>9. \A title, first, later, markers :
        IsMadeOf(package, title, first, later, markers)' <=> IsMadeOf(package, title, first, later, markers)
  BY <1>6, <1>7, <1>8 DEF IsMadeOf
<1> QED BY <1>1, <1>9 DEF IsMade

\* What the compiler stores is made of what it read.
LEMMA CompiledIsMade ==
  ASSUME NEW title \in SkillTitles, NEW first \in [Covered -> ResourceNames],
         NEW later \in [Covered -> ResourceNames], NEW markers \in Markers,
         NEW new, new = Compiled(title, first, later, markers)
  PROVE  IsMade(new)
<1>1. PICK pages, manifest : /\ pages = Rendered(title, first, later)
                             /\ manifest = Manifest(title, first, pages)
  OBVIOUS
<1>2. PICK findings : findings = Findings(pages, manifest, markers)
  OBVIOUS
<1>3. new = [status |-> IF findings = {} THEN "draft" ELSE "failed",
             hash |-> PackageHash(pages, manifest), findings |-> findings,
             files |-> IF findings # {} THEN Unsealed
                       ELSE [pages |-> [f \in PackageFiles |-> Sealed(pages[f])],
                             manifest |-> Sealed(manifest)],
             read |-> ReadOf(title, first, later)]
  BY <1>1, <1>2 DEF Compiled, ReadOf
<1>4. manifest = [texts |-> manifest.texts, inventory |-> pages, status |-> "draft", comment |-> "none"]
  BY <1>1 DEF Manifest
<1>5. findings = {} => new.files = FilesOf(pages, manifest.texts, "draft", "none")
  BY <1>3, <1>4 DEF FilesOf
<1>6. /\ new.status = IF findings = {} THEN "draft" ELSE "failed"
      /\ new.findings = findings
      /\ findings # {} => new.files = Unsealed
  BY <1>3
<1>7. new = [status |-> new.status, hash |-> PackageHash(pages, manifest), findings |-> findings,
             files |-> new.files, read |-> ReadOf(title, first, later)]
  BY <1>3
<1>8. IsMadeOf(new, title, first, later, markers)
  BY <1>1, <1>2, <1>5, <1>6, <1>7 DEF IsMadeOf
<1> QED BY <1>8 DEF IsMade

\* Generation starts, stops, and names change.
LEMMA NamesStep ==
  ASSUME PackageIInv, packages' = packages, pinned' = pinned,
         named' \in [Covered -> ResourceNames],
         compiling' # NoCompile =>
             compiling'.title \in SkillTitles /\ compiling'.first \in [Covered -> ResourceNames]
  PROVE  PackageIInv'
<1>1. PackagesAreMade'
  <2> SUFFICES ASSUME NEW e \in DOMAIN packages', NEW package, package = packages'[e]
               PROVE  IsMade(package)'
    BY DEF PackagesAreMade
  <2>1. IsMade(package)
    BY DEF PackageIInv, PackagesAreMade
  <2> QED BY <2>1, MadeStays
<1>2. HashesDiffer'
  BY DEF PackageIInv, HashesDiffer
<1> QED BY <1>1, <1>2 DEF PackageIInv

\* A compilation ends.
LEMMA FinishGenerateStep ==
  ASSUME PackageIInv, FinishGenerate
  PROVE  PackageIInv'
<1>1. /\ pinned' = pinned /\ named' = named /\ compiling' = NoCompile
      /\ compiling # NoCompile
  BY DEF FinishGenerate
<1>2. PICK markers \in Markers :
         LET new == Compiled(compiling.title, compiling.first, named, markers) IN
         packages' = IF \E e \in DOMAIN packages : packages[e].hash = new.hash
                     THEN packages ELSE Append(packages, new)
  BY DEF FinishGenerate
<1>3. PICK new : new = Compiled(compiling.title, compiling.first, named, markers)
  OBVIOUS
<1>4. IsMade(new)
  <2>1. /\ compiling.title \in SkillTitles /\ compiling.first \in [Covered -> ResourceNames]
        /\ named \in [Covered -> ResourceNames]
    BY <1>1 DEF PackageIInv
  <2> QED BY <1>3, <2>1, CompiledIsMade
<1>5. CASE packages' = packages
  BY <1>1, <1>5, NamesStep DEF PackageIInv
<1>6. CASE /\ packages' = Append(packages, new)
           /\ \A e \in DOMAIN packages : packages[e].hash # new.hash
  <2> DEFINE S == {packages[e] : e \in DOMAIN packages}
  <2>1. packages \in Seq(S)
    BY DEF PackageIInv
  <2> HIDE DEF S
  <2>2. Len(packages) \in Nat /\ DOMAIN packages = 1..Len(packages)
    BY <2>1
  <2>3. packages \in Seq(S \cup {new})
    BY <2>1
  <2>4. packages' \in Seq(S \cup {new})
    BY <1>6, <2>3
  <2>5. /\ DOMAIN packages' = 1..(Len(packages) + 1)
        /\ packages'[Len(packages) + 1] = new
        /\ \A e \in DOMAIN packages : packages'[e] = packages[e]
    BY <1>6, <2>2, <2>3
  <2>6. \A e \in DOMAIN packages' : e \in DOMAIN packages \/ e = Len(packages) + 1
    BY <2>2, <2>5
  <2>7. packages' \in Seq({packages'[d] : d \in DOMAIN packages'})
    <3>1. PICK now, T : now = packages' /\ T = S \cup {new}
      OBVIOUS
    <3>2. now \in Seq({now[d] : d \in DOMAIN now})
      BY <2>4, <3>1, SeqOfItsOwn
    <3> QED BY <3>1, <3>2
  <2>8. \A e \in DOMAIN packages' : IsMade(packages'[e])
    BY <1>4, <2>5, <2>6 DEF PackageIInv, PackagesAreMade
  <2>9. PackagesAreMade'
    <3> SUFFICES ASSUME NEW e \in DOMAIN packages', NEW package, package = packages'[e]
                 PROVE  IsMade(package)'
      BY DEF PackagesAreMade
    <3>1. IsMade(package)
      BY <2>8
    <3> QED BY <1>1, <3>1, MadeStays
  <2>10. HashesDiffer'
    <3> SUFFICES ASSUME NEW d \in DOMAIN packages', NEW e \in DOMAIN packages',
                        packages'[d].hash = packages'[e].hash
                 PROVE  d = e
      BY DEF HashesDiffer
    <3>1. \A a, b \in DOMAIN packages : packages[a].hash = packages[b].hash => a = b
      BY DEF PackageIInv, HashesDiffer
    <3> QED BY <1>6, <2>5, <2>6, <3>1
  <2> QED BY <1>1, <2>7, <2>9, <2>10 DEF PackageIInv
<1> QED BY <1>2, <1>3, <1>5, <1>6

\* A review leaves a package made of what it was made of.
LEMMA ReviewStep ==
  ASSUME PackageIInv, pinned' = pinned, named' = named, compiling' = compiling,
         NEW e \in DOMAIN packages, NEW new,
         packages' = [packages EXCEPT ![e] = new],
         new.hash = packages[e].hash, IsMade(new)
  PROVE  PackageIInv'
<1>1. /\ DOMAIN packages' = DOMAIN packages /\ packages'[e] = new
      /\ \A d \in DOMAIN packages : d # e => packages'[d] = packages[d]
      /\ packages' \in Seq({packages'[d] : d \in DOMAIN packages'})
  BY OnePackage
<1>2. PackagesAreMade'
  <2> SUFFICES ASSUME NEW d \in DOMAIN packages', NEW package, package = packages'[d]
               PROVE  IsMade(package)'
    BY DEF PackagesAreMade
  <2>1. IsMade(package)
    BY <1>1 DEF PackageIInv, PackagesAreMade
  <2> QED BY <2>1, MadeStays
<1>3. HashesDiffer'
  <2>1. \A a, b \in DOMAIN packages : packages[a].hash = packages[b].hash => a = b
    BY DEF PackageIInv, HashesDiffer
  <2>2. \A d \in DOMAIN packages : packages'[d].hash = packages[d].hash
    BY <1>1
  <2> QED BY <1>1, <2>1, <2>2 DEF HashesDiffer
<1> QED BY <1>1, <1>2, <1>3 DEF PackageIInv

\* What a review may do to a made package.
LEMMA Remade ==
  ASSUME NEW package, NEW title, NEW first, NEW later, NEW markers,
         IsMadeOf(package, title, first, later, markers),
         NEW status, NEW files, NEW new,
         new = [status |-> status, hash |-> package.hash, findings |-> package.findings,
                files |-> files, read |-> package.read],
         \/ status = "rejected" /\ package.status \in {"draft", "failed"} /\ files = package.files
         \/ status = "invalidated" /\ files = Unsealed
         \/ /\ status = "approved" /\ package.findings = {}
            /\ \E comment \in Comments :
                 files = FilesOf(Rendered(title, first, later),
                             Manifest(title, first, Rendered(title, first, later)).texts, "approved", comment)
  PROVE  IsMadeOf(new, title, first, later, markers)
<1>1. PICK pages, manifest : /\ pages = Rendered(title, first, later)
                             /\ manifest = Manifest(title, first, pages)
  OBVIOUS
<1>2. /\ package = [status |-> package.status, hash |-> PackageHash(pages, manifest),
                    findings |-> Findings(pages, manifest, markers),
                    files |-> package.files, read |-> ReadOf(title, first, later)]
      /\ package.findings # {} => package.status \in {"failed", "rejected", "invalidated"}
      /\ package.status \in {"draft", "approved"} \/ package.files # Unsealed =>
             /\ package.findings = {}
             /\ \E comment \in Comments \cup {"none"} :
                  package.files = FilesOf(pages, manifest.texts,
                      IF package.status = "approved" THEN "approved" ELSE "draft", comment)
  BY <1>1 DEF IsMadeOf
<1>3. /\ package.hash = PackageHash(pages, manifest)
      /\ package.findings = Findings(pages, manifest, markers)
      /\ package.read = ReadOf(title, first, later)
  BY <1>2
<1>4. /\ new.status = status /\ new.hash = package.hash /\ new.findings = package.findings
      /\ new.files = files /\ new.read = package.read
  OBVIOUS
<1>5. new = [status |-> new.status, hash |-> PackageHash(pages, manifest),
             findings |-> Findings(pages, manifest, markers),
             files |-> new.files, read |-> ReadOf(title, first, later)]
  BY <1>3, <1>4
<1>6. new.status \in {"draft", "failed", "approved", "rejected", "invalidated"}
  BY <1>4
<1>7. new.findings # {} => new.status \in {"failed", "rejected", "invalidated"}
  BY <1>4
<1>8. new.status \in {"draft", "approved"} \/ new.files # Unsealed =>
        /\ new.findings = {}
        /\ \E comment \in Comments \cup {"none"} :
             new.files = FilesOf(pages, manifest.texts,
                 IF new.status = "approved" THEN "approved" ELSE "draft", comment)
  <2>1. CASE status = "rejected" /\ package.status \in {"draft", "failed"} /\ files = package.files
    BY <1>2, <1>4, <2>1
  <2>2. CASE status = "invalidated" /\ files = Unsealed
    BY <1>4, <2>2
  <2>3. CASE /\ status = "approved" /\ package.findings = {}
             /\ \E comment \in Comments :
                  files = FilesOf(Rendered(title, first, later),
                             Manifest(title, first, Rendered(title, first, later)).texts, "approved", comment)
    <3>1. PICK comment \in Comments : files = FilesOf(pages, manifest.texts, "approved", comment)
      BY <1>1, <2>3
    <3>2. new.files = FilesOf(pages, manifest.texts, IF new.status = "approved" THEN "approved" ELSE "draft", comment)
      BY <1>4, <2>3, <3>1
    <3> QED BY <1>4, <2>3, <3>2
  <2> QED BY <2>1, <2>2, <2>3
<1> QED BY <1>1, <1>5, <1>6, <1>7, <1>8 DEF IsMadeOf

\* A made package has the fields of one.
LEMMA MadeShape ==
  ASSUME NEW package, IsMade(package)
  PROVE  package = [status |-> package.status, hash |-> package.hash, findings |-> package.findings,
                    files |-> package.files, read |-> package.read]
<1>1. PICK title \in SkillTitles, first \in [Covered -> ResourceNames],
           later \in [Covered -> ResourceNames], markers \in Markers :
        IsMadeOf(package, title, first, later, markers)
  BY DEF IsMade
<1>2. \E hash, findings, read :
        package = [status |-> package.status, hash |-> hash, findings |-> findings,
                   files |-> package.files, read |-> read]
  BY <1>1 DEF IsMadeOf
<1>3. PICK hash, findings, read :
        package = [status |-> package.status, hash |-> hash, findings |-> findings,
                   files |-> package.files, read |-> read]
  BY <1>2
<1>4. package.hash = hash /\ package.findings = findings /\ package.read = read
  BY <1>3
<1> QED BY <1>3, <1>4

\* An approval rewrites the manifest with its checksum.
LEMMA ApproveStep ==
  ASSUME PackageIInv, NEW e \in DOMAIN packages, NEW comment \in Comments, ApproveExport(e, comment)
  PROVE  PackageIInv'
<1>1. PICK p, new : p = packages[e] /\ new = Approved(e, comment)
  OBVIOUS
<1>2. IsMade(p)
  BY <1>1 DEF PackageIInv, PackagesAreMade
<1>3. PICK title \in SkillTitles, first \in [Covered -> ResourceNames],
           later \in [Covered -> ResourceNames], markers \in Markers :
        IsMadeOf(p, title, first, later, markers)
  BY <1>2 DEF IsMade
<1>4. PICK pages, texts : /\ pages = Rendered(title, first, later)
                          /\ texts = Manifest(title, first, pages).texts
  OBVIOUS
<1>5. p.status = "draft" /\ p.findings = {}
  BY <1>1 DEF ApproveExport
<1>6. PICK said : p.files = FilesOf(pages, texts, "draft", said)
  BY <1>3, <1>4, <1>5 DEF IsMadeOf
<1>7. PICK before : before = [texts |-> texts, inventory |-> pages, status |-> "draft", comment |-> said]
  OBVIOUS
<1>8. p.files = [pages |-> [f \in PackageFiles |-> Sealed(pages[f])], manifest |-> Sealed(before)]
  BY <1>6, <1>7 DEF FilesOf
<1>9. p.files.manifest.content = before
  BY <1>8 DEF Sealed
<1>10. PICK manifest : manifest = [before EXCEPT !.status = "approved", !.comment = comment]
  OBVIOUS
<1>11. manifest = [texts |-> texts, inventory |-> pages, status |-> "approved", comment |-> comment]
  BY <1>7, <1>10
<1>12. new = [p EXCEPT !.status = "approved", !.files.manifest = Sealed(manifest)]
  BY <1>1, <1>9, <1>10 DEF Approved
<1>13. p = [status |-> p.status, hash |-> p.hash, findings |-> p.findings, files |-> p.files,
            read |-> p.read]
  BY <1>2, MadeShape
<1>14. [p.files EXCEPT !.manifest = Sealed(manifest)] = FilesOf(pages, texts, "approved", comment)
  BY <1>8, <1>11 DEF FilesOf
<1>15. new = [status |-> "approved", hash |-> p.hash, findings |-> p.findings,
              files |-> FilesOf(pages, texts, "approved", comment), read |-> p.read]
  <2>1. PICK files : files = [p.files EXCEPT !.manifest = Sealed(manifest)]
    OBVIOUS
  <2>2. new = [p EXCEPT !.status = "approved", !.files = files]
    BY <1>12, <1>13, <2>1
  <2>3. new = [status |-> "approved", hash |-> p.hash, findings |-> p.findings, files |-> files,
               read |-> p.read]
    BY <1>13, <2>2
  <2> QED BY <1>14, <2>1, <2>3
<1>16. IsMadeOf(new, title, first, later, markers)
  BY <1>3, <1>4, <1>5, <1>15, Remade
<1>17. IsMade(new) /\ new.hash = packages[e].hash
  BY <1>1, <1>15, <1>16 DEF IsMade
<1>18. /\ packages' = [packages EXCEPT ![e] = new]
       /\ pinned' = pinned /\ named' = named /\ compiling' = compiling
  BY <1>1 DEF ApproveExport
<1> QED BY <1>17, <1>18, ReviewStep

\* A rejection changes the status and nothing else.
LEMMA RejectStep ==
  ASSUME PackageIInv, NEW e \in DOMAIN packages, RejectExport(e)
  PROVE  PackageIInv'
<1>1. PICK p, new : p = packages[e] /\ new = [p EXCEPT !.status = "rejected"]
  OBVIOUS
<1>2. IsMade(p)
  BY <1>1 DEF PackageIInv, PackagesAreMade
<1>3. PICK title \in SkillTitles, first \in [Covered -> ResourceNames],
           later \in [Covered -> ResourceNames], markers \in Markers :
        IsMadeOf(p, title, first, later, markers)
  BY <1>2 DEF IsMade
<1>4. p = [status |-> p.status, hash |-> p.hash, findings |-> p.findings, files |-> p.files,
           read |-> p.read]
  BY <1>2, MadeShape
<1>5. new = [status |-> "rejected", hash |-> p.hash, findings |-> p.findings, files |-> p.files,
             read |-> p.read]
  BY <1>1, <1>4
<1>6. p.status \in {"draft", "failed"}
  BY <1>1 DEF RejectExport
<1>7. IsMadeOf(new, title, first, later, markers)
  BY <1>3, <1>5, <1>6, Remade
<1>8. IsMade(new) /\ new.hash = packages[e].hash
  BY <1>1, <1>5, <1>7 DEF IsMade
<1>9. /\ packages' = [packages EXCEPT ![e] = new]
      /\ pinned' = pinned /\ named' = named /\ compiling' = compiling
  BY <1>1 DEF RejectExport
<1> QED BY <1>8, <1>9, ReviewStep

\* An export that is scrubbed keeps no file.
LEMMA ScrubStep ==
  ASSUME PackageIInv, NEW e \in DOMAIN packages, ScrubExport(e)
  PROVE  PackageIInv'
<1>1. PICK p, new : p = packages[e] /\ new = [p EXCEPT !.status = "invalidated", !.files = Unsealed]
  OBVIOUS
<1>2. IsMade(p)
  BY <1>1 DEF PackageIInv, PackagesAreMade
<1>3. PICK title \in SkillTitles, first \in [Covered -> ResourceNames],
           later \in [Covered -> ResourceNames], markers \in Markers :
        IsMadeOf(p, title, first, later, markers)
  BY <1>2 DEF IsMade
<1>4. p = [status |-> p.status, hash |-> p.hash, findings |-> p.findings, files |-> p.files,
           read |-> p.read]
  BY <1>2, MadeShape
<1>5. new = [status |-> "invalidated", hash |-> p.hash, findings |-> p.findings, files |-> Unsealed,
             read |-> p.read]
  BY <1>1, <1>4
<1>6. IsMadeOf(new, title, first, later, markers)
  BY <1>3, <1>5, Remade
<1>7. IsMade(new) /\ new.hash = packages[e].hash
  BY <1>1, <1>5, <1>6 DEF IsMade
<1>8. packages' = [packages EXCEPT ![e] = new]
  <2>1. e \in DOMAIN packages
    OBVIOUS
  <2> QED BY <1>1, <2>1 DEF ScrubExport, PackageIInv
<1>9. pinned' = pinned /\ named' = named /\ compiling' = compiling
  BY DEF ScrubExport
<1> QED BY <1>7, <1>8, <1>9, ReviewStep

\* Every step of generation, of names and of reviews.
LEMMA PackageStep ==
  ASSUME PackageIInv, [PackageNext]_packageVars
  PROVE  PackageIInv'
<1>1. ASSUME NEW title \in SkillTitles, StartGenerate(title)
      PROVE  PackageIInv'
  <2>1. compiling' = [title |-> title, first |-> named] /\ named \in [Covered -> ResourceNames]
    BY <1>1 DEF StartGenerate, PackageIInv
  <2>2. compiling'.title \in SkillTitles /\ compiling'.first \in [Covered -> ResourceNames]
    BY <2>1
  <2>3. pinned' = pinned /\ packages' = packages /\ named' = named
    BY <1>1 DEF StartGenerate
  <2> QED BY <2>1, <2>2, <2>3, NamesStep
<1>2. ASSUME StopGenerate
      PROVE  PackageIInv'
  BY <1>2, NamesStep DEF StopGenerate, PackageIInv
<1>3. ASSUME NEW r \in Covered, NEW name \in ResourceNames, RenameResource(r, name)
      PROVE  PackageIInv'
  BY <1>3, NamesStep DEF RenameResource, PackageIInv
<1>4. CASE UNCHANGED packageVars
  BY <1>4, NamesStep DEF packageVars, PackageIInv
<1>5. CASE PackageNext
  BY <1>1, <1>2, <1>3, <1>5, FinishGenerateStep, ApproveStep, RejectStep, ScrubStep DEF PackageNext
<1> QED BY <1>4, <1>5

\* Every state of the exports satisfies their inductive invariant, for any pinned contents,
\* names, limits and number of packages.
THEOREM PackageInvariance == PackageSpec => []PackageIInv
<1>1. PackageInit => PackageIInv
  BY DEF PackageInit, PackageIInv, PackagesAreMade, HashesDiffer
<1>2. PackageIInv /\ [PackageNext]_packageVars => PackageIInv'
  BY PackageStep
<1> QED BY <1>1, <1>2, PTL DEF PackageSpec

-----------------------------------------------------------------------------
(* What packages promise *)

\* The package e has the pages and the manifest of a compilation, and keeps them as files if
\* it keeps any.
StandsAs(e, title, first, later, markers, pages, manifest) ==
    /\ pages = Rendered(title, first, later) /\ manifest = Manifest(title, first, pages)
    /\ packages[e].hash = PackageHash(pages, manifest)
    /\ packages[e].findings = Findings(pages, manifest, markers)
    /\ packages[e].read = ReadOf(title, first, later)
    /\ packages[e].findings # {} => packages[e].status \in {"failed", "rejected", "invalidated"}
    /\ e \in Kept =>
         /\ packages[e].findings = {}
         /\ \E comment : packages[e].files = FilesOf(pages, manifest.texts,
               IF packages[e].status = "approved" THEN "approved" ELSE "draft", comment)

\* What a package looks like.
LEMMA PackageStands ==
  ASSUME PackageIInv, NEW e \in DOMAIN packages
  PROVE  \E markers \in Markers : \E title, first, later, pages, manifest :
           StandsAs(e, title, first, later, markers, pages, manifest)
<1>1. PICK p : p = packages[e]
  OBVIOUS
<1>2. IsMade(p)
  BY <1>1 DEF PackageIInv, PackagesAreMade
<1>3. PICK title \in SkillTitles, first \in [Covered -> ResourceNames],
           later \in [Covered -> ResourceNames], markers \in Markers :
        IsMadeOf(p, title, first, later, markers)
  BY <1>2 DEF IsMade
<1>4. PICK pages, manifest : pages = Rendered(title, first, later) /\ manifest = Manifest(title, first, pages)
  OBVIOUS
<1>5. p = [status |-> p.status, hash |-> PackageHash(pages, manifest),
           findings |-> Findings(pages, manifest, markers), files |-> p.files,
           read |-> ReadOf(title, first, later)]
  BY <1>3, <1>4 DEF IsMadeOf
<1>6. /\ p.hash = PackageHash(pages, manifest) /\ p.findings = Findings(pages, manifest, markers)
      /\ p.read = ReadOf(title, first, later)
  BY <1>5
<1>7. p.findings # {} => p.status \in {"failed", "rejected", "invalidated"}
  BY <1>3 DEF IsMadeOf
<1>8. p.files # Unsealed =>
        /\ p.findings = {}
        /\ \E comment : p.files = FilesOf(pages, manifest.texts,
              IF p.status = "approved" THEN "approved" ELSE "draft", comment)
  BY <1>3, <1>4 DEF IsMadeOf
<1>9. e \in Kept => p.files # Unsealed
  BY <1>1 DEF Kept
<1> QED BY <1>1, <1>4, <1>6, <1>7, <1>8, <1>9 DEF StandsAs

\* Files of a package, one by one.
LEMMA FilesFacts ==
  ASSUME NEW pages, NEW texts, NEW status, NEW comment, NEW files,
         files = FilesOf(pages, texts, status, comment)
  PROVE  /\ \A f \in PackageFiles : files.pages[f] = Sealed(pages[f])
         /\ \A f \in PackageFiles : files.pages[f].content = pages[f] /\ files.pages[f].sha = pages[f]
         /\ files.manifest.sha = files.manifest.content
         /\ files.manifest.content.texts = texts /\ files.manifest.content.inventory = pages
         /\ files.manifest.content.status = status
<1>1. files.manifest = Sealed([texts |-> texts, inventory |-> pages, status |-> status, comment |-> comment])
  BY DEF FilesOf
<1>2. files.pages = [f \in PackageFiles |-> Sealed(pages[f])]
  BY DEF FilesOf
<1> QED BY <1>1, <1>2 DEF Sealed

\* What the scan finds.
LEMMA FindingFacts ==
  ASSUME NEW pages, NEW manifest, NEW markers
  PROVE  /\ Findings(pages, manifest, markers) = {} =>
              /\ ~TooManyRows
              /\ manifest.texts \cap (Private \cup Barred \cup markers) = {}
              /\ \A f \in PackageFiles : pages[f].texts \cap (Private \cup Barred \cup markers) = {}
         /\ Findings(pages, manifest, markers) # {} =>
              \/ TooManyRows
              \/ manifest.texts \cap (Private \cup Barred \cup markers) # {}
              \/ \E f \in PackageFiles : pages[f].texts \cap (Private \cup Barred \cup markers) # {}
BY DEF Findings

\* What a limit lets through is a part, and all if the limit has room for it.
LEMMA UpToFacts ==
  ASSUME NEW limit \in Nat, NEW set, IsFiniteSet(set), NEW part \in UpTo(limit, set)
  PROVE  part \subseteq set /\ (Cardinality(set) <= limit => part = set)
<1>1. part \subseteq set /\ (part = set \/ Cardinality(part) = limit)
  BY DEF UpTo
<1>2. /\ Cardinality(set) \in Nat
      /\ part # set => Cardinality(part) < Cardinality(set)
  BY <1>1, FS_CardinalityType, FS_Subset
<1> QED BY <1>1, <1>2

\* Lines that are all looked for, if the scan has room for the files and for their lines.
LEMMA MarkerFacts ==
  ASSUME pinned \in Pins, NEW markers \in Markers
  PROVE  markers \subseteq LinesOf(pinned.files)
         /\ (ScanSeesAll => markers = LinesOf(pinned.files))
<1>1. /\ IsFiniteSet(LinesOf(pinned.files)) /\ IsFiniteSet(DOMAIN pinned.files)
      /\ MarkerLimit \in Nat /\ SnapshotFileLimit \in Nat
  BY SkillPackagesAssumption
<1>2. PICK seen \in UpTo(SnapshotFileLimit, DOMAIN pinned.files) :
        markers \in UpTo(MarkerLimit, UNION {pinned.files[i] : i \in seen})
  BY DEF Markers
<1> DEFINE lines == UNION {pinned.files[i] : i \in seen}
<1>3. /\ seen \subseteq DOMAIN pinned.files
      /\ Cardinality(DOMAIN pinned.files) <= SnapshotFileLimit => seen = DOMAIN pinned.files
  BY <1>1, <1>2, UpToFacts
<1>4. /\ lines \subseteq LinesOf(pinned.files)
      /\ seen = DOMAIN pinned.files => lines = LinesOf(pinned.files)
  BY <1>3 DEF LinesOf
<1>5. IsFiniteSet(lines)
  BY <1>1, <1>4, FS_Subset
<1>6. markers \subseteq lines /\ (Cardinality(lines) <= MarkerLimit => markers = lines)
  BY <1>1, <1>2, <1>5, UpToFacts
<1> QED BY <1>3, <1>4, <1>6 DEF ScanSeesAll

\* Nothing that ought to be hidden is shown.
LEMMA PackagesHide == PackageIInv => HidesWhatItMust
<1> SUFFICES ASSUME PackageIInv, NEW e \in Kept
             PROVE  LET shown == ManifestOf(e).content.texts
                                   \cup UNION {PageOf(e, f).content.texts : f \in PackageFiles}
                    IN  /\ shown \cap (Private \cup Barred) = {}
                        /\ ScanSeesAll => shown \cap LinesOf(pinned.files) = {}
  BY DEF HidesWhatItMust
<1>1. e \in DOMAIN packages
  BY DEF Kept
<1>2. PICK markers \in Markers : \E title, first, later, pages, manifest :
         StandsAs(e, title, first, later, markers, pages, manifest)
  BY <1>1, PackageStands
<1>6. PICK title, first, later, pages, manifest :
         StandsAs(e, title, first, later, markers, pages, manifest)
  BY <1>2
<1>7. /\ Findings(pages, manifest, markers) = {}
      /\ \E comment : packages[e].files = FilesOf(pages, manifest.texts,
            IF packages[e].status = "approved" THEN "approved" ELSE "draft", comment)
  BY <1>6 DEF StandsAs
<1>3. /\ manifest.texts \cap (Private \cup Barred \cup markers) = {}
      /\ \A f \in PackageFiles : pages[f].texts \cap (Private \cup Barred \cup markers) = {}
  BY <1>7, FindingFacts
<1>4. /\ ManifestOf(e).content.texts = manifest.texts
      /\ \A f \in PackageFiles : PageOf(e, f).content = pages[f]
  BY <1>7, FilesFacts DEF ManifestOf, PageOf
<1>5. ScanSeesAll => markers = LinesOf(pinned.files)
  BY MarkerFacts DEF PackageIInv
<1> QED BY <1>3, <1>4, <1>5

\* A package fails for what redaction lets through, for a source line or for its size.
LEMMA PackagesFail == PackageIInv => FailsForAReason
<1> SUFFICES ASSUME PackageIInv, NEW e \in DOMAIN packages, NEW read, read = packages[e].read
             PROVE  /\ read \cap Barred # {} => packages[e].findings # {}
                    /\ packages[e].findings # {} =>
                         \/ read \cap (Barred \cup LinesOf(pinned.files)) # {}
                         \/ TooManyRows
                    /\ packages[e].findings # {} =>
                         packages[e].status \in {"failed", "rejected", "invalidated"}
  BY DEF FailsForAReason
<1>1. PICK markers \in Markers : \E title, first, later, pages, manifest :
         StandsAs(e, title, first, later, markers, pages, manifest)
  BY PackageStands
<1>2. PICK title, first, later, pages, manifest :
         StandsAs(e, title, first, later, markers, pages, manifest)
  BY <1>1
<1>3. /\ pages = Rendered(title, first, later) /\ manifest = Manifest(title, first, pages)
      /\ packages[e].findings = Findings(pages, manifest, markers)
      /\ read = ReadOf(title, first, later)
      /\ packages[e].findings # {} => packages[e].status \in {"failed", "rejected", "invalidated"}
  BY <1>2 DEF StandsAs
<1>4. /\ \A f \in PackageFiles : \A t \in pages[f].texts : \E u \in read : t = Safe(u)
      /\ \A t \in manifest.texts : \E u \in read : t = Safe(u)
      /\ \A u \in read : \E f \in PackageFiles : Safe(u) \in pages[f].texts
  BY <1>3, TextsShown
<1>5. /\ Private \cap Barred = {} /\ Redacted \notin Private \cup Barred
      /\ Redacted \notin LinesOf(pinned.files)
  BY SkillPackagesAssumption DEF PackageIInv
<1>6. markers \subseteq LinesOf(pinned.files)
  BY MarkerFacts DEF PackageIInv
<1>7. ASSUME NEW u \in read, u \in Barred
      PROVE  packages[e].findings # {}
  <2>1. Safe(u) = u
    BY <1>5, <1>7 DEF Safe
  <2>2. PICK f \in PackageFiles : u \in pages[f].texts
    BY <1>4, <2>1
  <2> QED BY <1>3, <1>7, <2>2, FindingFacts
<1>8. ASSUME NEW u \in read, Safe(u) \in Private \cup Barred \cup markers
      PROVE  u \in Barred \cup LinesOf(pinned.files)
  BY <1>5, <1>6, <1>8 DEF Safe
<1>9. ASSUME packages[e].findings # {}, ~TooManyRows
      PROVE  read \cap (Barred \cup LinesOf(pinned.files)) # {}
  <2>1. \/ manifest.texts \cap (Private \cup Barred \cup markers) # {}
        \/ \E f \in PackageFiles : pages[f].texts \cap (Private \cup Barred \cup markers) # {}
    BY <1>3, <1>9, FindingFacts
  <2>2. PICK t \in Private \cup Barred \cup markers :
          t \in manifest.texts \/ \E f \in PackageFiles : t \in pages[f].texts
    BY <2>1
  <2>3. PICK u \in read : t = Safe(u)
    BY <1>4, <2>2
  <2>4. Safe(u) \in Private \cup Barred \cup markers
    BY <2>2, <2>3
  <2> QED BY <1>8, <2>4
<1> QED BY <1>3, <1>7, <1>9

\* What is kept can be verified.
LEMMA PackagesSealed == PackageIInv => IsSealed
<1> SUFFICES ASSUME PackageIInv
             PROVE  IsSealed
  OBVIOUS
<1>1. ASSUME NEW e \in Kept
      PROVE  LET manifest == ManifestOf(e).content IN
             /\ ManifestOf(e).sha = manifest
             /\ \A f \in PackageFiles : PageOf(e, f).sha = PageOf(e, f).content
             /\ manifest.inventory = [f \in PackageFiles |-> PageOf(e, f).sha]
             /\ (manifest.status = "approved") = (packages[e].status = "approved")
             /\ packages[e].hash = PackageHash(manifest.inventory, manifest)
  <2>1. e \in DOMAIN packages
    BY DEF Kept
  <2>2. PICK markers \in Markers : \E title, first, later, pages, made :
           StandsAs(e, title, first, later, markers, pages, made)
    BY <2>1, PackageStands
  <2>3. PICK title, first, later, pages, made :
           StandsAs(e, title, first, later, markers, pages, made)
    BY <2>2
  <2>4. PICK status : status = IF packages[e].status = "approved" THEN "approved" ELSE "draft"
    OBVIOUS
  <2>5. /\ pages = Rendered(title, first, later) /\ packages[e].hash = PackageHash(pages, made)
        /\ \E comment : packages[e].files = FilesOf(pages, made.texts, status, comment)
    BY <2>3, <2>4 DEF StandsAs
  <2>6. /\ ManifestOf(e).sha = ManifestOf(e).content
        /\ ManifestOf(e).content.texts = made.texts /\ ManifestOf(e).content.inventory = pages
        /\ ManifestOf(e).content.status = status
        /\ \A f \in PackageFiles : PageOf(e, f).content = pages[f] /\ PageOf(e, f).sha = pages[f]
    BY <2>5, FilesFacts DEF ManifestOf, PageOf
  <2>7. pages = [f \in PackageFiles |-> pages[f]]
    BY <2>5, TextsShown
  <2>8. pages = [f \in PackageFiles |-> PageOf(e, f).sha]
    BY <2>6, <2>7
  <2>9. (status = "approved") = (packages[e].status = "approved")
    BY <2>4
  <2>10. packages[e].hash = PackageHash(pages, ManifestOf(e).content)
    BY <2>5, <2>6 DEF PackageHash
  <2> QED BY <2>6, <2>8, <2>9, <2>10
<1>2. \A d, e \in DOMAIN packages : packages[d].hash = packages[e].hash => d = e
  BY DEF PackageIInv, HashesDiffer
<1> QED BY <1>1, <1>2 DEF IsSealed

\* Every group of paths has its share of the files that are shown.
LEMMA PackagesDeal == PackageIInv => DealsFairly
<1> SUFFICES ASSUME PackageIInv, NEW e \in Kept,
                    NEW shown, shown = PageOf(e, "structure").content.rows,
                    NEW p \in ManifestRows \ shown
             PROVE  LET share == [x \in RoutePaths |-> {y \in shown : GroupOf[y] = GroupOf[x]}]
                    IN  /\ Cardinality(shown) = FileLimit
                        /\ \A q \in shown : Cardinality(share[q]) <= Cardinality(share[p]) + 1
  BY DEF DealsFairly
<1>1. e \in DOMAIN packages
  BY DEF Kept
<1>2. PICK markers \in Markers : \E title, first, later, pages, made :
         StandsAs(e, title, first, later, markers, pages, made)
  BY <1>1, PackageStands
<1>3. PICK title, first, later, pages, made :
         StandsAs(e, title, first, later, markers, pages, made)
  BY <1>2
<1>4. PICK status : status = IF packages[e].status = "approved" THEN "approved" ELSE "draft"
  OBVIOUS
<1>5. /\ pages = Rendered(title, first, later)
      /\ \E comment : packages[e].files = FilesOf(pages, made.texts, status, comment)
  BY <1>3, <1>4 DEF StandsAs
<1>6. PageOf(e, "structure").content = pages["structure"]
  <2>1. "structure" \in PackageFiles
    BY DEF PackageFiles
  <2> QED BY <1>5, <2>1, FilesFacts DEF PageOf
<1>7. shown = Balanced(ManifestRows, FileLimit)
  BY <1>5, <1>6, TextsShown
<1>8. /\ ManifestRows \in SUBSET RoutePaths /\ IsFiniteSet(ManifestRows)
      /\ FileLimit \in Nat \ {0}
  <2>1. ManifestRows \subseteq pinned.paths
    BY DEF ManifestRows
  <2>2. pinned.paths \subseteq RoutePaths /\ IsFiniteSet(pinned.paths) /\ FileLimit \in Nat \ {0}
    BY SkillPackagesAssumption DEF PackageIInv
  <2> QED BY <2>1, <2>2, FS_Subset
<1>9. p \in ManifestRows /\ p \notin Balanced(ManifestRows, FileLimit)
  BY <1>7
<1>10. Cardinality(shown) = FileLimit
  BY <1>7, <1>8, <1>9, DealtAreFirst
<1>11. ASSUME NEW q \in shown
       PROVE  Cardinality({y \in shown : GroupOf[y] = GroupOf[q]})
                <= Cardinality({y \in shown : GroupOf[y] = GroupOf[p]}) + 1
  BY <1>7, <1>8, <1>9, DealtFairly
<1>12. p \in RoutePaths /\ shown \subseteq RoutePaths
  BY <1>7, <1>8 DEF Balanced
<1> QED BY <1>10, <1>11, <1>12

\* Reviews and generation change no page of a package that is stored.
LEMMA ReviewsKeep ==
  ASSUME PackageIInv, PackageIInv', [PackageNext]_packageVars
  PROVE  ReviewsKeepFiles
<1> DEFINE Stays(old, new) ==
             /\ new.hash = old.hash
             /\ new.files = Unsealed \/ new.files.pages = old.files.pages
             /\ new.files.manifest # old.files.manifest =>
                  new.status \in {"approved", "invalidated"} /\ new.status # old.status
             /\ old.status = "invalidated" => new = old
             /\ new.status = "approved" => old.status \in {"draft", "approved"}
<1>1. packages \in Seq({packages[e] : e \in DOMAIN packages})
  BY DEF PackageIInv
<1>2. Len(packages) \in Nat /\ DOMAIN packages = 1..Len(packages)
  BY <1>1
<1>3. \A e \in DOMAIN packages :
        packages[e] = [status |-> packages[e].status, hash |-> packages[e].hash,
                       findings |-> packages[e].findings, files |-> packages[e].files,
                       read |-> packages[e].read]
  BY MadeShape DEF PackageIInv, PackagesAreMade
<1>4. CASE packages' = packages
  <2>1. \A e \in DOMAIN packages : Stays(packages[e], packages'[e])
    BY <1>4
  <2> QED BY <1>2, <1>4, <2>1 DEF ReviewsKeepFiles
<1>5. CASE FinishGenerate
  <2>1. PICK new : packages' = packages \/ packages' = Append(packages, new)
    BY <1>5 DEF FinishGenerate
  <2>2. CASE packages' = Append(packages, new)
    <3> DEFINE S == {packages[e] : e \in DOMAIN packages}
    <3>1. packages \in Seq(S)
      BY <1>1
    <3> HIDE DEF S
    <3>2. packages \in Seq(S \cup {new})
      BY <3>1
    <3>3. /\ Len(packages') = Len(packages) + 1
          /\ \A e \in DOMAIN packages : packages'[e] = packages[e]
      BY <1>2, <2>2, <3>2
    <3>4. \A e \in DOMAIN packages : Stays(packages[e], packages'[e])
      BY <3>3
    <3> QED BY <1>2, <3>3, <3>4 DEF ReviewsKeepFiles
  <2> QED BY <1>4, <2>1, <2>2
<1>6. ASSUME NEW e \in DOMAIN packages, NEW new, packages' = [packages EXCEPT ![e] = new],
             Stays(packages[e], new)
      PROVE  ReviewsKeepFiles
  <2>1. /\ Len(packages') = Len(packages) /\ packages'[e] = new
        /\ \A d \in DOMAIN packages : d # e => packages'[d] = packages[d]
    BY <1>6, OnePackage
  <2>2. \A d \in DOMAIN packages : Stays(packages[d], packages'[d])
    BY <1>6, <2>1
  <2> QED BY <1>2, <2>1, <2>2 DEF ReviewsKeepFiles
<1>7. ASSUME NEW e \in DOMAIN packages, NEW comment \in Comments, ApproveExport(e, comment)
      PROVE  ReviewsKeepFiles
  <2>1. PICK p, new, manifest : /\ p = packages[e] /\ new = Approved(e, comment)
                                /\ new = [p EXCEPT !.status = "approved", !.files.manifest = manifest]
    BY DEF Approved
  <2>2. PICK files : files = [p.files EXCEPT !.manifest = manifest]
    OBVIOUS
  <2>3. p = [status |-> p.status, hash |-> p.hash, findings |-> p.findings, files |-> p.files,
             read |-> p.read]
    BY <1>3, <2>1
  <2>4. new = [status |-> "approved", hash |-> p.hash, findings |-> p.findings, files |-> files,
               read |-> p.read]
    BY <2>1, <2>2, <2>3
  <2>5. p.status = "draft"
    BY <1>7, <2>1 DEF ApproveExport
  <2>6. files.pages = p.files.pages
    BY <2>2
  <2>7. Stays(p, new)
    BY <2>4, <2>5, <2>6
  <2>8. packages' = [packages EXCEPT ![e] = new]
    BY <1>7, <2>1 DEF ApproveExport
  <2> QED BY <1>6, <2>1, <2>7, <2>8
<1>8. ASSUME NEW e \in DOMAIN packages, RejectExport(e)
      PROVE  ReviewsKeepFiles
  <2>1. PICK p, new : p = packages[e] /\ new = [p EXCEPT !.status = "rejected"]
    OBVIOUS
  <2>2. new = [status |-> "rejected", hash |-> p.hash, findings |-> p.findings, files |-> p.files,
               read |-> p.read]
    BY <1>3, <2>1
  <2>3. p.status \in {"draft", "failed"}
    BY <1>8, <2>1 DEF RejectExport
  <2>4. Stays(p, new)
    BY <2>2, <2>3
  <2>5. packages' = [packages EXCEPT ![e] = new]
    BY <1>8, <2>1 DEF RejectExport
  <2> QED BY <1>6, <2>1, <2>4, <2>5
<1>9. ASSUME NEW e \in DOMAIN packages, ScrubExport(e)
      PROVE  ReviewsKeepFiles
  <2>1. PICK p, new : p = packages[e] /\ new = [p EXCEPT !.status = "invalidated", !.files = Unsealed]
    OBVIOUS
  <2>6. p = [status |-> p.status, hash |-> p.hash, findings |-> p.findings, files |-> p.files,
             read |-> p.read]
    BY <1>3, <2>1
  <2>2. new = [status |-> "invalidated", hash |-> p.hash, findings |-> p.findings, files |-> Unsealed,
               read |-> p.read]
    BY <2>1, <2>6
  <2>3. p.status # "invalidated"
    BY <1>9, <2>1 DEF ScrubExport
  <2>4. Stays(p, new)
    BY <2>2, <2>3
  <2>5. packages' = [packages EXCEPT ![e] = new]
    BY <1>2, <1>9, <2>1 DEF ScrubExport
  <2> QED BY <1>6, <2>1, <2>4, <2>5
<1>10. CASE UNCHANGED packageVars
  BY <1>4, <1>10 DEF packageVars
<1>11. CASE PackageNext
  BY <1>4, <1>5, <1>7, <1>8, <1>9, <1>11 DEF PackageNext, StartGenerate, StopGenerate, RenameResource
<1> QED BY <1>10, <1>11

\* A package hides what is private or barred, fails for a reason, can be verified after its
\* review as before it and gives every group of paths its share, for any pinned contents,
\* names and limits (_safe_text, _scan_files, _balanced_paths, review_skill_export).
THEOREM PackagesAreSound == PackageSpec => SkillPackagesAreSound
<1>1. PackageIInv => HidesWhatItMust /\ FailsForAReason /\ IsSealed /\ DealsFairly
  BY PackagesHide, PackagesFail, PackagesSealed, PackagesDeal
<1>2. PackageIInv /\ PackageIInv' /\ [PackageNext]_packageVars => [ReviewsKeepFiles]_packageVars
  BY ReviewsKeep
<1> QED BY <1>1, <1>2, PackageInvariance, PTL DEF PackageSpec, SkillPackagesAreSound

-----------------------------------------------------------------------------
(* Pages, globs, budgets, matches and hits: the probes *)

PageProbe ==
    /\ probe.kind = "page"
    /\ \E total \in Nat, at \in Nat \ {0}, seen \in SUBSET Nat, status \in {"reading", "done", "refused"} :
            /\ probe = [kind |-> "page", total |-> total, at |-> at, seen |-> seen, status |-> status]
            /\ seen = 1..(at - 1)
            /\ status = "reading" => at <= total \/ (total = 0 /\ at = 1)
            /\ status = "done" => at = total + 1
            /\ status = "refused" => total = 0

GlobProbe ==
    \E glob \in Texts(GlobChars), path \in Texts(PathChars) :
        probe = [kind |-> "glob", glob |-> glob, path |-> path]

BudgetProbe ==
    \E n \in Nat : \E sizes \in [1..n -> Nat] : probe = [kind |-> "budget", sizes |-> sizes]

GrepProbe ==
    \E files \in [1..MaxFiles -> UNION {[1..n -> BOOLEAN] : n \in 0..MaxRows}], max \in Nat \ {0} :
        probe = [kind |-> "grep", files |-> files, max |-> max]

SearchProbe ==
    \E files \in [1..MaxFiles -> UNION {[1..n -> Scores] : n \in 0..MaxRows}], k \in Nat \ {0} :
        probe = [kind |-> "search", files |-> files, k |-> k]

\* The inductive invariant of CodeReads: a client has got the lines up to where it goes on,
\* and stands behind the file only when it is done.
ReadsIInv == PageProbe \/ GlobProbe \/ BudgetProbe \/ GrepProbe \/ SearchProbe

\* What a client or a scan starts from: nothing read, any file, pattern or limit.
LEMMA ReadsStart == ReadsInit => ReadsIInv
<1> SUFFICES ASSUME ReadsInit
             PROVE  ReadsIInv
  OBVIOUS
<1> USE ReadConstants
<1>1. ASSUME NEW total \in 0..MaxLines,
             probe = [kind |-> "page", total |-> total, at |-> 1, seen |-> {}, status |-> "reading"]
      PROVE  PageProbe
  <2>1. total \in Nat /\ 1 \in Nat \ {0} /\ {} \in SUBSET Nat /\ {} = 1..(1 - 1)
    OBVIOUS
  <2>2. 1 <= total \/ (total = 0 /\ 1 = 1)
    BY <2>1
  <2> QED BY <1>1, <2>1, <2>2 DEF PageProbe
<1>2. ASSUME NEW n \in 0..(MaxScannedFiles + 2), NEW sizes \in [1..n -> 0..MaxScannedBytes],
             probe = [kind |-> "budget", sizes |-> sizes]
      PROVE  BudgetProbe
  <2>1. n \in Nat /\ sizes \in [1..n -> Nat]
    OBVIOUS
  <2> QED BY <1>2, <2>1 DEF BudgetProbe
<1>3. 1..MaxFiles \subseteq Nat \ {0}
  OBVIOUS
<1>4. ASSUME NEW files \in [1..MaxFiles -> UNION {[1..n -> BOOLEAN] : n \in 0..MaxRows}],
             NEW max \in 1..MaxFiles, probe = [kind |-> "grep", files |-> files, max |-> max]
      PROVE  GrepProbe
  BY <1>3, <1>4 DEF GrepProbe
<1>5. ASSUME NEW files \in [1..MaxFiles -> UNION {[1..n -> Scores] : n \in 0..MaxRows}],
             NEW k \in 1..MaxFiles, probe = [kind |-> "search", files |-> files, k |-> k]
      PROVE  SearchProbe
  BY <1>3, <1>5 DEF SearchProbe
<1>6. CASE \E glob \in Texts(GlobChars), path \in Texts(PathChars) :
            probe = [kind |-> "glob", glob |-> glob, path |-> path]
  BY <1>6 DEF GlobProbe, ReadsIInv
<1> QED BY <1>1, <1>2, <1>4, <1>5, <1>6 DEF ReadsInit, ReadsIInv

\* A page starts where the client stands, ends in the file and is not empty unless the file is.
LEMMA PageStep ==
  ASSUME PageProbe, NEW end \in Nat, ReadPage(end)
  PROVE  PageProbe'
<1> USE ReadConstants
<1>1. PICK total \in Nat, at \in Nat \ {0}, seen \in SUBSET Nat, status \in {"reading", "done", "refused"} :
        /\ probe = [kind |-> "page", total |-> total, at |-> at, seen |-> seen, status |-> status]
        /\ seen = 1..(at - 1)
        /\ status = "reading" => at <= total \/ (total = 0 /\ at = 1)
  BY DEF PageProbe
<1>2. /\ status = "reading" /\ (end = 0 \/ end >= at)
      /\ probe.total = total /\ probe.at = at /\ probe.seen = seen
  BY <1>1 DEF ReadPage
<1>3. CASE RangeRefused(total, at, end)
  <2>1. probe' = [kind |-> "page", total |-> total, at |-> at, seen |-> seen, status |-> "refused"]
    BY <1>1, <1>2, <1>3 DEF ReadPage
  <2>2. total = 0
    BY <1>1, <1>2, <1>3 DEF RangeRefused, Lesser
  <2> QED BY <1>1, <2>1, <2>2 DEF PageProbe
<1>4. CASE ~RangeRefused(total, at, end)
  <2> DEFINE last == LastLine(total, at, end)
             next == IF last >= total THEN "done" ELSE "reading"
  <2>1. probe' = [kind |-> "page", total |-> total, at |-> last + 1, seen |-> seen \cup (at..last),
                  status |-> next]
    BY <1>1, <1>2, <1>4, ZenonT(60) DEF ReadPage, LineRange
  <2>2. last \in Nat /\ last <= total /\ (at <= last \/ (total = 0 /\ at = 1 /\ last = 0))
    BY <1>1, <1>2, <1>4 DEF RangeRefused, LastLine, Lesser
  <2> HIDE DEF last
  <2>3. seen \cup (at..last) = 1..((last + 1) - 1)
    BY <1>1, <2>2
  <2>4. /\ last + 1 \in Nat \ {0} /\ seen \cup (at..last) \in SUBSET Nat
        /\ next \in {"reading", "done", "refused"}
        /\ next = "reading" => last + 1 <= total
        /\ next = "done" => last + 1 = total + 1
        /\ next # "refused"
    BY <1>1, <2>2
  <2> HIDE DEF next
  <2> QED BY <2>1, <2>3, <2>4 DEF PageProbe
<1> QED BY <1>3, <1>4

\* The other probes are one selection, and stay as they are.
LEMMA ReadsStep == ReadsIInv /\ [ReadsNext]_probe => ReadsIInv'
<1> SUFFICES ASSUME ReadsIInv, [ReadsNext]_probe
             PROVE  ReadsIInv'
  OBVIOUS
<1>1. CASE ReadsNext
  <2>1. PICK end \in 0..MaxLines : ReadPage(end)
    BY <1>1 DEF ReadsNext
  <2>2. probe.kind = "page" /\ end \in Nat
    BY <2>1, ReadConstants DEF ReadPage
  <2>3. PageProbe
    BY <2>2 DEF ReadsIInv, GlobProbe, BudgetProbe, GrepProbe, SearchProbe
  <2>4. PageProbe'
    BY <2>1, <2>2, <2>3, PageStep
  <2> QED BY <2>4 DEF ReadsIInv
<1>2. CASE UNCHANGED probe
  BY <1>2 DEF ReadsIInv, PageProbe, GlobProbe, BudgetProbe, GrepProbe, SearchProbe
<1> QED BY <1>1, <1>2

\* A client of read_code_file has got exactly the lines up to where it goes on, for files,
\* ranges and page limits of any size.
THEOREM ReadsInvariance == ReadsSpec => []ReadsIInv
<1> QED BY ReadsStart, ReadsStep, PTL DEF ReadsSpec

\* The pages of a client that goes on to the end are the whole file.
LEMMA PagesAreCovered == ReadsIInv => PagesCover
<1> SUFFICES ASSUME ReadsIInv, probe.kind = "page"
             PROVE  PagesCover
  BY DEF PagesCover
<1>1. PageProbe
  BY DEF ReadsIInv, GlobProbe, BudgetProbe, GrepProbe, SearchProbe
<1>2. PICK total \in Nat, at \in Nat \ {0}, seen \in SUBSET Nat, status \in {"reading", "done", "refused"} :
        /\ probe = [kind |-> "page", total |-> total, at |-> at, seen |-> seen, status |-> status]
        /\ seen = 1..(at - 1)
        /\ status = "done" => at = total + 1
        /\ status = "refused" => total = 0
  BY <1>1 DEF PageProbe
<1>3. status = "done" => at - 1 = total
  BY <1>2
<1> QED BY <1>2, <1>3 DEF PagesCover

\* _current_snapshot_files refuses a scan just if its files or bytes are above the limits.
LEMMA BudgetsAreExact == ReadsIInv => BudgetIsExact
<1> SUFFICES ASSUME ReadsIInv, probe.kind = "budget"
             PROVE  BudgetIsExact
  BY DEF BudgetIsExact
<1> USE ReadConstants
<1>1. BudgetProbe
  BY DEF ReadsIInv, PageProbe, GlobProbe, GrepProbe, SearchProbe
<1>8. PICK n \in Nat : \E sizes \in [1..n -> Nat] : probe = [kind |-> "budget", sizes |-> sizes]
  BY <1>1 DEF BudgetProbe
<1>2. PICK sizes \in [1..n -> Nat] : probe = [kind |-> "budget", sizes |-> sizes]
  BY <1>8
<1>3. Len(sizes) = n
  <2>1. sizes \in Seq(Nat)
    OBVIOUS
  <2> QED BY <2>1
<1> DEFINE fetched == Lesser(n, MaxScannedFiles + 1)
           sums(m) == CHOOSE bytes : SumsUp(sizes, m, bytes)
<1>4. WithinBudget(sizes) <=>
        \A i \in 1..fetched : i - 1 < MaxScannedFiles /\ sums(fetched)[i] <= MaxScannedBytes
  BY <1>3 DEF WithinBudget, SumsUp
<1>5. BudgetIsExact <=>
        (WithinBudget(sizes) <=> n <= MaxScannedFiles /\ sums(n)[n] <= MaxScannedBytes)
  BY <1>2, <1>3, ZenonT(60) DEF BudgetIsExact, SumsUp
<1>6. CASE n > MaxScannedFiles
  <2>1. fetched = MaxScannedFiles + 1 /\ MaxScannedFiles + 1 \in 1..fetched
    BY <1>6 DEF Lesser
  <2> HIDE DEF fetched, sums
  <2>2. ~WithinBudget(sizes)
    BY <1>4, <2>1
  <2> QED BY <1>5, <1>6, <2>2
<1>7. CASE n <= MaxScannedFiles
  <2>1. fetched = n
    BY <1>7 DEF Lesser
  <2>2. PICK bytes : bytes = sums(n)
    OBVIOUS
  <2>3. SumsUp(sizes, n, bytes)
    BY <2>2, SumsExist
  <2>4. bytes[0] = 0 /\ \A i \in 0..n : bytes[i] \in Nat /\ bytes[i] <= bytes[n]
    BY <2>3, SumFacts
  <2> HIDE DEF fetched, sums
  <2>5. WithinBudget(sizes) <=> \A i \in 1..n : i - 1 < MaxScannedFiles /\ bytes[i] <= MaxScannedBytes
    BY <1>4, <2>1, <2>2
  <2>6. \A i \in 1..n : i - 1 < MaxScannedFiles
    BY <1>7
  <2>7. (\A i \in 1..n : bytes[i] <= MaxScannedBytes) <=> bytes[n] <= MaxScannedBytes
    BY <2>4
  <2> QED BY <1>5, <1>7, <2>2, <2>5, <2>6, <2>7
<1> QED BY <1>6, <1>7

-----------------------------------------------------------------------------
(* Globs *)

\* Where each element of a pattern ends in a path, and whether it fits there.
PathCuts(pattern, path) == [1..Len(pattern) -> 0..Len(path)]
CutBefore(cut, h) == IF h = 1 THEN 0 ELSE cut[h - 1]
FitsCut(pattern, path, cut, h) ==
    IF pattern[h] = "any" THEN CutBefore(cut, h) <= cut[h]
    ELSE cut[h] = CutBefore(cut, h) + 1 /\ pattern[h] \in {"one", path[cut[h]]}

\* The first i elements of the pattern can be laid over the first j characters.
CanMatch(pattern, path, i, j) ==
    \E cut \in PathCuts(pattern, path) :
        /\ i = 0 => j = 0
        /\ i > 0 => cut[i] = j
        /\ \A h \in 1..i : FitsCut(pattern, path, cut, h)

MovedCut(cut, i, j) == [cut EXCEPT ![i] = j]

\* A cut moved at one place fits as before below it.
LEMMA CutMoved ==
  ASSUME NEW pattern, NEW path, Len(pattern) \in Nat, Len(path) \in Nat,
         NEW cut \in PathCuts(pattern, path), NEW i \in 1..Len(pattern), NEW j \in 0..Len(path),
         NEW other, other = MovedCut(cut, i, j)
  PROVE  /\ other \in PathCuts(pattern, path) /\ other[i] = j
         /\ CutBefore(other, i) = CutBefore(cut, i)
         /\ \A h \in 1..(i - 1) : FitsCut(pattern, path, other, h) <=> FitsCut(pattern, path, cut, h)
<1>1. /\ other \in PathCuts(pattern, path) /\ other[i] = j
      /\ \A h \in 1..Len(pattern) : h # i => other[h] = cut[h]
  BY DEF PathCuts, MovedCut
<1>2. CutBefore(other, i) = CutBefore(cut, i)
  <2>1. i # 1 => i - 1 \in 1..Len(pattern) /\ i - 1 # i
    OBVIOUS
  <2> QED BY <1>1, <2>1 DEF CutBefore
<1>3. ASSUME NEW h \in 1..(i - 1)
      PROVE  FitsCut(pattern, path, other, h) <=> FitsCut(pattern, path, cut, h)
  <2>1. h \in 1..Len(pattern) /\ h # i /\ (h # 1 => h - 1 \in 1..Len(pattern) /\ h - 1 # i)
    OBVIOUS
  <2>2. other[h] = cut[h] /\ CutBefore(other, h) = CutBefore(cut, h)
    BY <1>1, <2>1 DEF CutBefore
  <2> QED BY <2>2 DEF FitsCut
<1> QED BY <1>1, <1>2, <1>3

\* What lies before the last element matches what lies before its place.
LEMMA CutShorter ==
  ASSUME NEW pattern, NEW path, Len(pattern) \in Nat, Len(path) \in Nat,
         NEW cut \in PathCuts(pattern, path), NEW i \in 1..Len(pattern),
         \A h \in 1..i : FitsCut(pattern, path, cut, h)
  PROVE  CutBefore(cut, i) \in 0..Len(path) /\ CanMatch(pattern, path, i - 1, CutBefore(cut, i))
<1>1. /\ i - 1 = 0 => CutBefore(cut, i) = 0
      /\ i - 1 > 0 => cut[i - 1] = CutBefore(cut, i) /\ i - 1 \in 1..Len(pattern)
  BY DEF CutBefore
<1>2. \A h \in 1..(i - 1) : FitsCut(pattern, path, cut, h)
  OBVIOUS
<1>3. CutBefore(cut, i) \in 0..Len(path)
  BY <1>1 DEF PathCuts
<1> QED BY <1>1, <1>2, <1>3 DEF CanMatch

\* One element more.
LEMMA CutLonger ==
  ASSUME NEW pattern, NEW path, Len(pattern) \in Nat, Len(path) \in Nat,
         NEW i \in 1..Len(pattern), NEW b \in 0..Len(path), CanMatch(pattern, path, i - 1, b),
         NEW j \in 0..Len(path),
         IF pattern[i] = "any" THEN b <= j ELSE j = b + 1 /\ pattern[i] \in {"one", path[j]}
  PROVE  CanMatch(pattern, path, i, j)
<1>1. PICK cut \in PathCuts(pattern, path) :
        /\ i - 1 = 0 => b = 0
        /\ i - 1 > 0 => cut[i - 1] = b
        /\ \A h \in 1..(i - 1) : FitsCut(pattern, path, cut, h)
  BY DEF CanMatch
<1>2. PICK other : other = MovedCut(cut, i, j)
  OBVIOUS
<1>3. /\ other \in PathCuts(pattern, path) /\ other[i] = j /\ CutBefore(other, i) = CutBefore(cut, i)
      /\ \A h \in 1..(i - 1) : FitsCut(pattern, path, other, h)
  <2>1. /\ other \in PathCuts(pattern, path) /\ other[i] = j
        /\ CutBefore(other, i) = CutBefore(cut, i)
    BY <1>2, CutMoved
  <2>2. \A h \in 1..(i - 1) : FitsCut(pattern, path, other, h) <=> FitsCut(pattern, path, cut, h)
    BY <1>2, CutMoved
  <2> QED BY <1>1, <2>1, <2>2
<1>4. CutBefore(cut, i) = b
  BY <1>1 DEF CutBefore
<1>5. FitsCut(pattern, path, other, i)
  BY <1>3, <1>4 DEF FitsCut
<1>6. \A h \in 1..i : FitsCut(pattern, path, other, h)
  <2>1. \A h \in 1..i : h = i \/ h \in 1..(i - 1)
    OBVIOUS
  <2> QED BY <1>3, <1>5, <2>1
<1> QED BY <1>3, <1>6 DEF CanMatch

\* The recursion of LIKE.
LEMMA MatchCases ==
  ASSUME NEW pattern, NEW path, Len(pattern) \in Nat, Len(path) \in Nat,
         NEW i \in 0..Len(pattern), NEW j \in 0..Len(path)
  PROVE  CanMatch(pattern, path, i, j) <=>
            IF i = 0 THEN j = 0
            ELSE IF pattern[i] = "any"
                 THEN CanMatch(pattern, path, i - 1, j) \/ (j > 0 /\ CanMatch(pattern, path, i, j - 1))
                 ELSE j > 0 /\ pattern[i] \in {"one", path[j]} /\ CanMatch(pattern, path, i - 1, j - 1)
<1>1. CASE i = 0
  <2>1. [h \in 1..Len(pattern) |-> 0] \in PathCuts(pattern, path)
    BY DEF PathCuts
  <2>2. CanMatch(pattern, path, 0, j) <=> j = 0
    BY <2>1 DEF CanMatch
  <2> QED BY <1>1, <2>2
<1>2. CASE i # 0
  <2>1. i \in 1..Len(pattern)
    BY <1>2
  <2>2. ASSUME CanMatch(pattern, path, i, j)
        PROVE  \E b \in 0..Len(path) :
                /\ CanMatch(pattern, path, i - 1, b)
                /\ IF pattern[i] = "any" THEN b <= j ELSE j = b + 1 /\ pattern[i] \in {"one", path[j]}
    <3>1. PICK cut \in PathCuts(pattern, path) :
            cut[i] = j /\ \A h \in 1..i : FitsCut(pattern, path, cut, h)
      BY <2>1, <2>2 DEF CanMatch
    <3>2. CutBefore(cut, i) \in 0..Len(path) /\ CanMatch(pattern, path, i - 1, CutBefore(cut, i))
      BY <2>1, <3>1, CutShorter
    <3>3. FitsCut(pattern, path, cut, i)
      BY <2>1, <3>1
    <3>4. IF pattern[i] = "any" THEN CutBefore(cut, i) <= j
          ELSE j = CutBefore(cut, i) + 1 /\ pattern[i] \in {"one", path[j]}
      BY <3>1, <3>3 DEF FitsCut
    <3> QED BY <3>2, <3>4
  <2>3. CASE pattern[i] = "any"
    <3>1. ASSUME CanMatch(pattern, path, i, j), ~CanMatch(pattern, path, i - 1, j)
          PROVE  j > 0 /\ CanMatch(pattern, path, i, j - 1)
      <4>1. PICK b \in 0..Len(path) : CanMatch(pattern, path, i - 1, b) /\ b <= j
        BY <2>2, <2>3, <3>1
      <4>2. b # j
        BY <3>1, <4>1
      <4>3. j > 0 /\ j - 1 \in 0..Len(path) /\ b <= j - 1
        BY <4>1, <4>2
      <4> QED BY <2>1, <2>3, <4>1, <4>3, CutLonger
    <3>2. ASSUME CanMatch(pattern, path, i - 1, j)
          PROVE  CanMatch(pattern, path, i, j)
      <4>1. j <= j
        OBVIOUS
      <4> QED BY <2>1, <2>3, <3>2, <4>1, CutLonger
    <3>3. ASSUME j > 0, CanMatch(pattern, path, i, j - 1)
          PROVE  CanMatch(pattern, path, i, j)
      <4>1. j - 1 \in 0..Len(path)
        BY <3>3
      <4>2. PICK cut \in PathCuts(pattern, path) :
              cut[i] = j - 1 /\ \A h \in 1..i : FitsCut(pattern, path, cut, h)
        BY <2>1, <3>3 DEF CanMatch
      <4>3. CutBefore(cut, i) \in 0..Len(path) /\ CanMatch(pattern, path, i - 1, CutBefore(cut, i))
        BY <2>1, <4>2, CutShorter
      <4>4. FitsCut(pattern, path, cut, i)
        BY <2>1, <4>2
      <4>5. CutBefore(cut, i) <= j
        BY <2>3, <4>2, <4>3, <4>4 DEF FitsCut
      <4> QED BY <2>1, <2>3, <4>3, <4>5, CutLonger
    <3> QED BY <1>2, <2>3, <3>1, <3>2, <3>3
  <2>4. CASE pattern[i] # "any"
    <3>1. ASSUME CanMatch(pattern, path, i, j)
          PROVE  j > 0 /\ pattern[i] \in {"one", path[j]} /\ CanMatch(pattern, path, i - 1, j - 1)
      <4>1. PICK b \in 0..Len(path) :
              CanMatch(pattern, path, i - 1, b) /\ j = b + 1 /\ pattern[i] \in {"one", path[j]}
        BY <2>2, <2>4, <3>1
      <4>2. b = j - 1 /\ j > 0
        BY <4>1
      <4> QED BY <4>1, <4>2
    <3>2. ASSUME j > 0, pattern[i] \in {"one", path[j]}, CanMatch(pattern, path, i - 1, j - 1)
          PROVE  CanMatch(pattern, path, i, j)
      <4>1. j - 1 \in 0..Len(path) /\ j = (j - 1) + 1
        BY <3>2
      <4> QED BY <2>1, <2>4, <3>2, <4>1, CutLonger
    <3> QED BY <1>2, <2>4, <3>1, <3>2
  <2> QED BY <2>3, <2>4
<1> QED BY <1>1, <1>2

\* The table LIKE fills.
Grid(pattern, path) == (0..Len(pattern)) \X (0..Len(path))
LikeTable(pattern, path, m) ==
    m = [at \in Grid(pattern, path) |->
            LET i == at[1]
                j == at[2]
            IN  IF i = 0 THEN j = 0
                ELSE IF pattern[i] = "any" THEN m[<<i - 1, j>>] \/ (j > 0 /\ m[<<i, j - 1>>])
                ELSE j > 0 /\ pattern[i] \in {"one", path[j]} /\ m[<<i - 1, j - 1>>]]

\* LIKE's table says where the pattern can be laid over the path.
LEMMA TableFilled ==
  ASSUME NEW pattern, NEW path, Len(pattern) \in Nat, Len(path) \in Nat
  PROVE  LikeTable(pattern, path, [at \in Grid(pattern, path) |-> CanMatch(pattern, path, at[1], at[2])])
<1> DEFINE L == [at \in Grid(pattern, path) |-> CanMatch(pattern, path, at[1], at[2])]
<1>1. \A i \in 0..Len(pattern), j \in 0..Len(path) : L[<<i, j>>] = CanMatch(pattern, path, i, j)
  BY DEF Grid
<1>2. L = [at \in Grid(pattern, path) |-> L[at]]
  OBVIOUS
<1> HIDE DEF L
<1>3. ASSUME NEW at \in Grid(pattern, path)
      PROVE  L[at] =
            LET i == at[1]
                j == at[2]
            IN  IF i = 0 THEN j = 0
                ELSE IF pattern[i] = "any" THEN L[<<i - 1, j>>] \/ (j > 0 /\ L[<<i, j - 1>>])
                ELSE j > 0 /\ pattern[i] \in {"one", path[j]} /\ L[<<i - 1, j - 1>>]
  <2>1. PICK i \in 0..Len(pattern), j \in 0..Len(path) : at = <<i, j>>
    BY DEF Grid
  <2>2. at[1] = i /\ at[2] = j /\ L[at] = CanMatch(pattern, path, i, j)
    BY <1>1, <2>1
  <2> DEFINE R == IF i = 0 THEN j = 0
                  ELSE IF pattern[i] = "any" THEN L[<<i - 1, j>>] \/ (j > 0 /\ L[<<i, j - 1>>])
                  ELSE j > 0 /\ pattern[i] \in {"one", path[j]} /\ L[<<i - 1, j - 1>>]
  <2>3. CanMatch(pattern, path, i, j) <=> R
    <3>1. /\ i # 0 => L[<<i - 1, j>>] = CanMatch(pattern, path, i - 1, j)
          /\ j > 0 => L[<<i, j - 1>>] = CanMatch(pattern, path, i, j - 1)
          /\ i # 0 /\ j > 0 => L[<<i - 1, j - 1>>] = CanMatch(pattern, path, i - 1, j - 1)
      <4>1. (i # 0 => i - 1 \in 0..Len(pattern)) /\ (j > 0 => j - 1 \in 0..Len(path))
        OBVIOUS
      <4> QED BY <1>1, <4>1
    <3>2. CanMatch(pattern, path, i, j) <=>
            IF i = 0 THEN j = 0
            ELSE IF pattern[i] = "any"
                 THEN CanMatch(pattern, path, i - 1, j) \/ (j > 0 /\ CanMatch(pattern, path, i, j - 1))
                 ELSE j > 0 /\ pattern[i] \in {"one", path[j]} /\ CanMatch(pattern, path, i - 1, j - 1)
      BY MatchCases
    <3> QED BY <3>1, <3>2
  <2>4. CanMatch(pattern, path, i, j) \in BOOLEAN
    BY DEF CanMatch
  <2>5. R \in BOOLEAN
    OBVIOUS
  <2>6. L[at] = R
    <3> HIDE DEF R
    <3> QED BY <2>2, <2>3, <2>4, <2>5
  <2> QED BY <2>2, <2>6
<1>4. LikeTable(pattern, path, L)
  BY <1>2, <1>3 DEF LikeTable
<1> QED BY <1>4 DEF L

\* No other table solves its equation.
LEMMA TableIsOne ==
  ASSUME NEW pattern, NEW path, Len(pattern) \in Nat, Len(path) \in Nat, NEW table,
         LikeTable(pattern, path, table)
  PROVE  \A i \in 0..Len(pattern), j \in 0..Len(path) : table[<<i, j>>] = CanMatch(pattern, path, i, j)
<1> DEFINE n == Len(pattern)
           m == Len(path)
           S == {d \in 0..(n + m) : \E i \in 0..n, j \in 0..m :
                    d = i + j /\ table[<<i, j>>] # CanMatch(pattern, path, i, j)}
<1>1. PICK like : like = [at \in Grid(pattern, path) |-> CanMatch(pattern, path, at[1], at[2])]
  OBVIOUS
<1>2. LikeTable(pattern, path, like)
  BY <1>1, TableFilled
<1>3. \A i \in 0..n, j \in 0..m : like[<<i, j>>] = CanMatch(pattern, path, i, j)
  BY <1>1 DEF Grid
<1>4. ASSUME NEW t, LikeTable(pattern, path, t), NEW i \in 0..n, NEW j \in 0..m
      PROVE  t[<<i, j>>] =
                IF i = 0 THEN j = 0
                ELSE IF pattern[i] = "any" THEN t[<<i - 1, j>>] \/ (j > 0 /\ t[<<i, j - 1>>])
                ELSE j > 0 /\ pattern[i] \in {"one", path[j]} /\ t[<<i - 1, j - 1>>]
  BY <1>4 DEF LikeTable, Grid
<1>5. ASSUME S # {} PROVE FALSE
  <2>1. S \in SUBSET Nat
    OBVIOUS
  <2>2. PICK d \in S : \A e \in S : d <= e
    <3> HIDE DEF S
    <3> QED BY <1>5, <2>1, SmallestOf
  <2>3. PICK i \in 0..n, j \in 0..m : d = i + j /\ table[<<i, j>>] # CanMatch(pattern, path, i, j)
    BY <2>2
  <2>4. ASSUME NEW k \in 0..n, NEW l \in 0..m, k + l < d
        PROVE  table[<<k, l>>] = like[<<k, l>>]
    <3>1. PICK e \in 0..(n + m) : e = k + l
      <4>1. \A nn \in Nat, mm \in Nat : \A kk \in 0..nn, ll \in 0..mm : kk + ll \in 0..(nn + mm)
        OBVIOUS
      <4> QED BY <4>1
    <3>2. e < d /\ d \in Nat
      BY <2>1, <2>2, <2>4, <3>1
    <3>3. e \notin S
      <4> HIDE DEF S
      <4> QED BY <2>2, <3>2
    <3>4. table[<<k, l>>] = CanMatch(pattern, path, k, l)
      BY <3>1, <3>3
    <3> QED BY <1>3, <3>4
  <2>5. /\ i # 0 => table[<<i - 1, j>>] = like[<<i - 1, j>>]
        /\ j > 0 => table[<<i, j - 1>>] = like[<<i, j - 1>>]
        /\ i # 0 /\ j > 0 => table[<<i - 1, j - 1>>] = like[<<i - 1, j - 1>>]
    <3>1. /\ i # 0 => i - 1 \in 0..n /\ (i - 1) + j < d
          /\ j > 0 => j - 1 \in 0..m /\ i + (j - 1) < d
          /\ i # 0 /\ j > 0 => (i - 1) + (j - 1) < d
      <4>1. n \in Nat /\ m \in Nat /\ d = i + j
        BY <2>3
      <4> HIDE DEF S, n, m
      <4> QED BY <4>1
    <3> HIDE DEF S
    <3> QED BY <2>4, <3>1
  <2>6. table[<<i, j>>] =
            IF i = 0 THEN j = 0
            ELSE IF pattern[i] = "any" THEN table[<<i - 1, j>>] \/ (j > 0 /\ table[<<i, j - 1>>])
            ELSE j > 0 /\ pattern[i] \in {"one", path[j]} /\ table[<<i - 1, j - 1>>]
    BY <1>4
  <2>7. like[<<i, j>>] =
            IF i = 0 THEN j = 0
            ELSE IF pattern[i] = "any" THEN like[<<i - 1, j>>] \/ (j > 0 /\ like[<<i, j - 1>>])
            ELSE j > 0 /\ pattern[i] \in {"one", path[j]} /\ like[<<i - 1, j - 1>>]
    BY <1>2, <1>4
  <2>8. table[<<i, j>>] = like[<<i, j>>]
    <3> HIDE DEF S
    <3> QED BY <2>5, <2>6, <2>7
  <2> QED BY <1>3, <2>3, <2>8
<1>6. ASSUME NEW i \in 0..n, NEW j \in 0..m PROVE table[<<i, j>>] = CanMatch(pattern, path, i, j)
  <2>1. PICK e \in 0..(n + m) : e = i + j
    <3>1. \A nn \in Nat, mm \in Nat : \A kk \in 0..nn, ll \in 0..mm : kk + ll \in 0..(nn + mm)
      OBVIOUS
    <3> QED BY <3>1
  <2>2. e \notin S
    <3> HIDE DEF S
    <3> QED BY <1>5
  <2> QED BY <2>1, <2>2
<1> QED BY <1>6

\* LIKE accepts what its elements can be laid over.
LEMMA MatchFacts ==
  ASSUME NEW pattern, NEW path, Len(pattern) \in Nat, Len(path) \in Nat
  PROVE  Matches(pattern, path) <=> CanMatch(pattern, path, Len(pattern), Len(path))
<1>1. Matches(pattern, path) = (CHOOSE t : LikeTable(pattern, path, t))[<<Len(pattern), Len(path)>>]
  BY DEF Matches, LikeTable, Grid
<1>2. PICK t : t = CHOOSE u : LikeTable(pattern, path, u)
  OBVIOUS
<1>3. LikeTable(pattern, path, t)
  BY <1>2, TableFilled
<1>4. t[<<Len(pattern), Len(path)>>] = CanMatch(pattern, path, Len(pattern), Len(path))
  <2>1. Len(pattern) \in 0..Len(pattern) /\ Len(path) \in 0..Len(path)
    OBVIOUS
  <2> QED BY <1>3, <2>1, TableIsOne
<1> QED BY <1>1, <1>2, <1>4

\* fnmatch accepts what the translated pattern can be laid over.
LEMMA FnMatchFacts ==
  ASSUME NEW n \in Nat, NEW glob \in [1..n -> GlobChars], NEW path, Len(path) \in Nat,
         NEW pattern, pattern = [i \in 1..n |-> Like(glob[i])]
  PROVE  /\ Len(pattern) = n
         /\ FnMatch(glob, path) <=> CanMatch(pattern, path, n, Len(path))
<1>1. Len(glob) = n /\ Len(pattern) = n /\ \A i \in 1..n : pattern[i] = Like(glob[i])
  <2>1. Len(glob) = n
    OBVIOUS
  <2>2. pattern \in Seq({Like(glob[i]) : i \in 1..n}) /\ Len(pattern) = n
    OBVIOUS
  <2> QED BY <2>1, <2>2
<1>2. \A c \in GlobChars : /\ Like(c) = "any" <=> c = "*"
                           /\ c # "*" => \A x : Like(c) \in {"one", x} <=> c \in {"?", x}
  <2> TAKE c \in GlobChars
  <2>1. c # "any" /\ c # "one"
    BY ReadConstants
  <2> QED BY <2>1 DEF Like
<1>3. ASSUME NEW cut \in [1..n -> 0..Len(path)], NEW h \in 1..n
      PROVE  FitsCut(pattern, path, cut, h) <=>
                IF glob[h] = "*" THEN CutBefore(cut, h) <= cut[h]
                ELSE cut[h] = CutBefore(cut, h) + 1 /\ glob[h] \in {"?", path[cut[h]]}
  <2>1. glob[h] \in GlobChars /\ pattern[h] = Like(glob[h])
    BY <1>1
  <2> QED BY <1>2, <2>1 DEF FitsCut
<1>4. FnMatch(glob, path) <=>
        \E cut \in [1..n -> 0..Len(path)] :
            /\ n = 0 => Len(path) = 0
            /\ n > 0 => cut[n] = Len(path)
            /\ \A h \in 1..n : IF glob[h] = "*" THEN CutBefore(cut, h) <= cut[h]
                               ELSE cut[h] = CutBefore(cut, h) + 1 /\ glob[h] \in {"?", path[cut[h]]}
  BY <1>1 DEF FnMatch, CutBefore
<1>5. CanMatch(pattern, path, n, Len(path)) <=>
        \E cut \in [1..n -> 0..Len(path)] :
            /\ n = 0 => Len(path) = 0
            /\ n > 0 => cut[n] = Len(path)
            /\ \A h \in 1..n : FitsCut(pattern, path, cut, h)
  BY <1>1 DEF CanMatch, PathCuts
<1> QED BY <1>1, <1>3, <1>4, <1>5

\* Without wildcards fnmatch accepts the pattern itself.
LEMMA PlainGlobs ==
  ASSUME NEW n \in Nat, NEW glob \in [1..n -> GlobChars], NEW m \in Nat, NEW path \in [1..m -> PathChars],
         \A i \in 1..n : glob[i] \notin {"*", "?"}
  PROVE  glob = path <=> FnMatch(glob, path)
<1>1. Len(glob) = n /\ Len(path) = m
  OBVIOUS
<1> DEFINE Wild(cut) == \A h \in 1..n : IF glob[h] = "*" THEN CutBefore(cut, h) <= cut[h]
                                     ELSE cut[h] = CutBefore(cut, h) + 1 /\ glob[h] \in {"?", path[cut[h]]}
           Plain(cut) == \A h \in 1..n : cut[h] = CutBefore(cut, h) + 1 /\ glob[h] = path[cut[h]]
<1>5. ASSUME NEW cut
      PROVE  Wild(cut) <=> Plain(cut)
  <2>1. \A h \in 1..n : glob[h] # "*" /\ glob[h] # "?"
    OBVIOUS
  <2>2. ASSUME Wild(cut), NEW h \in 1..n
        PROVE  cut[h] = CutBefore(cut, h) + 1 /\ glob[h] = path[cut[h]]
    BY <2>1, <2>2
  <2>3. ASSUME Plain(cut), NEW h \in 1..n
        PROVE  IF glob[h] = "*" THEN CutBefore(cut, h) <= cut[h]
               ELSE cut[h] = CutBefore(cut, h) + 1 /\ glob[h] \in {"?", path[cut[h]]}
    BY <2>1, <2>3
  <2> QED BY <2>2, <2>3
<1>6. FnMatch(glob, path) <=>
        \E cut \in [1..n -> 0..m] : (n = 0 => m = 0) /\ (n > 0 => cut[n] = m) /\ Wild(cut)
  BY <1>1 DEF FnMatch, CutBefore
<1> HIDE DEF Wild
<1>2. FnMatch(glob, path) <=>
        \E cut \in [1..n -> 0..m] : (n = 0 => m = 0) /\ (n > 0 => cut[n] = m) /\ Plain(cut)
  <2> HIDE DEF Plain
  <2> QED BY <1>5, <1>6
<1>3. ASSUME glob = path
      PROVE  FnMatch(glob, path)
  <2>1. n = m
    BY <1>1, <1>3
  <2>2. PICK cut : cut = [h \in 1..n |-> h]
    OBVIOUS
  <2>3. cut \in [1..n -> 0..m] /\ \A h \in 1..n : cut[h] = h
    BY <2>1, <2>2
  <2>4. ASSUME NEW h \in 1..n
        PROVE  cut[h] = CutBefore(cut, h) + 1 /\ glob[h] = path[cut[h]]
    <3>1. h # 1 => h - 1 \in 1..n
      OBVIOUS
    <3> QED BY <1>3, <2>3, <3>1 DEF CutBefore
  <2>5. (n = 0 => m = 0) /\ (n > 0 => cut[n] = m)
    BY <2>1, <2>3
  <2> QED BY <1>2, <2>3, <2>4, <2>5
<1>4. ASSUME FnMatch(glob, path)
      PROVE  glob = path
  <2>1. PICK cut \in [1..n -> 0..m] :
            /\ n = 0 => m = 0
            /\ n > 0 => cut[n] = m
            /\ \A h \in 1..n : cut[h] = CutBefore(cut, h) + 1 /\ glob[h] = path[cut[h]]
    BY <1>2, <1>4
  <2> DEFINE missed == {h \in 1..n : cut[h] # h}
  <2>2. ASSUME missed # {} PROVE FALSE
    <3>1. missed \in SUBSET Nat
      OBVIOUS
    <3>2. PICK h \in missed : \A g \in missed : h <= g
      <4> HIDE DEF missed
      <4> QED BY <2>2, <3>1, SmallestOf
    <3>3. h \in 1..n /\ cut[h] # h /\ (h # 1 => h - 1 \in 1..n /\ ~(h <= h - 1))
      BY <3>2
    <3>4. h # 1 => cut[h - 1] = h - 1
      BY <3>2, <3>3
    <3>5. cut[h] = CutBefore(cut, h) + 1
      BY <2>1, <3>3
    <3> QED BY <3>3, <3>4, <3>5 DEF CutBefore
  <2>5. \A h \in 1..n : cut[h] = h
    BY <2>2
  <2>6. n = m
    BY <2>1, <2>5
  <2>7. \A h \in 1..n : glob[h] = path[h]
    BY <2>1, <2>5
  <2> QED BY <2>6, <2>7
<1> QED BY <1>3, <1>4

-----------------------------------------------------------------------------
(* grep *)

\* What a scan with grep has found, and its step over one line.
GrepStates == [matches : Seq(Nat \X Nat), truncated : BOOLEAN]

NextLine(found, hit, f, i, max) ==
    IF found.truncated \/ ~hit THEN found
    ELSE [matches |-> Append(found.matches, <<f, i>>), truncated |-> Len(found.matches) + 1 >= max]

\* A match is appended, and ends the scan when it was the last one wanted.
Appends(now, found, f, i, max) ==
    /\ Len(now.matches) = Len(found.matches) + 1
    /\ now.matches[Len(found.matches) + 1] = <<f, i>>
    /\ \A n \in 1..Len(found.matches) : now.matches[n] = found.matches[n]
    /\ Len(found.matches) + 1 >= max => now.truncated
    /\ Len(found.matches) + 1 < max => ~now.truncated

\* A line keeps what was found, or appends the line and says whether that was the last.
LEMMA NextLineFacts ==
  ASSUME NEW found \in GrepStates, NEW hit \in BOOLEAN, NEW f \in Nat, NEW i \in Nat, NEW max \in Nat
  PROVE  /\ NextLine(found, hit, f, i, max) \in GrepStates
         /\ found.truncated \/ ~hit => NextLine(found, hit, f, i, max) = found
         /\ ~found.truncated /\ hit => Appends(NextLine(found, hit, f, i, max), found, f, i, max)
<1>1. CASE found.truncated \/ ~hit
  BY <1>1 DEF NextLine
<1>2. CASE ~(found.truncated \/ ~hit)
  <2>1. PICK s \in Seq(Nat \X Nat) : s = found.matches
    BY DEF GrepStates
  <2>2. PICK t : t = Append(s, <<f, i>>)
    OBVIOUS
  <2>3. /\ t \in Seq(Nat \X Nat) /\ Len(t) = Len(s) + 1 /\ t[Len(s) + 1] = <<f, i>>
        /\ \A n \in 1..Len(s) : t[n] = s[n]
    BY <2>2
  <2>9. PICK full \in BOOLEAN : full = (Len(s) + 1 >= max)
    <3>1. (Len(s) + 1 >= max) \in BOOLEAN
      OBVIOUS
    <3> QED BY <3>1
  <2>4. NextLine(found, hit, f, i, max) = [matches |-> t, truncated |-> full]
    BY <1>2, <2>1, <2>2, <2>9 DEF NextLine
  <2>5. NextLine(found, hit, f, i, max) \in GrepStates
    BY <2>3, <2>4, <2>9 DEF GrepStates
  <2>6. PICK now : now = NextLine(found, hit, f, i, max)
    OBVIOUS
  <2>7. now.matches = t /\ now.truncated = full
    BY <2>4, <2>6
  <2>10. Len(s) \in Nat /\ (Len(s) + 1 < max => ~(Len(s) + 1 >= max))
    OBVIOUS
  <2>8. Appends(now, found, f, i, max)
    BY <2>1, <2>3, <2>7, <2>9, <2>10 DEF Appends
  <2> QED BY <1>2, <2>5, <2>6, <2>8
<1> QED BY <1>1, <1>2

\* The scan of a file, line by line.
FileScan(file, f, from, max, g) ==
    g = [i \in 0..Len(file) |->
            IF i = 0 THEN from
            ELSE IF g[i - 1].truncated \/ ~file[i] THEN g[i - 1]
            ELSE [matches |-> Append(g[i - 1].matches, <<f, i>>),
                  truncated |-> Len(g[i - 1].matches) + 1 >= max]]

ScansFile(g, n, file, f, from, max) ==
    /\ g \in [0..n -> GrepStates] /\ g[0] = from /\ GrepFile(file, f, from, max) = g[n]
    /\ \A i \in 1..n : g[i] = NextLine(g[i - 1], file[i], f, i, max)

\* The scan of a file has one state after each line.
LEMMA FileScans ==
  ASSUME NEW n \in Nat, NEW file \in [1..n -> BOOLEAN], NEW f \in Nat, NEW from \in GrepStates, NEW max \in Nat
  PROVE  \E g : ScansFile(g, n, file, f, from, max)
<1>0. Len(file) = n
  OBVIOUS
<1> DEFINE step == [p \in (1..n) \X GrepStates |-> NextLine(p[2], file[p[1]], f, p[1], max)]
<1>1. step \in Steps(n, GrepStates)
  <2>1. ASSUME NEW p \in (1..n) \X GrepStates
        PROVE  NextLine(p[2], file[p[1]], f, p[1], max) \in GrepStates
    <3>1. p[2] \in GrepStates /\ p[1] \in 1..n /\ p[1] \in Nat /\ file[p[1]] \in BOOLEAN
      BY <2>1
    <3> QED BY <3>1, NextLineFacts
  <2> QED BY <2>1 DEF Steps
<1>2. \A i \in 1..n, x \in GrepStates : step[<<i, x>>] = NextLine(x, file[i], f, i, max)
  OBVIOUS
<1> HIDE DEF step
<1>3. PICK s : Unfolds(s, n, GrepStates, from, step)
  BY <1>1, StepByStep
<1>4. s \in [0..n -> GrepStates] /\ s[0] = from /\ \A i \in 1..n : s[i] = step[<<i, s[i - 1]>>]
  BY <1>3 DEF Unfolds
<1>5. \A i \in 1..n : s[i] = NextLine(s[i - 1], file[i], f, i, max)
  <2> TAKE i \in 1..n
  <2>1. s[i - 1] \in GrepStates
    BY <1>4
  <2> QED BY <1>2, <1>4, <2>1
<1>6. FileScan(file, f, from, max, s)
  <2>1. s = [i \in 0..n |-> s[i]]
    BY <1>4
  <2>2. \A i \in 0..n : s[i] =
            IF i = 0 THEN from
            ELSE IF s[i - 1].truncated \/ ~file[i] THEN s[i - 1]
            ELSE [matches |-> Append(s[i - 1].matches, <<f, i>>),
                  truncated |-> Len(s[i - 1].matches) + 1 >= max]
    <3> TAKE i \in 0..n
    <3>1. CASE i = 0
      BY <1>4, <3>1
    <3>2. CASE i # 0
      <4>1. i \in 1..n
        BY <3>2
      <4> QED BY <1>5, <3>2, <4>1 DEF NextLine
    <3> QED BY <3>1, <3>2
  <2> QED BY <1>0, <2>1, <2>2 DEF FileScan
<1>7. PICK g : g = CHOOSE h : FileScan(file, f, from, max, h)
  OBVIOUS
<1>8. FileScan(file, f, from, max, g)
  BY <1>6, <1>7
<1>9. GrepFile(file, f, from, max) = g[n]
  BY <1>0, <1>7 DEF GrepFile, FileScan
<1>14. \A i \in 0..n : g[i] =
            IF i = 0 THEN from
            ELSE IF g[i - 1].truncated \/ ~file[i] THEN g[i - 1]
            ELSE [matches |-> Append(g[i - 1].matches, <<f, i>>),
                  truncated |-> Len(g[i - 1].matches) + 1 >= max]
  BY <1>0, <1>8 DEF FileScan
<1>10. g[0] = from /\ \A i \in 1..n : g[i] = NextLine(g[i - 1], file[i], f, i, max)
  <2>1. g[0] = from
    <3>1. 0 \in 0..n
      OBVIOUS
    <3> QED BY <1>14, <3>1
  <2>2. ASSUME NEW i \in 1..n
        PROVE  g[i] = NextLine(g[i - 1], file[i], f, i, max)
    <3>1. i \in 0..n /\ i # 0
      OBVIOUS
    <3> QED BY <1>14, <3>1 DEF NextLine
  <2> QED BY <2>1, <2>2
<1>11. DOMAIN g = 0..n /\ g = [i \in 0..n |-> g[i]]
  BY <1>0, <1>8 DEF FileScan
<1> DEFINE holds == [i \in 0..n |-> g[i] \in GrepStates]
<1>12. \A i \in 0..n : holds[i]
  <2>0. holds \in [0..n -> BOOLEAN]
    OBVIOUS
  <2>1. holds[0]
    <3>1. 0 \in 0..n /\ g[0] \in GrepStates
      BY <1>10
    <3> QED BY <3>1
  <2>2. ASSUME NEW i \in 1..n, holds[i - 1]
        PROVE  holds[i]
    <3>0. i - 1 \in 0..n /\ i \in 0..n
      OBVIOUS
    <3>4. file[i] \in BOOLEAN /\ i \in Nat
      OBVIOUS
    <3>5. g[i - 1] \in GrepStates
      BY <2>2, <3>0
    <3>1. g[i - 1] \in GrepStates /\ file[i] \in BOOLEAN /\ i \in Nat
      BY <3>4, <3>5
    <3>2. NextLine(g[i - 1], file[i], f, i, max) \in GrepStates
      BY <3>1, NextLineFacts
    <3>3. g[i] \in GrepStates
      BY <1>10, <3>2
    <3> QED BY <3>0, <3>3
  <2> HIDE DEF holds
  <2> QED BY <2>0, <2>1, <2>2, HoldsAll
<1>13. g \in [0..n -> GrepStates]
  BY <1>11, <1>12
<1> QED BY <1>9, <1>10, <1>13 DEF ScansFile

\* Every match, those before one of them, and those up to a line.
AllMatches(files) ==
    {m \in (1..MaxFiles) \X (1..MaxRows) : m[2] <= Len(files[m[1]]) /\ files[m[1]][m[2]]}
EarlierMatches(files, m) == {q \in AllMatches(files) : q[1] < m[1] \/ (q[1] = m[1] /\ q[2] < m[2])}
Until(files, f, i) == {m \in AllMatches(files) : m[1] < f \/ (m[1] = f /\ m[2] <= i)}

\* The matches of finitely many files are finitely many.
LEMMA MatchesAreFinite ==
  \A files, f, i : IsFiniteSet(Until(files, f, i)) /\ Cardinality(Until(files, f, i)) \in Nat
<1> TAKE files, f, i
<1>1. IsFiniteSet(1..MaxFiles) /\ IsFiniteSet(1..MaxRows)
  BY ReadConstants, FS_Interval
<1>2. IsFiniteSet((1..MaxFiles) \X (1..MaxRows))
  BY <1>1, FS_Product
<1>3. Until(files, f, i) \subseteq (1..MaxFiles) \X (1..MaxRows)
  BY DEF Until, AllMatches
<1> QED BY <1>2, <1>3, FS_Subset, FS_CardinalityType

\* What a scan has found up to a line.
FoundUntil(files, max, found, f, i) ==
    /\ found \in GrepStates
    /\ Len(found.matches) = Lesser(max, Cardinality(Until(files, f, i)))
    /\ \A n \in 1..Len(found.matches) :
            /\ found.matches[n] \in AllMatches(files)
            /\ Cardinality(EarlierMatches(files, found.matches[n])) = n - 1
    /\ found.truncated => Len(found.matches) = max
    /\ ~found.truncated => Len(found.matches) < max

\* A scan that has stopped has what it wants of what follows.
LEMMA FoundStays ==
  ASSUME NEW files, NEW max \in Nat, NEW found, NEW f, NEW i, NEW g, NEW j,
         FoundUntil(files, max, found, f, i), Until(files, f, i) \subseteq Until(files, g, j),
         found.truncated \/ Until(files, f, i) = Until(files, g, j)
  PROVE  FoundUntil(files, max, found, g, j)
<1>1. CASE Until(files, f, i) = Until(files, g, j)
  BY <1>1 DEF FoundUntil
<1>2. CASE found.truncated
  <2>1. /\ Cardinality(Until(files, f, i)) \in Nat /\ Cardinality(Until(files, g, j)) \in Nat
        /\ Cardinality(Until(files, f, i)) <= Cardinality(Until(files, g, j))
    BY MatchesAreFinite, FS_Subset
  <2>2. Len(found.matches) = max /\ max = Lesser(max, Cardinality(Until(files, f, i)))
    BY <1>2 DEF FoundUntil
  <2>3. max = Lesser(max, Cardinality(Until(files, g, j)))
    BY <2>1, <2>2 DEF Lesser
  <2> QED BY <2>2, <2>3 DEF FoundUntil
<1> QED BY <1>1, <1>2

GrepFiles == [1..MaxFiles -> UNION {[1..n -> BOOLEAN] : n \in 0..MaxRows}]

\* A file is a sequence of at most MaxRows lines.
LEMMA FilesAreLines ==
  ASSUME NEW files \in GrepFiles, NEW f \in 1..MaxFiles
  PROVE  \E n \in 0..MaxRows : files[f] \in [1..n -> BOOLEAN] /\ Len(files[f]) = n
<1>1. PICK n \in 0..MaxRows : files[f] \in [1..n -> BOOLEAN]
  BY DEF GrepFiles
<1>2. n \in Nat
  BY ReadConstants
<1>3. Len(files[f]) = n
  BY <1>1, <1>2
<1> QED BY <1>1, <1>3

\* One line more.
LEMMA LineStep ==
  ASSUME NEW files \in GrepFiles, NEW max \in Nat \ {0}, NEW f \in 1..MaxFiles,
         NEW i \in 1..Len(files[f]), NEW found, FoundUntil(files, max, found, f, i - 1)
  PROVE  FoundUntil(files, max, NextLine(found, files[f][i], f, i, max), f, i)
<1>1. PICK n \in 0..MaxRows : files[f] \in [1..n -> BOOLEAN] /\ Len(files[f]) = n
  BY FilesAreLines
<1>2. /\ files[f][i] \in BOOLEAN /\ f \in Nat /\ i \in Nat /\ max \in Nat /\ found \in GrepStates
      /\ i \in 1..MaxRows
  BY <1>1, ReadConstants DEF FoundUntil
<1> DEFINE now == NextLine(found, files[f][i], f, i, max)
           old == Until(files, f, i - 1)
           new == Until(files, f, i)
<1>3. \A m \in AllMatches(files) : \E a \in Nat, b \in Nat : m = <<a, b>> /\ m[1] = a /\ m[2] = b
  <2> TAKE m \in AllMatches(files)
  <2>1. m \in (1..MaxFiles) \X (1..MaxRows)
    BY DEF AllMatches
  <2>2. PICK a \in 1..MaxFiles, b \in 1..MaxRows : m = <<a, b>>
    BY <2>1
  <2>3. a \in Nat /\ b \in Nat
    OBVIOUS
  <2> QED BY <2>2, <2>3
<1>4. CASE found.truncated \/ ~files[f][i]
  <2>1. now = found
    BY <1>4 DEF NextLine
  <2>2. old \subseteq new
    BY <1>2, <1>3 DEF Until
  <2>3. ~files[f][i] => old = new
    <3> SUFFICES ASSUME ~files[f][i], NEW m \in new
                 PROVE  m \in old
      BY <2>2
    <3>1. PICK a \in Nat, b \in Nat : m = <<a, b>> /\ m[1] = a /\ m[2] = b
      BY <1>3 DEF Until
    <3>2. ~(a = f /\ b = i)
      BY <3>1 DEF Until, AllMatches
    <3> QED BY <1>2, <3>1, <3>2 DEF Until
  <2>4. FoundUntil(files, max, found, f, i)
    <3>1. found.truncated \/ old = new
      BY <1>4, <2>3
    <3> QED BY <1>2, <2>2, <3>1, FoundStays
  <2> QED BY <2>1, <2>4
<1>5. CASE ~found.truncated /\ files[f][i]
  <2>1. now \in GrepStates /\ Appends(now, found, f, i, max)
    BY <1>2, <1>5, NextLineFacts
  <2>2. <<f, i>> \in AllMatches(files)
    BY <1>1, <1>2, <1>5 DEF AllMatches
  <2>3. EarlierMatches(files, <<f, i>>) = old
    <3>1. ASSUME NEW m \in AllMatches(files)
          PROVE  m \in EarlierMatches(files, <<f, i>>) <=> m \in old
      <4>1. PICK a \in Nat, b \in Nat : m = <<a, b>> /\ m[1] = a /\ m[2] = b
        BY <1>3
      <4>2. b < i <=> b <= i - 1
        BY <1>2, <4>1
      <4> QED BY <4>1, <4>2 DEF EarlierMatches, Until
    <3> QED BY <3>1 DEF EarlierMatches, Until
  <2>4. new = old \cup {<<f, i>>} /\ <<f, i>> \notin old
    <3>1. <<f, i>> \notin old /\ <<f, i>> \in new
      BY <1>2, <2>2 DEF Until
    <3>2. ASSUME NEW m \in AllMatches(files), m # <<f, i>>
          PROVE  m \in new <=> m \in old
      <4>1. PICK a \in Nat, b \in Nat : m = <<a, b>> /\ m[1] = a /\ m[2] = b
        BY <1>3
      <4>2. ~(a = f /\ b = i)
        BY <3>2, <4>1
      <4> QED BY <1>2, <4>1, <4>2 DEF Until
    <3>3. new \subseteq AllMatches(files) /\ old \subseteq AllMatches(files)
      BY DEF Until
    <3> HIDE DEF new, old
    <3> QED BY <2>2, <3>1, <3>2, <3>3
  <2>5. Cardinality(old) \in Nat /\ Cardinality(new) = Cardinality(old) + 1
    <3>1. IsFiniteSet(old) /\ Cardinality(old) \in Nat
      BY MatchesAreFinite
    <3> HIDE DEF new, old
    <3> QED BY <2>4, <3>1, FS_AddElement
  <2> HIDE DEF now, new, old
  <2>6. Len(found.matches) = Lesser(max, Cardinality(old)) /\ Len(found.matches) < max
    BY <1>5 DEF FoundUntil, old
  <2>7. Len(found.matches) = Cardinality(old) /\ Len(found.matches) \in Nat
    BY <1>2, <2>5, <2>6 DEF Lesser
  <2>8. Len(now.matches) = Lesser(max, Cardinality(new))
    BY <1>2, <2>1, <2>5, <2>6, <2>7 DEF Lesser, Appends
  <2>9. ASSUME NEW k \in 1..Len(now.matches)
        PROVE  now.matches[k] \in AllMatches(files) /\ Cardinality(EarlierMatches(files, now.matches[k])) = k - 1
    <3>1. CASE k = Len(found.matches) + 1
      <4>1. now.matches[k] = <<f, i>>
        BY <2>1, <3>1 DEF Appends
      <4>2. Cardinality(EarlierMatches(files, now.matches[k])) = Cardinality(old)
        BY <2>3, <4>1
      <4> QED BY <2>2, <2>5, <2>7, <3>1, <4>1, <4>2
    <3>2. CASE k # Len(found.matches) + 1
      <4>1. k \in 1..Len(found.matches)
        BY <2>1, <2>7, <3>2 DEF Appends
      <4>2. now.matches[k] = found.matches[k]
        BY <2>1, <4>1 DEF Appends
      <4> QED BY <4>1, <4>2 DEF FoundUntil
    <3> QED BY <3>1, <3>2
  <2>10. /\ now.truncated => Len(now.matches) = max
         /\ ~now.truncated => Len(now.matches) < max
    BY <1>2, <2>1, <2>6, <2>7 DEF Appends
  <2> QED BY <2>1, <2>8, <2>9, <2>10 DEF FoundUntil, now, new
<1> QED BY <1>4, <1>5

\* One file more.
LEMMA FileStep ==
  ASSUME NEW files \in GrepFiles, NEW max \in Nat \ {0}, NEW f \in 1..MaxFiles,
         NEW found, FoundUntil(files, max, found, f, 0)
  PROVE  FoundUntil(files, max, GrepFile(files[f], f, found, max), f, Len(files[f]))
<1>1. PICK n \in 0..MaxRows : files[f] \in [1..n -> BOOLEAN] /\ Len(files[f]) = n
  BY FilesAreLines
<1>2. n \in Nat /\ f \in Nat /\ max \in Nat /\ found \in GrepStates
  BY <1>1, ReadConstants DEF FoundUntil
<1>7. PICK g : ScansFile(g, n, files[f], f, found, max)
  BY <1>1, <1>2, FileScans
<1>3. /\ g[0] = found /\ GrepFile(files[f], f, found, max) = g[n]
      /\ \A i \in 1..n : g[i] = NextLine(g[i - 1], files[f][i], f, i, max)
  BY <1>7 DEF ScansFile
<1> DEFINE holds == [i \in 0..n |-> FoundUntil(files, max, g[i], f, i)]
<1>4. holds \in [0..n -> BOOLEAN] /\ holds[0]
  BY <1>2, <1>3 DEF FoundUntil
<1>5. ASSUME NEW i \in 1..n, holds[i - 1]
      PROVE  holds[i]
  <2>1. FoundUntil(files, max, g[i - 1], f, i - 1) /\ i \in 1..Len(files[f])
    BY <1>1, <1>2, <1>5
  <2>2. FoundUntil(files, max, NextLine(g[i - 1], files[f][i], f, i, max), f, i)
    BY <2>1, LineStep
  <2> QED BY <1>2, <1>3, <2>2
<1> HIDE DEF holds
<1>6. n \in 0..n /\ holds[n]
  BY <1>2, <1>4, <1>5, HoldsAll
<1> QED BY <1>1, <1>3, <1>6 DEF holds

\* Until the first line of the first file nothing is found, and what follows a file is the
\* first line of the next.
LEMMA UntilFacts ==
  ASSUME NEW files \in GrepFiles
  PROVE  /\ Until(files, 1, 0) = {}
         /\ Until(files, MaxFiles + 1, 0) = AllMatches(files)
         /\ \A f \in 1..MaxFiles : /\ Until(files, f, Len(files[f])) = Until(files, f + 1, 0)
                                   /\ Until(files, f, 0) \subseteq Until(files, f + 1, 0)
<1>1. \A m \in AllMatches(files) : \E a \in 1..MaxFiles, b \in 1..MaxRows :
        m = <<a, b>> /\ m[1] = a /\ m[2] = b /\ b <= Len(files[a])
  BY DEF AllMatches
<1>2. MaxFiles \in Nat /\ MaxRows \in Nat
  BY ReadConstants
<1>3. Until(files, 1, 0) = {}
  <2> SUFFICES ASSUME NEW m \in Until(files, 1, 0)
               PROVE  FALSE
    OBVIOUS
  <2>1. PICK a \in 1..MaxFiles, b \in 1..MaxRows : m[1] = a /\ m[2] = b
    BY <1>1 DEF Until
  <2> QED BY <1>2, <2>1 DEF Until
<1>4. Until(files, MaxFiles + 1, 0) = AllMatches(files)
  <2> SUFFICES ASSUME NEW m \in AllMatches(files)
               PROVE  m[1] < MaxFiles + 1
    BY DEF Until
  <2>1. PICK a \in 1..MaxFiles : m[1] = a
    BY <1>1
  <2> QED BY <1>2, <2>1
<1>5. ASSUME NEW f \in 1..MaxFiles
      PROVE  /\ Until(files, f, Len(files[f])) = Until(files, f + 1, 0)
             /\ Until(files, f, 0) \subseteq Until(files, f + 1, 0)
  <2>1. ASSUME NEW m \in AllMatches(files)
        PROVE  /\ m \in Until(files, f, Len(files[f])) <=> m[1] < f + 1
               /\ m \in Until(files, f + 1, 0) <=> m[1] < f + 1
               /\ m \in Until(files, f, 0) => m[1] < f + 1
    <3>1. PICK a \in 1..MaxFiles, b \in 1..MaxRows : m[1] = a /\ m[2] = b /\ b <= Len(files[a])
      BY <1>1
    <3>2. a \in Nat /\ b \in Nat /\ b >= 1 /\ f \in Nat /\ (a = f => b <= Len(files[f]))
      BY <1>2, <3>1
    <3>3. m \in Until(files, f, Len(files[f])) <=> a < f \/ (a = f /\ b <= Len(files[f]))
      BY <3>1 DEF Until
    <3>4. m \in Until(files, f + 1, 0) <=> a < f + 1 \/ (a = f + 1 /\ b <= 0)
      BY <3>1 DEF Until
    <3>5. m \in Until(files, f, 0) <=> a < f \/ (a = f /\ b <= 0)
      BY <3>1 DEF Until
    <3> QED BY <3>1, <3>2, <3>3, <3>4, <3>5
  <2>2. \A g, j : Until(files, g, j) \subseteq AllMatches(files)
    BY DEF Until
  <2> QED BY <2>1, <2>2
<1> QED BY <1>3, <1>4, <1>5

\* The scan of all files, file by file.
NextFile(found, files, f, max) ==
    IF found.truncated THEN found ELSE GrepFile(files[f], f, found, max)

FilesScan(files, max, g) ==
    g = [f \in 0..Len(files) |->
            IF f = 0 THEN [matches |-> <<>>, truncated |-> FALSE]
            ELSE IF g[f - 1].truncated THEN g[f - 1]
            ELSE GrepFile(files[f], f, g[f - 1], max)]

\* What grep_code has found when it ends.
LEMMA GrepFinds ==
  ASSUME NEW files \in GrepFiles, NEW max \in Nat \ {0}
  PROVE  FoundUntil(files, max, Grep(files, max), MaxFiles + 1, 0)
<1>0. /\ MaxFiles \in Nat /\ MaxRows \in Nat /\ max \in Nat /\ max > 0
      /\ Len(files) = MaxFiles
  BY ReadConstants DEF GrepFiles
<1> DEFINE none == [matches |-> <<>>, truncated |-> FALSE]
<1>1. none \in GrepStates
  BY DEF GrepStates
<1>2. ASSUME NEW found \in GrepStates, NEW f \in 1..MaxFiles
      PROVE  NextFile(found, files, f, max) \in GrepStates
  <2>1. PICK n \in 0..MaxRows : files[f] \in [1..n -> BOOLEAN] /\ Len(files[f]) = n
    BY FilesAreLines
  <2>2. n \in Nat /\ f \in Nat /\ n \in 0..n
    BY <1>0, <2>1
  <2>3. PICK g : ScansFile(g, n, files[f], f, found, max)
    BY <1>0, <2>1, <2>2, FileScans
  <2>4. GrepFile(files[f], f, found, max) \in GrepStates
    BY <2>2, <2>3 DEF ScansFile
  <2> QED BY <2>4 DEF NextFile
<1> DEFINE step == [p \in (1..MaxFiles) \X GrepStates |-> NextFile(p[2], files, p[1], max)]
<1>3. step \in Steps(MaxFiles, GrepStates)
  BY <1>2 DEF Steps
<1>4. \A f \in 1..MaxFiles, x \in GrepStates : step[<<f, x>>] = NextFile(x, files, f, max)
  OBVIOUS
<1> HIDE DEF step, none
<1>5. PICK s : Unfolds(s, MaxFiles, GrepStates, none, step)
  BY <1>0, <1>1, <1>3, StepByStep
<1>6. s \in [0..MaxFiles -> GrepStates] /\ s[0] = none /\ \A f \in 1..MaxFiles : s[f] = step[<<f, s[f - 1]>>]
  BY <1>5 DEF Unfolds
<1>7. \A f \in 1..MaxFiles : s[f] = NextFile(s[f - 1], files, f, max)
  <2> TAKE f \in 1..MaxFiles
  <2>1. s[f - 1] \in GrepStates
    BY <1>0, <1>6
  <2> QED BY <1>4, <1>6, <2>1
<1>8. FilesScan(files, max, s)
  <2>1. s = [f \in 0..MaxFiles |-> s[f]]
    BY <1>6
  <2>2. \A f \in 0..MaxFiles : s[f] =
            IF f = 0 THEN none
            ELSE IF s[f - 1].truncated THEN s[f - 1]
            ELSE GrepFile(files[f], f, s[f - 1], max)
    <3> TAKE f \in 0..MaxFiles
    <3>1. f # 0 => f \in 1..MaxFiles
      BY <1>0
    <3> QED BY <1>6, <1>7, <3>1 DEF NextFile
  <2> QED BY <1>0, <2>1, <2>2 DEF FilesScan, none
<1>9. PICK g : g = CHOOSE h : FilesScan(files, max, h)
  OBVIOUS
<1>10. FilesScan(files, max, g)
  BY <1>8, <1>9
<1>11. Grep(files, max) = g[MaxFiles]
  BY <1>0, <1>9 DEF Grep, FilesScan
<1>12. \A f \in 0..MaxFiles : g[f] =
            IF f = 0 THEN none
            ELSE IF g[f - 1].truncated THEN g[f - 1]
            ELSE GrepFile(files[f], f, g[f - 1], max)
  BY <1>0, <1>10 DEF FilesScan, none
<1> DEFINE holds == [f \in 0..MaxFiles |-> FoundUntil(files, max, g[f], f + 1, 0)]
<1>13. holds \in [0..MaxFiles -> BOOLEAN]
  BY DEF FoundUntil
<1>14. holds[0]
  <2>1. 0 \in 0..MaxFiles /\ g[0] = none /\ 0 + 1 = 1
    BY <1>0, <1>12
  <2>2. none.matches = <<>> /\ none.truncated = FALSE /\ Len(none.matches) = 0
    BY DEF none
  <2>3. Cardinality(Until(files, 1, 0)) = 0
    BY UntilFacts, FS_EmptySet
  <2>4. FoundUntil(files, max, none, 1, 0)
    BY <1>0, <1>1, <2>2, <2>3 DEF FoundUntil, Lesser
  <2> QED BY <2>1, <2>4
<1>15. ASSUME NEW f \in 1..MaxFiles, holds[f - 1]
       PROVE  holds[f]
  <2>1. f - 1 \in 0..MaxFiles /\ f \in 0..MaxFiles /\ f # 0 /\ (f - 1) + 1 = f
    BY <1>0
  <2>2. FoundUntil(files, max, g[f - 1], f, 0)
    BY <1>15, <2>1
  <2>3. CASE g[f - 1].truncated
    <3>1. FoundUntil(files, max, g[f - 1], f + 1, 0)
      BY <1>0, <2>2, <2>3, UntilFacts, FoundStays
    <3>2. g[f] = g[f - 1]
      BY <1>12, <2>1, <2>3
    <3> QED BY <2>1, <3>1, <3>2
  <2>4. CASE ~g[f - 1].truncated
    <3>1. g[f] = GrepFile(files[f], f, g[f - 1], max)
      BY <1>12, <2>1, <2>4
    <3>2. FoundUntil(files, max, g[f], f, Len(files[f]))
      BY <2>2, <3>1, FileStep
    <3>3. FoundUntil(files, max, g[f], f + 1, 0)
      BY <3>2, UntilFacts DEF FoundUntil
    <3> QED BY <2>1, <3>3
  <2> QED BY <2>3, <2>4
<1> HIDE DEF holds
<1>16. MaxFiles \in 0..MaxFiles /\ holds[MaxFiles]
  BY <1>0, <1>13, <1>14, <1>15, HoldsAll
<1> QED BY <1>11, <1>16 DEF holds

-----------------------------------------------------------------------------
(* search *)

\* The best of the first i lines.
NextBest(b, file, i) == IF file[i] > (IF b = 0 THEN 0 ELSE file[b]) THEN i ELSE b

BestSoFar(file, i, b) ==
    /\ b \in 0..i
    /\ b = 0 => \A j \in 1..i : file[j] = 0
    /\ b # 0 => file[b] > 0 /\ \A j \in 1..i : file[j] <= file[b]

\* One line more.
LEMMA BestStep ==
  ASSUME NEW n \in Nat, NEW file \in [1..n -> Nat], NEW i \in 1..n, NEW b, BestSoFar(file, i - 1, b)
  PROVE  BestSoFar(file, i, NextBest(b, file, i))
<1>1. file[i] \in Nat /\ b \in 0..(i - 1) /\ (b # 0 => b \in 1..n /\ file[b] \in Nat)
  BY DEF BestSoFar
<1>2. \A j \in 1..i : j = i \/ j \in 1..(i - 1)
  OBVIOUS
<1>3. CASE b = 0
  <2>1. \A j \in 1..(i - 1) : file[j] = 0
    BY <1>3 DEF BestSoFar
  <2>2. CASE file[i] > 0
    <3>1. NextBest(b, file, i) = i
      BY <1>3, <2>2 DEF NextBest
    <3>2. \A j \in 1..i : file[j] <= file[i]
      BY <1>1, <1>2, <2>1
    <3> QED BY <2>2, <3>1, <3>2 DEF BestSoFar
  <2>3. CASE ~(file[i] > 0)
    <3>1. NextBest(b, file, i) = 0
      BY <1>3, <2>3 DEF NextBest
    <3>2. \A j \in 1..i : file[j] = 0
      BY <1>1, <1>2, <2>1, <2>3
    <3> QED BY <3>1, <3>2 DEF BestSoFar
  <2> QED BY <2>2, <2>3
<1>4. CASE b # 0
  <2>1. file[b] > 0 /\ \A j \in 1..(i - 1) : file[j] <= file[b]
    BY <1>4 DEF BestSoFar
  <2>2. CASE file[i] > file[b]
    <3>1. NextBest(b, file, i) = i
      BY <1>4, <2>2 DEF NextBest
    <3>2. ASSUME NEW j \in 1..i
          PROVE  file[j] <= file[i]
      <4>1. file[j] \in Nat /\ (j = i \/ file[j] <= file[b])
        BY <1>2, <2>1
      <4> QED BY <1>1, <1>4, <2>2, <4>1
    <3>3. file[i] > 0
      BY <1>1, <1>4, <2>1, <2>2
    <3> QED BY <3>1, <3>2, <3>3 DEF BestSoFar
  <2>3. CASE ~(file[i] > file[b])
    <3>1. NextBest(b, file, i) = b /\ b \in 0..i
      BY <1>1, <1>4, <2>3 DEF NextBest
    <3>2. file[i] <= file[b]
      BY <1>1, <1>4, <2>3
    <3>3. \A j \in 1..i : file[j] <= file[b]
      BY <1>2, <2>1, <3>2
    <3> QED BY <1>4, <2>1, <3>1, <3>3 DEF BestSoFar
  <2> QED BY <2>2, <2>3
<1> QED BY <1>3, <1>4

BestScan(file, b) ==
    b = [i \in 0..Len(file) |->
            IF i = 0 THEN 0
            ELSE IF file[i] > (IF b[i - 1] = 0 THEN 0 ELSE file[b[i - 1]]) THEN i ELSE b[i - 1]]

\* The best line of a file has a positive score, and no line has a better one.
LEMMA BestFacts ==
  ASSUME NEW n \in Nat, NEW file \in [1..n -> Nat]
  PROVE  BestSoFar(file, n, BestLine(file))
<1>0. Len(file) = n
  OBVIOUS
<1> DEFINE X == 0..n
           step == [p \in (1..n) \X X |-> NextBest(p[2], file, p[1])]
<1>1. step \in Steps(n, X) /\ 0 \in X
  BY DEF Steps, NextBest
<1>2. \A i \in 1..n, x \in X : step[<<i, x>>] = NextBest(x, file, i)
  OBVIOUS
<1>3. PICK s : Unfolds(s, n, X, 0, step)
  <2> HIDE DEF step, X
  <2> QED BY <1>1, StepByStep
<1> HIDE DEF step
<1>4. s \in [0..n -> X] /\ s[0] = 0 /\ \A i \in 1..n : s[i] = step[<<i, s[i - 1]>>]
  BY <1>3 DEF Unfolds
<1>5. \A i \in 1..n : s[i] = NextBest(s[i - 1], file, i)
  <2> TAKE i \in 1..n
  <2>1. s[i - 1] \in X
    BY <1>4
  <2> QED BY <1>2, <1>4, <2>1
<1>6. BestScan(file, s)
  <2>1. s = [i \in 0..n |-> s[i]]
    BY <1>4
  <2>2. \A i \in 0..n : s[i] =
            IF i = 0 THEN 0
            ELSE IF file[i] > (IF s[i - 1] = 0 THEN 0 ELSE file[s[i - 1]]) THEN i ELSE s[i - 1]
    <3> TAKE i \in 0..n
    <3>1. i # 0 => i \in 1..n
      OBVIOUS
    <3> QED BY <1>4, <1>5, <3>1 DEF NextBest
  <2> QED BY <1>0, <2>1, <2>2 DEF BestScan
<1>7. PICK b : b = CHOOSE h : BestScan(file, h)
  OBVIOUS
<1>8. BestScan(file, b)
  BY <1>6, <1>7
<1>9. BestLine(file) = b[n]
  BY <1>0, <1>7 DEF BestLine, BestScan
<1>10. \A i \in 0..n : b[i] =
            IF i = 0 THEN 0
            ELSE IF file[i] > (IF b[i - 1] = 0 THEN 0 ELSE file[b[i - 1]]) THEN i ELSE b[i - 1]
  BY <1>0, <1>8 DEF BestScan
<1> DEFINE holds == [i \in 0..n |-> BestSoFar(file, i, b[i])]
<1>11. holds \in [0..n -> BOOLEAN]
  BY DEF BestSoFar
<1>12. holds[0]
  <2>1. 0 \in 0..n /\ b[0] = 0 /\ 0 \in 0..0 /\ 1..0 = {}
    BY <1>10
  <2> QED BY <2>1 DEF BestSoFar
<1>13. ASSUME NEW i \in 1..n, holds[i - 1]
       PROVE  holds[i]
  <2>1. i - 1 \in 0..n /\ i \in 0..n /\ i # 0
    OBVIOUS
  <2>2. BestSoFar(file, i - 1, b[i - 1])
    BY <1>13, <2>1
  <2>3. b[i] = NextBest(b[i - 1], file, i)
    BY <1>10, <2>1 DEF NextBest
  <2>4. BestSoFar(file, i, b[i])
    BY <2>2, <2>3, BestStep
  <2> QED BY <2>1, <2>4
<1> HIDE DEF holds
<1>14. \A i \in 0..n : holds[i]
  BY <1>11, <1>12, <1>13, HoldsAll
<1>15. n \in 0..n /\ holds[n]
  BY <1>14
<1> QED BY <1>9, <1>15 DEF holds

SearchFiles == [1..MaxFiles -> UNION {[1..n -> Scores] : n \in 0..MaxRows}]

\* The score of a file is that of its best line.
BestOf(file) == LET s == {file[i] : i \in 1..Len(file)} \cup {0}
                IN  CHOOSE x \in s : \A y \in s : y <= x

ScoreOf(file) == IF BestLine(file) = 0 THEN 0 ELSE file[BestLine(file)]

\* The score of a file is the greatest of its lines.
LEMMA ScoreFacts ==
  ASSUME NEW files \in SearchFiles, NEW f \in 1..MaxFiles
  PROVE  /\ ScoreOf(files[f]) \in Nat
         /\ ScoreOf(files[f]) > 0 <=> BestLine(files[f]) # 0
         /\ ScoreOf(files[f]) = BestOf(files[f])
<1>1. PICK n \in 0..MaxRows : files[f] \in [1..n -> Scores]
  BY DEF SearchFiles
<1>2. PICK file : file = files[f]
  OBVIOUS
<1>3. n \in Nat /\ file \in [1..n -> Nat] /\ Len(file) = n
  <2>1. n \in Nat /\ Scores \subseteq Nat
    BY ReadConstants
  <2>2. file \in [1..n -> Nat]
    BY <1>1, <1>2, <2>1
  <2>3. Len(file) = n
    BY <2>1, <2>2
  <2> QED BY <2>1, <2>2, <2>3
<1>4. BestSoFar(file, n, BestLine(file))
  BY <1>3, BestFacts
<1>5. PICK b : b = BestLine(file)
  OBVIOUS
<1>6. b \in 0..n /\ (b = 0 => \A j \in 1..n : file[j] = 0)
      /\ (b # 0 => b \in 1..n /\ file[b] > 0 /\ \A j \in 1..n : file[j] <= file[b])
  BY <1>3, <1>4, <1>5 DEF BestSoFar
<1>7. ScoreOf(file) = IF b = 0 THEN 0 ELSE file[b]
  BY <1>5 DEF ScoreOf
<1>8. ScoreOf(file) \in Nat /\ (ScoreOf(file) > 0 <=> b # 0)
  BY <1>3, <1>6, <1>7
<1> DEFINE s == {file[i] : i \in 1..n} \cup {0}
<1>9. ScoreOf(file) \in s /\ \A y \in s : y <= ScoreOf(file)
  <2>1. ScoreOf(file) \in s
    BY <1>6, <1>7
  <2>2. ASSUME NEW i \in 1..n
        PROVE  file[i] <= ScoreOf(file)
    BY <1>3, <1>6, <1>7
  <2> QED BY <1>8, <2>1, <2>2
<1>10. \A x \in s, y \in s : x <= y /\ y <= x => x = y
  BY <1>3
<1>11. ScoreOf(file) = CHOOSE x \in s : \A y \in s : y <= x
  <2> HIDE DEF s
  <2>1. \A x \in s : (\A y \in s : y <= x) => x = ScoreOf(file)
    BY <1>9, <1>10
  <2> QED BY <1>9, <2>1
<1>12. ScoreOf(file) = BestOf(file)
  BY <1>3, <1>11 DEF BestOf
<1> QED BY <1>2, <1>5, <1>8, <1>12

HitsOf(files) == {f \in 1..MaxFiles : BestLine(files[f]) # 0}

\* The files search_code returns are the first in its order of those that have a score.
LEMMA HitFacts ==
  ASSUME NEW files \in SearchFiles, NEW k \in Nat, NEW found, found = SearchHits(files, k),
         NEW hits, hits = HitsOf(files)
  PROVE  /\ found \subseteq hits /\ Cardinality(found) \in Nat /\ Cardinality(found) <= k
         /\ found # hits => Cardinality(found) = k
         /\ \A f \in found, g \in hits \ found : ScoreOf(files[f]) >= ScoreOf(files[g])
<1>0. Len(files) = MaxFiles /\ MaxFiles \in Nat
  BY ReadConstants DEF SearchFiles
<1> USE DEF HitsOf
<1> DEFINE Above(g, f) == \/ ScoreOf(files[g]) > ScoreOf(files[f])
                          \/ ScoreOf(files[g]) = ScoreOf(files[f]) /\ g < f
           before == [f \in hits |-> {g \in hits : Above(g, f)}]
<1>1. IsFiniteSet(hits)
  <2>1. hits \subseteq 1..MaxFiles
    OBVIOUS
  <2> QED BY <1>0, <2>1, FS_Interval, FS_Subset
<1>2. \A f \in hits : f \in Nat /\ ScoreOf(files[f]) \in Nat /\ ScoreOf(files[f]) = files[f][BestLine(files[f])]
  <2> TAKE f \in hits
  <2>1. f \in 1..MaxFiles /\ BestLine(files[f]) # 0
    OBVIOUS
  <2> QED BY <1>0, <2>1, ScoreFacts DEF ScoreOf
<1>3. before \in [hits -> SUBSET hits]
  OBVIOUS
<1>4. \A f \in hits : f \notin before[f]
  BY <1>2
<1>5. \A f, g \in hits : g \in before[f] => before[g] \subseteq before[f]
  BY <1>2
<1>6. \A f, g \in hits : f = g \/ f \in before[g] \/ g \in before[f]
  BY <1>2
<1>7. found = FirstOf(before, hits, k)
  <2> DEFINE score(f) == files[f][BestLine(files[f])]
             above(f) == {g \in hits : score(g) > score(f) \/ (score(g) = score(f) /\ g < f)}
  <2>1. hits = {f \in 1..Len(files) : BestLine(files[f]) # 0}
    BY <1>0
  <2>2. found = {f \in hits : Cardinality(above(f)) < k}
    BY <2>1 DEF SearchHits
  <2>3. \A f \in hits : above(f) = before[f]
    BY <1>2
  <2> HIDE DEF above, before
  <2> QED BY <2>2, <2>3 DEF FirstOf
<1>8. /\ Cardinality(found) \in Nat /\ Cardinality(found) <= k
      /\ found # hits => Cardinality(found) = k
      /\ \A f \in found, g \in hits \ found : f \in before[g]
  <2> HIDE DEF before
  <2>1. Ranks(before, hits)
    BY <1>3, <1>4, <1>5, <1>6 DEF Ranks
  <2>2. PICK first : first = FirstOf(before, hits, k)
    OBVIOUS
  <2>3. Cardinality(first) \in Nat /\ Cardinality(first) <= k
    BY <1>1, <2>1, <2>2, FirstMembers
  <2>4. first # hits => Cardinality(first) = k
    BY <1>1, <2>1, <2>2, FirstMembers
  <2>5. \A f \in first, g \in hits \ first : f \in before[g]
    BY <1>1, <2>1, <2>2, FirstMembers
  <2> QED BY <1>7, <2>2, <2>3, <2>4, <2>5
<1>9. found \subseteq hits
  BY <1>7 DEF FirstOf
<1>10. ASSUME NEW f \in found, NEW g \in hits \ found
       PROVE  ScoreOf(files[f]) >= ScoreOf(files[g])
  <2>1. f \in before[g] /\ f \in hits /\ g \in hits
    BY <1>8, <1>9
  <2>2. Above(f, g)
    BY <2>1
  <2> QED BY <1>2, <2>1, <2>2
<1> QED BY <1>8, <1>9, <1>10

-----------------------------------------------------------------------------
(* The reading tools *)

\* The LIKE of the query selects what fnmatch accepts.
LEMMA GlobsSelect == ReadsIInv => GlobSelects
<1> SUFFICES ASSUME ReadsIInv, probe.kind = "glob"
             PROVE  GlobSelects
  BY DEF GlobSelects
<1>1. GlobProbe
  BY DEF ReadsIInv, PageProbe, BudgetProbe, GrepProbe, SearchProbe
<1>2. PICK glob \in Texts(GlobChars), path \in Texts(PathChars) :
        probe = [kind |-> "glob", glob |-> glob, path |-> path]
  BY <1>1 DEF GlobProbe
<1>3. PICK n \in 0..MaxGlob : glob \in [1..n -> GlobChars]
  BY DEF Texts
<1>4. PICK m \in 0..MaxGlob : path \in [1..m -> PathChars]
  BY DEF Texts
<1>5. n \in Nat /\ m \in Nat
  BY ReadConstants
<1>6. Len(glob) = n /\ Len(path) = m
  BY <1>3, <1>4, <1>5
<1>7. GlobSelects <=> (Prefiltered(glob, path) <=> FnMatch(glob, path))
  BY <1>2 DEF GlobSelects
<1>8. CASE \A i \in 1..n : glob[i] \notin {"*", "?"}
  <2>1. Prefiltered(glob, path) <=> glob = path
    BY <1>6, <1>8 DEF Prefiltered
  <2>2. glob = path <=> FnMatch(glob, path)
    BY <1>3, <1>4, <1>5, <1>8, PlainGlobs
  <2> QED BY <1>7, <2>1, <2>2
<1>9. CASE ~\A i \in 1..n : glob[i] \notin {"*", "?"}
  <2>1. PICK pattern : pattern = [i \in 1..n |-> Like(glob[i])]
    OBVIOUS
  <2>2. Prefiltered(glob, path) <=> Matches(pattern, path)
    BY <1>6, <1>9, <2>1 DEF Prefiltered
  <2>3. Len(pattern) = n /\ (FnMatch(glob, path) <=> CanMatch(pattern, path, n, Len(path)))
    BY <1>3, <1>5, <1>6, <2>1, FnMatchFacts
  <2>4. Matches(pattern, path) <=> CanMatch(pattern, path, n, Len(path))
    BY <1>5, <1>6, <2>3, MatchFacts
  <2> QED BY <1>7, <2>2, <2>3, <2>4
<1> QED BY <1>8, <1>9

\* grep_code returns the first matches.
LEMMA GrepsArePrefixes == ReadsIInv => GrepIsPrefix
<1> SUFFICES ASSUME ReadsIInv, probe.kind = "grep"
             PROVE  GrepIsPrefix
  BY DEF GrepIsPrefix
<1>1. GrepProbe
  BY DEF ReadsIInv, PageProbe, BudgetProbe, GlobProbe, SearchProbe
<1>2. PICK files \in GrepFiles, max \in Nat \ {0} :
        probe = [kind |-> "grep", files |-> files, max |-> max]
  BY <1>1 DEF GrepProbe, GrepFiles
<1>3. PICK grep : grep = Grep(files, max)
  OBVIOUS
<1>4. FoundUntil(files, max, grep, MaxFiles + 1, 0)
  BY <1>3, GrepFinds
<1>5. Until(files, MaxFiles + 1, 0) = AllMatches(files)
  BY UntilFacts
<1>6. Cardinality(AllMatches(files)) \in Nat
  BY <1>5, MatchesAreFinite
<1>7. /\ Len(grep.matches) = Lesser(max, Cardinality(AllMatches(files)))
      /\ \A n \in 1..Len(grep.matches) :
            /\ grep.matches[n] \in AllMatches(files)
            /\ Cardinality(EarlierMatches(files, grep.matches[n])) = n - 1
      /\ ~grep.truncated => Len(grep.matches) < max
  BY <1>4, <1>5 DEF FoundUntil
<1>8. ~grep.truncated => Len(grep.matches) = Cardinality(AllMatches(files))
  BY <1>6, <1>7 DEF Lesser
<1>9. /\ probe.files = files /\ probe.max = max
  BY <1>2
<1> QED BY <1>3, <1>7, <1>8, <1>9 DEF GrepIsPrefix, AllMatches, EarlierMatches

\* search_code returns the files with the best lines.
LEMMA SearchesKeepBest == ReadsIInv => SearchKeepsBest
<1> SUFFICES ASSUME ReadsIInv, probe.kind = "search"
             PROVE  SearchKeepsBest
  BY DEF SearchKeepsBest
<1>1. SearchProbe
  BY DEF ReadsIInv, PageProbe, BudgetProbe, GlobProbe, GrepProbe
<1>2. PICK files \in SearchFiles, k \in Nat \ {0} : probe = [kind |-> "search", files |-> files, k |-> k]
  BY <1>1 DEF SearchProbe, SearchFiles
<1>3. PICK found : found = SearchHits(files, k)
  OBVIOUS
<1>4. PICK hits : hits = HitsOf(files)
  OBVIOUS
<1>5. /\ found \subseteq hits /\ Cardinality(found) <= k
      /\ found # hits => Cardinality(found) = k
      /\ \A f \in found, g \in hits \ found : ScoreOf(files[f]) >= ScoreOf(files[g])
  <2>1. k \in Nat
    OBVIOUS
  <2>2. found \subseteq hits /\ Cardinality(found) <= k
    BY <1>3, <1>4, <2>1, HitFacts
  <2>3. found # hits => Cardinality(found) = k
    BY <1>3, <1>4, <2>1, HitFacts
  <2>4. \A f \in found, g \in hits \ found : ScoreOf(files[f]) >= ScoreOf(files[g])
    BY <1>3, <1>4, <2>1, HitFacts
  <2> QED BY <2>2, <2>3, <2>4
<1>6. Len(files) = MaxFiles
  BY ReadConstants DEF SearchFiles
<1>7. ASSUME NEW f \in 1..MaxFiles
      PROVE  BestOf(files[f]) = ScoreOf(files[f]) /\ (BestOf(files[f]) > 0 <=> f \in hits)
  BY <1>4, ScoreFacts DEF HitsOf
<1>8. SearchKeepsBest <=>
        /\ Cardinality(found) <= k
        /\ \A f \in found : BestOf(files[f]) > 0
        /\ \A g \in (1..MaxFiles) \ found :
            BestOf(files[g]) > 0 =>
                Cardinality(found) = k /\ \A f \in found : BestOf(files[f]) >= BestOf(files[g])
  <2>1. probe.files = files /\ probe.k = k
    BY <1>2
  <2>2. SearchKeepsBest <=>
          LET seen == SearchHits(probe.files, probe.k) IN
          /\ Cardinality(seen) <= probe.k
          /\ \A f \in seen : BestOf(probe.files[f]) > 0
          /\ \A g \in (1..Len(probe.files)) \ seen :
              BestOf(probe.files[g]) > 0 =>
                  /\ Cardinality(seen) = probe.k
                  /\ \A f \in seen : BestOf(probe.files[f]) >= BestOf(probe.files[g])
    BY DEF SearchKeepsBest, BestOf
  <2> QED BY <1>3, <1>6, <2>1, <2>2
<1>9. hits \subseteq 1..MaxFiles
  BY <1>4 DEF HitsOf
<1>10. ASSUME NEW g \in (1..MaxFiles) \ found, BestOf(files[g]) > 0
       PROVE  /\ Cardinality(found) = k
              /\ \A f \in found : BestOf(files[f]) >= BestOf(files[g])
  <2>1. g \in hits \ found
    BY <1>7, <1>10
  <2>2. \A f \in found : ScoreOf(files[f]) >= ScoreOf(files[g])
    BY <1>5, <2>1
  <2> QED BY <1>5, <1>7, <1>9, <2>1, <2>2
<1> QED BY <1>5, <1>7, <1>8, <1>9, <1>10

\* The tools of remote_code.py that read return what they promise, for files, patterns, requests
\* and limits of any size.
THEOREM ReadsExact == ReadsSpec => []ReadsAreExact
<1>1. ReadsIInv => ReadsAreExact
  BY PagesAreCovered, GlobsSelect, BudgetsAreExact, GrepsArePrefixes, SearchesKeepBest DEF ReadsAreExact
<1> QED BY <1>1, ReadsInvariance, PTL

-----------------------------------------------------------------------------
(* Answers: the context *)

\* The inductive invariant of AgentAnswers: what is asked is one of the requests.
AnswersIInv == asked \in Requests

\* What is asked is a request, for any bounds of texts, rows and budgets.
THEOREM AnswersInvariance == AnswersSpec => []AnswersIInv
<1>1. AnswersInit => AnswersIInv
  BY DEF AnswersInit, AnswersIInv
<1>2. AnswersIInv /\ [AnswersNext]_asked => AnswersIInv'
  BY DEF AnswersIInv, AnswersNext
<1> QED BY <1>1, <1>2, PTL DEF AnswersSpec

\* Rows are a sequence.
LEMMA RowsAreSequences ==
  ASSUME NEW S, NEW rows \in Rows(S)
  PROVE  rows \in Seq(S) /\ Len(rows) \in Nat /\ DOMAIN rows = 1..Len(rows)
<1>1. PICK n \in 0..MaxEntries : rows \in [1..n -> S]
  BY DEF Rows
<1>2. n \in Nat
  BY <1>1
<1>3. rows \in Seq(S)
  BY <1>1, <1>2
<1> QED BY <1>3

\* The total of a sequence is a number, and one entry more adds its length.
LEMMA TotalGrows ==
  ASSUME NEW s \in Seq(Nat), NEW x \in Nat
  PROVE  /\ Total(<<>>) = 0 /\ Total(s) \in Nat
         /\ Append(s, x) \in Seq(Nat) /\ Total(Append(s, x)) = Total(s) + x
<1>1. PICK n \in Nat : n = Len(s)
  OBVIOUS
<1>2. \A t \in Seq(Nat) : Total(t) = SumOf(t, Len(t))
  BY DEF Total, SumOf, SumsUp
<1>3. PICK t : t = Append(s, x)
  OBVIOUS
<1>4. t \in Seq(Nat) /\ Len(t) = n + 1 /\ t[n + 1] = x /\ \A i \in 1..n : s[i] \in Nat /\ s[i] = t[i]
  BY <1>1, <1>3
<1>5. n + 1 \in Nat /\ n + 1 \in 1..(n + 1) /\ (n + 1) - 1 = n /\ n \in 0..n
  OBVIOUS
<1>6. \A i \in 1..(n + 1) : t[i] \in Nat
  BY <1>4
<1>7. SumOf(t, n + 1) = SumOf(t, n) + x
  <2>1. SumOf(t, n + 1) = SumOf(t, (n + 1) - 1) + t[n + 1]
    BY <1>5, <1>6, SumOfFacts
  <2> QED BY <1>4, <1>5, <2>1
<1>8. SumOf(s, n) = SumOf(t, n) /\ SumOf(s, n) \in Nat
  <2>1. SumOf(s, n) = SumOf(t, n)
    BY <1>4, SumOfSame
  <2>2. SumOf(s, n) \in Nat
    BY <1>4, <1>5, SumOfFacts
  <2> QED BY <2>1, <2>2
<1>9. Total(s) = SumOf(s, n) /\ Total(t) = SumOf(t, n + 1)
  BY <1>1, <1>2, <1>4
<1>10. Total(<<>>) = 0
  <2>1. PICK none : none = <<>>
    OBVIOUS
  <2>2. none \in Seq(Nat) /\ Len(none) = 0
    BY <2>1
  <2>3. SumOf(none, 0) = 0
    <3>1. 0 \in Nat /\ \A i \in 1..0 : none[i] \in Nat
      OBVIOUS
    <3> QED BY <3>1, SumOfFacts
  <2>4. Total(none) = 0
    BY <1>2, <2>2, <2>3
  <2> QED BY <2>1, <2>4
<1> QED BY <1>3, <1>4, <1>7, <1>8, <1>9, <1>10

ContextEntries == [header : 1..2, text : 0..(LongSnippet + 2)]
ContextStates == [parts : Seq(Nat), open : BOOLEAN]

\* The parts after the next entry.
NextPart(st, entry, max) ==
    IF ~st.open \/ Room(max, st.parts) <= entry.header
    THEN [st EXCEPT !.open = FALSE]
    ELSE [st EXCEPT !.parts = Append(@, EntryLength(entry, Room(max, st.parts)))]

\* The parts of the first entries fit, each with its header, and while it is open there is
\* one of each entry.
FitsUntil(st, entries, max, i) ==
    /\ st \in ContextStates /\ Len(st.parts) <= i /\ (st.open => Len(st.parts) = i) /\ (i = 0 => st.open)
    /\ Total(st.parts) + Separator * More(0, Len(st.parts) - 1) <= max
    /\ \A k \in 1..Len(st.parts) : st.parts[k] > entries[k].header \/ entries[k].text = 0
    /\ i > 0 /\ max > entries[1].header => Len(st.parts) > 0

\* An entry with room for more than its header is a part with all of it and some text.
LEMMA EntryFacts ==
  ASSUME NEW entry \in ContextEntries, NEW room \in Nat, room > entry.header
  PROVE  /\ EntryLength(entry, room) \in Nat /\ EntryLength(entry, room) <= room
         /\ EntryLength(entry, room) > entry.header \/ entry.text = 0
<1> USE AnswerConstants
<1>1. PICK header \in Nat, text \in Nat : header = entry.header /\ text = entry.text
  BY DEF ContextEntries
<1>2. PICK limit \in Nat : limit = Fewer(LongSnippet, More(ShortSnippet, room - entry.header))
  <2>1. LongSnippet \in Nat /\ ShortSnippet \in Nat
    OBVIOUS
  <2>2. room - header \in Int
    BY <1>1
  <2>3. Fewer(LongSnippet, More(ShortSnippet, room - header)) \in Nat
    BY <2>1, <2>2 DEF Fewer, More
  <2> QED BY <1>1, <2>3
<1>3. PICK snippet \in Nat : snippet = SnippetOf(text, limit) /\ (text = 0 \/ snippet > 0)
  BY DEF SnippetOf
<1>4. EntryLength(entry, room) = Fewer(room, header + snippet)
  BY <1>1, <1>2, <1>3 DEF EntryLength
<1> QED BY <1>1, <1>3, <1>4 DEF Fewer

\* One entry more.
LEMMA NextPartFacts ==
  ASSUME NEW entries \in Seq(ContextEntries), NEW max \in Nat, NEW i \in 1..Len(entries), NEW st,
         FitsUntil(st, entries, max, i - 1)
  PROVE  FitsUntil(NextPart(st, entries[i], max), entries, max, i)
<1>1. PICK parts \in Seq(Nat), open \in BOOLEAN : st = [parts |-> parts, open |-> open]
  BY DEF FitsUntil, ContextStates
<1>2. PICK n \in Nat, total \in Nat : n = Len(parts) /\ total = Total(parts)
  <2>1. Total(parts) \in Nat
    BY TotalGrows
  <2> QED BY <2>1
<1>3. PICK header \in Nat \ {0} : header = entries[i].header
  <2>1. entries[i] \in ContextEntries
    OBVIOUS
  <2>2. entries[i].header \in Nat \ {0}
    BY <2>1 DEF ContextEntries
  <2> QED BY <2>2
<1>4. /\ n <= i - 1 /\ (open => n = i - 1) /\ (i - 1 = 0 => open)
      /\ total + 2 * More(0, n - 1) <= max
      /\ \A k \in 1..n : parts[k] > entries[k].header \/ entries[k].text = 0
      /\ i - 1 > 0 /\ max > entries[1].header => n > 0
  BY <1>1, <1>2 DEF FitsUntil, Separator
<1>5. PICK room : room = Room(max, parts)
  OBVIOUS
<1>6. room = max - total - 2 * n
  BY <1>2, <1>5 DEF Room, Separator
<1>7. CASE ~open \/ room <= header
  <2>1. NextPart(st, entries[i], max) = [parts |-> parts, open |-> FALSE]
    BY <1>1, <1>3, <1>5, <1>7 DEF NextPart
  <2>2. [parts |-> parts, open |-> FALSE] \in ContextStates
    BY DEF ContextStates
  <2>3. i > 0 /\ max > entries[1].header => n > 0
    <3>1. CASE i - 1 > 0
      BY <1>4, <3>1
    <3>2. CASE ~(i - 1 > 0)
      <4>1. i = 1 /\ n = 0
        BY <1>2, <1>4, <3>2
      <4>2. total = 0
        <5>1. Len(parts) = 0
          BY <1>2, <4>1
        <5>2. parts = <<>>
          BY <5>1
        <5> QED BY <1>2, <5>2, TotalGrows
      <4>3. room <= header
        BY <1>4, <1>7, <3>2
      <4>4. max <= entries[1].header
        BY <1>3, <1>6, <4>1, <4>2, <4>3
      <4>5. entries[1].header \in Nat
        BY <1>3, <4>1
      <4> QED BY <4>4, <4>5
    <3> QED BY <3>1, <3>2
  <2>4. n <= i
    BY <1>2, <1>4
  <2> QED BY <1>2, <1>4, <2>1, <2>2, <2>3, <2>4 DEF FitsUntil, Separator
<1>8. CASE open /\ room > header
  <2>1. n = i - 1 /\ room \in Nat
    <3>1. n = i - 1
      BY <1>4, <1>8
    <3>2. max - total - 2 * n \in Int
      BY <1>2
    <3>3. room \in Int /\ room > header /\ header \in Nat
      BY <1>3, <1>6, <1>8, <3>2
    <3> QED BY <3>1, <3>3
  <2>2. entries[i] \in ContextEntries
    OBVIOUS
  <2>3. PICK part \in Nat : part = EntryLength(entries[i], room)
                            /\ part <= room /\ (part > header \/ entries[i].text = 0)
    BY <1>3, <1>8, <2>1, <2>2, EntryFacts
  <2>4. PICK next : next = Append(parts, part)
    OBVIOUS
  <2>5. /\ next \in Seq(Nat) /\ Total(next) = total + part
        /\ Len(next) = i /\ next[i] = part /\ \A k \in 1..n : next[k] = parts[k]
    <3>1. next \in Seq(Nat) /\ Total(next) = total + part
      BY <1>2, <2>4, TotalGrows
    <3>2. Len(next) = n + 1 /\ next[n + 1] = part /\ \A k \in 1..n : next[k] = parts[k]
      BY <1>2, <2>4
    <3> QED BY <2>1, <3>1, <3>2
  <2>6. NextPart(st, entries[i], max) = [parts |-> next, open |-> TRUE]
    <3>1. ~(~st.open \/ Room(max, st.parts) <= entries[i].header)
      BY <1>1, <1>3, <1>5, <1>8, <2>1
    <3>2. NextPart(st, entries[i], max)
            = [st EXCEPT !.parts = Append(@, EntryLength(entries[i], Room(max, st.parts)))]
      BY <3>1 DEF NextPart
    <3> QED BY <1>1, <1>5, <1>8, <2>3, <2>4, <3>2
  <2>7. [parts |-> next, open |-> TRUE] \in ContextStates
    BY <2>5 DEF ContextStates
  <2>8. total + part + 2 * More(0, i - 1) <= max
    <3>1. More(0, i - 1) = n
      BY <2>1 DEF More
    <3>2. room = max - total - 2 * n /\ part <= room
      BY <1>6, <2>3
    <3>3. total + part + 2 * n <= max
      BY <2>1, <3>2
    <3> QED BY <3>1, <3>3
  <2>9. ASSUME NEW k \in 1..i
        PROVE  next[k] > entries[k].header \/ entries[k].text = 0
    <3>1. CASE k = i
      BY <1>3, <2>3, <2>5, <3>1
    <3>2. CASE k # i
      <4>1. k \in 1..n
        BY <2>1, <3>2
      <4> QED BY <1>4, <2>5, <4>1
    <3> QED BY <3>1, <3>2
  <2>10. PICK out : out = [parts |-> next, open |-> TRUE]
    OBVIOUS
  <2>11. out.parts = next /\ out.open /\ out \in ContextStates
    BY <2>7, <2>10
  <2>12. Total(out.parts) + Separator * More(0, Len(out.parts) - 1) <= max
    BY <2>5, <2>8, <2>11 DEF Separator
  <2>13. FitsUntil(out, entries, max, i)
    <3>1. Len(out.parts) = i /\ Len(out.parts) <= i /\ Len(out.parts) > 0
      BY <2>5, <2>11
    <3>2. \A k \in 1..Len(out.parts) : out.parts[k] > entries[k].header \/ entries[k].text = 0
      BY <2>9, <2>11, <3>1
    <3> QED BY <2>11, <2>12, <3>1, <3>2 DEF FitsUntil
  <2> QED BY <2>6, <2>10, <2>13
<1>9. open \in BOOLEAN /\ (room <= header \/ room > header)
  BY <1>2, <1>3, <1>6
<1> QED BY <1>7, <1>8, <1>9

\* The context, entry by entry.
Contexts(entries, max, g) ==
    g = [i \in 0..Len(entries) |->
            IF i = 0 THEN [parts |-> <<>>, open |-> TRUE]
            ELSE LET before == g[i - 1]
                     room == Room(max, before.parts)
                 IN  IF ~before.open \/ room <= entries[i].header
                     THEN [before EXCEPT !.open = FALSE]
                     ELSE [before EXCEPT !.parts = Append(@, EntryLength(entries[i], room))]]

\* An entry leaves a list of parts.
LEMMA NextPartType ==
  ASSUME NEW entry \in ContextEntries, NEW max \in Nat, NEW st \in ContextStates
  PROVE  NextPart(st, entry, max) \in ContextStates
<1>1. PICK parts \in Seq(Nat), open \in BOOLEAN : st = [parts |-> parts, open |-> open]
  BY DEF ContextStates
<1>2. PICK room : room = Room(max, parts)
  OBVIOUS
<1>3. room \in Int
  <2>1. Total(parts) \in Nat /\ Len(parts) \in Nat
    BY TotalGrows
  <2> QED BY <1>2, <2>1 DEF Room, Separator
<1>4. CASE ~open \/ room <= entry.header
  <2>1. NextPart(st, entry, max) = [parts |-> parts, open |-> FALSE]
    BY <1>1, <1>2, <1>4 DEF NextPart
  <2> QED BY <2>1 DEF ContextStates
<1>5. CASE ~(~open \/ room <= entry.header)
  <2>1. entry.header \in Nat
    BY DEF ContextEntries
  <2>2. room \in Nat /\ room > entry.header
    BY <1>3, <1>5, <2>1
  <2>3. PICK part \in Nat : part = EntryLength(entry, room)
    BY <2>2, EntryFacts
  <2>4. PICK next \in Seq(Nat) : next = Append(parts, part)
    BY TotalGrows
  <2>5. NextPart(st, entry, max) = [parts |-> next, open |-> open]
    BY <1>1, <1>2, <1>5, <2>3, <2>4 DEF NextPart
  <2> QED BY <2>5 DEF ContextStates
<1> QED BY <1>4, <1>5

\* The context in the end.
LEMMA ContextFinds ==
  ASSUME NEW entries \in Seq(ContextEntries), NEW max \in Nat
  PROVE  \E st : FitsUntil(st, entries, max, Len(entries)) /\ Parts(entries, max) = st.parts
<1> DEFINE n == Len(entries)
           X == ContextStates
           none == [parts |-> <<>>, open |-> TRUE]
           step == [p \in (1..n) \X X |-> NextPart(p[2], entries[p[1]], max)]
<1>0. n \in Nat /\ \A i \in 1..n : entries[i] \in ContextEntries
  OBVIOUS
<1>1. step \in Steps(n, X)
  <2>1. ASSUME NEW p \in (1..n) \X X
        PROVE  NextPart(p[2], entries[p[1]], max) \in X
    <3>1. p[2] \in X /\ p[1] \in 1..n
      BY <2>1
    <3>2. entries[p[1]] \in ContextEntries
      BY <1>0, <3>1
    <3> QED BY <3>1, <3>2, NextPartType
  <2> QED BY <2>1 DEF Steps
<1>2. \A i \in 1..n, x \in X : step[<<i, x>>] = NextPart(x, entries[i], max)
  OBVIOUS
<1>3. FitsUntil(none, entries, max, 0)
  <2>1. PICK parts \in Seq(Nat) : parts = <<>>
    <3>1. <<>> \in Seq(Nat)
      OBVIOUS
    <3> QED BY <3>1
  <2>2. Total(parts) = 0 /\ Len(parts) = 0
    BY <2>1, TotalGrows
  <2>3. Total(parts) + Separator * More(0, Len(parts) - 1) <= max
    BY <2>2 DEF Separator, More
  <2>4. none = [parts |-> parts, open |-> TRUE] /\ none \in ContextStates
    BY <2>1 DEF ContextStates
  <2> HIDE DEF none
  <2> QED BY <2>2, <2>3, <2>4 DEF FitsUntil
<1>4. none \in X
  BY <1>3 DEF FitsUntil
<1> HIDE DEF step, n, X, none
<1>5. PICK s : Unfolds(s, n, X, none, step)
  BY <1>0, <1>1, <1>4, StepByStep
<1>6. s \in [0..n -> X] /\ s[0] = none /\ \A i \in 1..n : s[i] = step[<<i, s[i - 1]>>]
  BY <1>5 DEF Unfolds
<1>7. Contexts(entries, max, s)
  <2>1. s = [i \in 0..n |-> s[i]]
    BY <1>6
  <2>2. \A i \in 0..n : s[i] = IF i = 0 THEN none ELSE NextPart(s[i - 1], entries[i], max)
    <3> TAKE i \in 0..n
    <3>1. i # 0 => i \in 1..n /\ s[i - 1] \in X
      BY <1>0, <1>6
    <3> QED BY <1>2, <1>6, <3>1
  <2>3. s = [i \in 0..n |-> IF i = 0 THEN none ELSE NextPart(s[i - 1], entries[i], max)]
    BY <2>1, <2>2
  <2> QED BY <2>3 DEF Contexts, NextPart, n, none
<1>8. PICK g : g = CHOOSE h : Contexts(entries, max, h)
  OBVIOUS
<1>9. Contexts(entries, max, g)
  BY <1>7, <1>8
<1>10. Parts(entries, max) = g[n].parts
  BY <1>8 DEF Parts, Contexts, n
<1>11. \A i \in 0..n : g[i] = IF i = 0 THEN none ELSE NextPart(g[i - 1], entries[i], max)
  BY <1>9 DEF Contexts, NextPart, n, none
<1> DEFINE holds == [i \in 0..n |-> FitsUntil(g[i], entries, max, i)]
<1>12. holds \in [0..n -> BOOLEAN]
  BY DEF FitsUntil
<1>13. holds[0]
  <2>1. 0 \in 0..n /\ g[0] = none
    BY <1>0, <1>11
  <2> QED BY <1>3, <2>1
<1>14. ASSUME NEW i \in 1..n, holds[i - 1]
       PROVE  holds[i]
  <2>1. i - 1 \in 0..n /\ i \in 0..n /\ i # 0 /\ i \in 1..Len(entries)
    BY <1>0 DEF n
  <2>2. FitsUntil(g[i - 1], entries, max, i - 1)
    BY <1>14, <2>1
  <2>3. g[i] = NextPart(g[i - 1], entries[i], max)
    BY <1>11, <2>1
  <2>4. FitsUntil(g[i], entries, max, i)
    BY <2>1, <2>2, <2>3, NextPartFacts
  <2> QED BY <2>1, <2>4
<1> HIDE DEF holds
<1>15. n \in 0..n /\ holds[n]
  <2>1. \A i \in 0..n : holds[i]
    BY <1>0, <1>12, <1>13, <1>14, HoldsAll
  <2>2. n \in 0..n
    BY <1>0
  <2> QED BY <2>1, <2>2
<1>16. FitsUntil(g[n], entries, max, n)
  BY <1>15 DEF holds
<1> QED BY <1>10, <1>16 DEF n

\* A context fits its budget, with whole headers.
LEMMA ContextsFit == AnswersIInv => ContextFits
<1> SUFFICES ASSUME AnswersIInv, asked.kind = "context"
             PROVE  ContextFits
  BY DEF ContextFits
<1> USE AnswerConstants
<1>1. asked \in [kind : {"context"}, entries : Rows([header : 1..2, text : 0..(LongSnippet + 2)]),
                 max : 0..MaxChars]
  BY DEF AnswersIInv, Requests
<1>2. PICK entries \in Rows(ContextEntries), max \in Nat : entries = asked.entries /\ max = asked.max
  BY <1>1 DEF ContextEntries
<1>3. entries \in Seq(ContextEntries) /\ Len(entries) \in Nat
  BY RowsAreSequences
<1>4. PICK st : FitsUntil(st, entries, max, Len(entries)) /\ Parts(entries, max) = st.parts
  BY <1>3, ContextFinds
<1>5. PICK parts \in Seq(Nat) : parts = st.parts
  BY <1>4 DEF FitsUntil, ContextStates
<1>6. DOMAIN parts = 1..Len(parts)
  OBVIOUS
<1>7. Total(parts) + Separator * More(0, Len(parts) - 1) <= max
  BY <1>4, <1>5 DEF FitsUntil
<1>8. \A i \in DOMAIN parts : parts[i] > entries[i].header \/ entries[i].text = 0
  BY <1>4, <1>5, <1>6 DEF FitsUntil
<1>9. ASSUME entries # <<>>, max > entries[1].header
      PROVE  parts # <<>>
  <2>1. Len(entries) > 0
    BY <1>3, <1>9
  <2>2. Len(parts) > 0
    BY <1>4, <1>5, <1>9, <2>1 DEF FitsUntil
  <2> QED BY <2>2
<1>10. Parts(asked.entries, asked.max) = parts
  BY <1>2, <1>4, <1>5
<1> QED BY <1>2, <1>7, <1>8, <1>9, <1>10 DEF ContextFits

-----------------------------------------------------------------------------
(* Answers: labels, confidence, names *)

\* Labels are the places of their parts.
LEMMA LabelsAreResolved == AnswersIInv => LabelsResolve
<1> SUFFICES ASSUME AnswersIInv, asked.kind = "pack"
             PROVE  LabelsResolve
  BY DEF LabelsResolve
<1>1. asked \in [kind : {"pack"}, rows : Rows([of : 1..2, said : BOOLEAN]), token : SUBSET (1..2)]
  BY DEF AnswersIInv, Requests
<1>2. PICK rows \in Rows([of : 1..2, said : BOOLEAN]) : rows = asked.rows
  BY <1>1
<1>3. PICK read : read = RowsRead(rows, asked.token)
  OBVIOUS
<1>4. read = rows \/ read = <<>>
  BY <1>3 DEF RowsRead
<1>5. \A i \in DOMAIN read : read[i] = rows[i]
  BY <1>4
<1>6. Quoted(read) # {} => CitationsUsed(read) = Quoted(read)
  BY DEF CitationsUsed
<1>7. ASSUME read # <<>>
      PROVE  CitationsUsed(read) # {}
  <2>1. CASE Quoted(read) # {}
    BY <1>6, <2>1
  <2>2. CASE Quoted(read) = {}
    <3>1. PICK n \in Nat : n = Len(read)
      BY <1>2, <1>4, RowsAreSequences
    <3>2. n # 0
      <4>1. rows \in Seq([of : 1..2, said : BOOLEAN])
        BY <1>2, RowsAreSequences
      <4> QED BY <1>4, <1>7, <3>1, <4>1
    <3>3. AnswerSnippets \in Nat \ {0}
      BY AnswerConstants
    <3>4. 1 \in 1..Fewer(n, AnswerSnippets)
      BY <3>2, <3>3 DEF Fewer
    <3> QED BY <2>2, <3>1, <3>4 DEF CitationsUsed
  <2> QED BY <2>1, <2>2
<1>8. RowsRead(asked.rows, asked.token) = read /\ asked.rows = rows
  BY <1>2, <1>3
<1> QED BY <1>5, <1>6, <1>7, <1>8 DEF LabelsResolve

\* Nothing that lowers the confidence goes without a caveat.
LEMMA ConfidencesAreEarned == AnswersIInv => ConfidenceIsEarned
<1> SUFFICES ASSUME AnswersIInv, asked.kind = "answer"
             PROVE  ConfidenceIsEarned
  BY DEF ConfidenceIsEarned
<1>1. asked \in [kind : {"answer"}, ids : SUBSET (1..2), known : SUBSET (1..2), cited : SUBSET (1..2),
                 partial : SUBSET (1..2), families : SUBSET [asked : BOOLEAN, found : BOOLEAN],
                 negated : BOOLEAN]
  BY DEF AnswersIInv, Requests
<1>2. PICK ids \in SUBSET (1..2), known \in SUBSET (1..2), cited \in SUBSET (1..2), partial \in SUBSET (1..2) :
        ids = asked.ids /\ known = asked.known /\ cited = asked.cited /\ partial = asked.partial
  BY <1>1
<1>3. PICK caveats : caveats = Caveats(ids, known, cited, partial)
  OBVIOUS
<1> SUFFICES ASSUME Confidence(asked.families, asked.negated, cited, caveats) = "medium"
             PROVE  /\ cited # {}
                    /\ Cardinality(ids) > 1 => ids \cap known \subseteq cited
                    /\ ids \cap known \cap partial = {}
  BY <1>2, <1>3 DEF ConfidenceIsEarned
<1>4. cited # {} /\ ~(caveats > 0)
  BY DEF Confidence
<1>5. PICK missing \in SUBSET (1..2) : missing = Missing(ids, known, cited)
  BY DEF Missing
<1>6. PICK lacking \in SUBSET (1..2) : lacking = partial \cap (IF ids = {} THEN known ELSE ids \cap known)
  OBVIOUS
<1>7. \A S \in SUBSET (1..2) : Cardinality(S) \in Nat /\ (Cardinality(S) = 0 => S = {})
  <2> TAKE S \in SUBSET (1..2)
  <2>1. IsFiniteSet(1..2)
    <3>1. 1 \in Int /\ 2 \in Int
      OBVIOUS
    <3> QED BY <3>1, FS_Interval
  <2>2. IsFiniteSet(S)
    BY <2>1, FS_Subset
  <2> QED BY <2>2, FS_CardinalityType, FS_EmptySet
<1>8. PICK m \in Nat, l \in Nat : m = Cardinality(missing) /\ l = Cardinality(lacking)
  BY <1>7
<1>9. caveats = Fewer(MaxCaveats, m + l)
  BY <1>3, <1>5, <1>6, <1>8 DEF Caveats
<1>10. m = 0 /\ l = 0
  <2>1. MaxCaveats \in Nat \ {0}
    BY AnswerConstants
  <2> QED BY <1>4, <1>9, <2>1 DEF Fewer
<1>11. missing = {} /\ lacking = {}
  BY <1>7, <1>8, <1>10
<1>12. Cardinality(ids) > 1 => ids \cap known \subseteq cited
  BY <1>5, <1>11 DEF Missing
<1>13. ids \cap known \cap partial = {}
  BY <1>6, <1>11
<1> QED BY <1>4, <1>12, <1>13

\* A set with one member is known by it.
LEMMA OneMember ==
  ASSUME NEW S, IsFiniteSet(S)
  PROVE  Cardinality(S) = 1 <=> \E x \in S : \A y \in S : y = x
<1>1. ASSUME Cardinality(S) = 1
      PROVE  \E x \in S : \A y \in S : y = x
  <2>1. PICK x : S = {x}
    BY <1>1, FS_Singleton
  <2> QED BY <2>1
<1>2. ASSUME NEW x \in S, \A y \in S : y = x
      PROVE  Cardinality(S) = 1
  <2>1. S = {x}
    BY <1>2
  <2> QED BY <2>1, FS_Singleton
<1> QED BY <1>1, <1>2

\* A name is resolved to the only resource it can mean.
LEMMA NamesAreClear == AnswersIInv => NamesAreUnique
<1> SUFFICES ASSUME AnswersIInv, asked.kind = "name"
             PROVE  NamesAreUnique
  BY DEF NamesAreUnique
<1> USE AnswerConstants
<1>1. asked \in [kind : {"name"}, rows : {q \in Rows([of : SomeResources]) : IsInjective(q)},
                 token : SUBSET SomeResources]
  BY DEF AnswersIInv, Requests
<1>2. PICK rows \in Rows([of : SomeResources]), token \in SUBSET SomeResources :
        rows = asked.rows /\ token = asked.token /\ IsInjective(rows)
  BY <1>1
<1>3. PICK n \in Nat : n = Len(rows) /\ DOMAIN rows = 1..n /\ \A i \in 1..n : rows[i] \in [of : SomeResources]
  <2>1. rows \in Seq([of : SomeResources]) /\ Len(rows) \in Nat /\ DOMAIN rows = 1..Len(rows)
    BY RowsAreSequences
  <2>2. \A i \in 1..Len(rows) : rows[i] \in [of : SomeResources]
    <3>1. PICK S : S = [of : SomeResources]
      OBVIOUS
    <3>2. rows \in Seq(S)
      BY <2>1, <3>1
    <3>3. \A i \in 1..Len(rows) : rows[i] \in S
      BY <3>2
    <3> QED BY <3>1, <3>3
  <2> QED BY <2>1, <2>2
<1>4. ASSUME NEW i \in 1..n, NEW j \in 1..n, rows[i].of = rows[j].of
      PROVE  i = j
  <2>1. rows[i] = [of |-> rows[i].of] /\ rows[j] = [of |-> rows[j].of]
    BY <1>3
  <2>2. rows[i] = rows[j]
    BY <1>4, <2>1
  <2> QED BY <1>2, <1>3, <2>2 DEF IsInjective
<1>5. PICK matching : matching = {i \in 1..Fewer(n, RefLimit) : rows[i].of \in token}
  OBVIOUS
<1>6. PICK most \in 0..n : most = Fewer(n, RefLimit) /\ (n <= RefLimit => most = n)
  BY DEF Fewer
<1>7. matching \in SUBSET (1..n) /\ IsFiniteSet(matching)
  <2>1. IsFiniteSet(1..n)
    BY FS_Interval
  <2>2. matching \in SUBSET (1..n)
    BY <1>5, <1>6
  <2> QED BY <2>1, <2>2, FS_Subset
<1>8. PICK resolved : resolved = Resolved(rows, token)
  OBVIOUS
<1>9. resolved = IF Cardinality(matching) = 1 THEN {rows[i].of : i \in matching} ELSE {}
  BY <1>3, <1>5, <1>8 DEF Resolved
<1>10. PICK readable : readable = {rows[i].of : i \in DOMAIN rows} \cap token
  OBVIOUS
<1>11. IsFiniteSet(readable)
  <2>1. IsFiniteSet(1..MaxEntries)
    BY FS_Interval
  <2>2. readable \subseteq 1..MaxEntries
    BY <1>10 DEF SomeResources
  <2> QED BY <2>1, <2>2, FS_Subset
<1>12. resolved \subseteq readable
  BY <1>3, <1>5, <1>7, <1>9, <1>10
<1>13. Cardinality(resolved) <= 1
  <2>1. CASE Cardinality(matching) = 1
    <3>1. PICK k \in matching : \A i \in matching : i = k
      BY <1>7, <2>1, OneMember
    <3>2. resolved = {rows[k].of}
      BY <1>9, <2>1, <3>1
    <3>3. Cardinality(resolved) = 1
      BY <3>2, FS_Singleton
    <3> QED BY <3>3
  <2>2. CASE Cardinality(matching) # 1
    <3>1. resolved = {} /\ Cardinality({}) = 0
      BY <1>9, <2>2, FS_EmptySet
    <3> QED BY <3>1
  <2> QED BY <2>1, <2>2
<1>14. ASSUME n <= RefLimit
       PROVE  resolved # {} <=> Cardinality(readable) = 1
  <2>1. matching = {i \in 1..n : rows[i].of \in token}
    BY <1>5, <1>6, <1>14
  <2>2. \A i \in matching : rows[i].of \in readable
    BY <1>3, <1>10, <2>1
  <2>3. \A r \in readable : \E i \in matching : rows[i].of = r
    BY <1>3, <1>10, <2>1
  <2>4. ASSUME resolved # {}
        PROVE  Cardinality(readable) = 1
    <3>1. Cardinality(matching) = 1
      BY <1>9, <2>4
    <3>2. PICK k \in matching : \A i \in matching : i = k
      BY <1>7, <3>1, OneMember
    <3>3. rows[k].of \in readable /\ \A r \in readable : r = rows[k].of
      BY <2>2, <2>3, <3>2
    <3> QED BY <1>11, <3>3, OneMember
  <2>5. ASSUME Cardinality(readable) = 1
        PROVE  resolved # {}
    <3>1. PICK r \in readable : \A q \in readable : q = r
      BY <1>11, <2>5, OneMember
    <3>2. PICK k \in matching : rows[k].of = r
      BY <2>3
    <3>3. \A i \in matching : i = k
      <4> TAKE i \in matching
      <4>1. rows[i].of = rows[k].of
        BY <2>2, <3>1, <3>2
      <4> QED BY <1>4, <1>7, <4>1
    <3>4. Cardinality(matching) = 1
      BY <1>7, <3>3, OneMember
    <3> QED BY <1>9, <3>2, <3>4
  <2> QED BY <2>4, <2>5
<1>15. asked.rows = rows /\ asked.token = token /\ Resolved(asked.rows, asked.token) = resolved /\ Len(asked.rows) = n
  BY <1>2, <1>3, <1>8
<1>16. {asked.rows[i].of : i \in DOMAIN asked.rows} \cap asked.token = readable
  BY <1>2, <1>10
<1> QED BY <1>12, <1>13, <1>14, <1>15, <1>16 DEF NamesAreUnique

-----------------------------------------------------------------------------
(* Answers: pages *)

ListedRows == [fits : BOOLEAN]
ListStates == [out : Seq(SUBSET Nat), cursor : Nat, more : BOOLEAN]

\* The pages after one more.
NextPage(st, rows, limit) ==
    LET page == Page(rows, st.cursor, limit)
        next == NextCursor(rows, st.cursor, limit, page)
    IN  IF ~st.more THEN st
        ELSE [out |-> Append(st.out, page), cursor |-> next, more |-> next # 0]

OnPages(pages) == UNION {pages[i] : i \in DOMAIN pages}

InOrder(pages) == \A i, j \in DOMAIN pages : i < j => \A p \in pages[i], q \in pages[j] : p < q

\* The rows that fit among the first n.
FitFirst(rows, n) == {i \in 1..n : rows[i].fits}

\* After so many pages the rows up to the cursor are on them, or all of them.
ListedUntil(st, rows, limit, hops) ==
    /\ st \in ListStates /\ InOrder(st.out)
    /\ st.more => /\ st.cursor >= hops /\ (st.cursor = 0 \/ st.cursor < Len(rows))
                  /\ OnPages(st.out) = FitFirst(rows, st.cursor)
    /\ ~st.more => OnPages(st.out) = FitFirst(rows, Len(rows))

\* What is on one page more.
LEMMA PagesGrow ==
  ASSUME NEW pages \in Seq(SUBSET Nat), NEW page \in SUBSET Nat
  PROVE  /\ Append(pages, page) \in Seq(SUBSET Nat)
         /\ OnPages(Append(pages, page)) = OnPages(pages) \cup page
         /\ InOrder(pages) /\ (\A p \in OnPages(pages), q \in page : p < q) => InOrder(Append(pages, page))
<1>1. PICK n \in Nat : n = Len(pages) /\ DOMAIN pages = 1..n
  OBVIOUS
<1>2. PICK more \in Seq(SUBSET Nat) : more = Append(pages, page)
  <2>1. Append(pages, page) \in Seq(SUBSET Nat)
    OBVIOUS
  <2> QED BY <2>1
<1>3. /\ Len(more) = n + 1 /\ DOMAIN more = 1..(n + 1) /\ more[n + 1] = page
      /\ \A i \in 1..n : more[i] = pages[i]
  BY <1>1, <1>2
<1>4. \A i \in 1..(n + 1) : i \in 1..n \/ i = n + 1
  OBVIOUS
<1>5. OnPages(more) = OnPages(pages) \cup page
  <2>1. ASSUME NEW p \in OnPages(more)
        PROVE  p \in OnPages(pages) \cup page
    <3>1. PICK i \in 1..(n + 1) : p \in more[i]
      BY <1>3 DEF OnPages
    <3>2. CASE i \in 1..n
      <4>1. p \in pages[i] /\ i \in DOMAIN pages
        BY <1>1, <1>3, <3>1, <3>2
      <4> QED BY <4>1 DEF OnPages
    <3>3. CASE i = n + 1
      BY <1>3, <3>1, <3>3
    <3> QED BY <1>4, <3>2, <3>3
  <2>2. ASSUME NEW p \in OnPages(pages)
        PROVE  p \in OnPages(more)
    <3>1. PICK i \in 1..n : p \in pages[i]
      BY <1>1 DEF OnPages
    <3>2. i \in DOMAIN more /\ p \in more[i]
      BY <1>3, <3>1
    <3> QED BY <3>2 DEF OnPages
  <2>3. ASSUME NEW p \in page
        PROVE  p \in OnPages(more)
    <3>1. n + 1 \in DOMAIN more /\ p \in more[n + 1]
      BY <1>3
    <3> QED BY <3>1 DEF OnPages
  <2> QED BY <2>1, <2>2, <2>3
<1>6. ASSUME InOrder(pages), \A p \in OnPages(pages), q \in page : p < q
      PROVE  InOrder(more)
  <2> SUFFICES ASSUME NEW i \in 1..(n + 1), NEW j \in 1..(n + 1), i < j, NEW p \in more[i], NEW q \in more[j]
               PROVE  p < q
    BY <1>3 DEF InOrder
  <2>1. i \in 1..n
    OBVIOUS
  <2>2. p \in pages[i] /\ i \in DOMAIN pages
    BY <1>1, <1>3, <2>1
  <2>3. CASE j \in 1..n
    <3>1. q \in pages[j] /\ j \in DOMAIN pages
      BY <1>1, <1>3, <2>3
    <3> QED BY <1>6, <2>2, <3>1 DEF InOrder
  <2>4. CASE j = n + 1
    <3>1. q \in page /\ p \in OnPages(pages)
      BY <1>3, <2>2, <2>4 DEF OnPages
    <3> QED BY <1>6, <3>1
  <2> QED BY <1>4, <2>3, <2>4
<1> QED BY <1>2, <1>5, <1>6

\* A page leaves pages.
LEMMA NextPageType ==
  ASSUME NEW rows \in Seq(ListedRows), NEW limit \in Nat \ {0}, NEW st \in ListStates
  PROVE  NextPage(st, rows, limit) \in ListStates
<1>1. PICK out \in Seq(SUBSET Nat), cursor \in Nat, more \in BOOLEAN :
        st = [out |-> out, cursor |-> cursor, more |-> more]
  BY DEF ListStates
<1>2. Len(rows) \in Nat
  OBVIOUS
<1>3. PICK page : page = Page(rows, cursor, limit)
  OBVIOUS
<1>4. page \in SUBSET Nat
  BY <1>2, <1>3 DEF Page, Fewer
<1>5. PICK next \in Nat : next = NextCursor(rows, cursor, limit, page)
  BY <1>2 DEF NextCursor
<1>6. PICK again \in BOOLEAN : again = (next # 0)
  OBVIOUS
<1>7. PICK pages \in Seq(SUBSET Nat) : pages = Append(out, page)
  BY <1>4, PagesGrow
<1>8. NextPage(st, rows, limit) = IF ~more THEN st ELSE [out |-> pages, cursor |-> next, more |-> again]
  BY <1>1, <1>3, <1>5, <1>6, <1>7 DEF NextPage
<1>9. [out |-> pages, cursor |-> next, more |-> again] \in ListStates
  BY DEF ListStates
<1> QED BY <1>8, <1>9

\* One page more.
LEMMA NextPageFacts ==
  ASSUME NEW rows \in Seq(ListedRows), NEW limit \in Nat \ {0}, NEW hops \in Nat \ {0}, NEW st,
         ListedUntil(st, rows, limit, hops - 1)
  PROVE  ListedUntil(NextPage(st, rows, limit), rows, limit, hops)
<1>1. PICK out \in Seq(SUBSET Nat), cursor \in Nat, more \in BOOLEAN :
        st = [out |-> out, cursor |-> cursor, more |-> more]
  BY DEF ListedUntil, ListStates
<1>2. PICK n \in Nat : n = Len(rows)
  OBVIOUS
<1>3. CASE ~more
  <2>1. NextPage(st, rows, limit) = st
    BY <1>1, <1>3 DEF NextPage
  <2> QED BY <1>1, <1>3, <2>1 DEF ListedUntil
<1>4. CASE more
  <2>1. /\ InOrder(out) /\ cursor >= hops - 1 /\ (cursor = 0 \/ cursor < n)
        /\ OnPages(out) = FitFirst(rows, cursor)
    BY <1>1, <1>2, <1>4 DEF ListedUntil
  <2>2. PICK end \in Nat : end = IF n < cursor + limit THEN n ELSE cursor + limit
    OBVIOUS
  <2>3. cursor <= end /\ end <= n
    BY <2>1, <2>2
  <2>4. PICK page : page = Page(rows, cursor, limit)
    OBVIOUS
  <2>5. page = {i \in (cursor + 1)..end : rows[i].fits}
    BY <1>2, <2>2, <2>4 DEF Page, Fewer
  <2>6. page \in SUBSET Nat /\ \A p \in OnPages(out), q \in page : p < q
    <3>1. \A q \in page : q \in (cursor + 1)..end
      BY <2>5
    <3>2. \A p \in OnPages(out) : p \in 1..cursor
      BY <2>1 DEF FitFirst
    <3> QED BY <3>1, <3>2
  <2>7. PICK pages : pages = Append(out, page)
    OBVIOUS
  <2>8. pages \in Seq(SUBSET Nat) /\ InOrder(pages) /\ OnPages(pages) = OnPages(out) \cup page
    BY <2>1, <2>6, <2>7, PagesGrow
  <2>9. OnPages(pages) = FitFirst(rows, end)
    <3>1. \A i : i \in 1..end <=> i \in 1..cursor \/ i \in (cursor + 1)..end
      BY <2>3
    <3>2. \A i : i \in FitFirst(rows, end) <=> i \in FitFirst(rows, cursor) \/ i \in page
      BY <2>5, <3>1 DEF FitFirst
    <3> QED BY <2>1, <2>8, <3>2
  <2>10. PICK next \in Nat : next = IF n > cursor + limit THEN cursor + limit ELSE 0
    OBVIOUS
  <2>11. next = NextCursor(rows, cursor, limit, page)
    BY <1>2, <2>10 DEF NextCursor
  <2>12. PICK again \in BOOLEAN : again = (next # 0)
    OBVIOUS
  <2>13. PICK made : made = [out |-> pages, cursor |-> next, more |-> again]
    OBVIOUS
  <2>14. NextPage(st, rows, limit) = made
    BY <1>1, <1>4, <2>4, <2>7, <2>11, <2>12, <2>13 DEF NextPage
  <2>15. made \in ListStates /\ made.out = pages /\ made.cursor = next /\ made.more = again
    BY <2>8, <2>13 DEF ListStates
  <2>16. ASSUME again
         PROVE  next >= hops /\ next < n /\ OnPages(pages) = FitFirst(rows, next)
    <3>1. next = cursor + limit /\ n > cursor + limit
      BY <2>10, <2>12, <2>16
    <3>2. end = next
      BY <2>2, <3>1
    <3> QED BY <2>1, <2>9, <3>1, <3>2
  <2>17. ASSUME ~again
         PROVE  OnPages(pages) = FitFirst(rows, n)
    <3>1. ~(n > cursor + limit)
      <4> SUFFICES ASSUME n > cursor + limit
                   PROVE  FALSE
        OBVIOUS
      <4>1. next = cursor + limit
        BY <2>10
      <4>2. next # 0
        BY <4>1
      <4> QED BY <2>12, <2>17, <4>2
    <3>2. end = n
      BY <2>2, <3>1
    <3> QED BY <2>9, <3>2
  <2>18. ListedUntil(made, rows, limit, hops)
    BY <1>2, <2>8, <2>15, <2>16, <2>17 DEF ListedUntil
  <2> QED BY <2>14, <2>18
<1> QED BY <1>3, <1>4

\* A listing, page by page.
Listings(rows, limit, g) ==
    g = [hops \in 0..Len(rows) |->
            IF hops = 0 THEN [out |-> <<>>, cursor |-> 0, more |-> TRUE]
            ELSE LET before == g[hops - 1]
                     page == Page(rows, before.cursor, limit)
                     next == NextCursor(rows, before.cursor, limit, page)
                 IN  IF ~before.more THEN before
                     ELSE [out |-> Append(before.out, page), cursor |-> next, more |-> next # 0]]

\* The listing in the end.
LEMMA ListFinds ==
  ASSUME NEW rows \in Seq(ListedRows), NEW limit \in Nat \ {0}
  PROVE  \E st : ListedUntil(st, rows, limit, Len(rows)) /\ Listed(rows, limit) = st.out
<1> DEFINE n == Len(rows)
           X == ListStates
           none == [out |-> <<>>, cursor |-> 0, more |-> TRUE]
           step == [p \in (1..n) \X X |-> NextPage(p[2], rows, limit)]
<1>0. n \in Nat
  OBVIOUS
<1>1. step \in Steps(n, X)
  <2>1. ASSUME NEW p \in (1..n) \X X
        PROVE  NextPage(p[2], rows, limit) \in X
    <3>1. p[2] \in X
      BY <2>1
    <3> QED BY <3>1, NextPageType
  <2> QED BY <2>1 DEF Steps
<1>2. \A i \in 1..n, x \in X : step[<<i, x>>] = NextPage(x, rows, limit)
  OBVIOUS
<1>3. ListedUntil(none, rows, limit, 0)
  <2>1. PICK pages \in Seq(SUBSET Nat) : pages = <<>>
    <3>1. <<>> \in Seq(SUBSET Nat)
      OBVIOUS
    <3> QED BY <3>1
  <2>2. DOMAIN pages = {}
    BY <2>1
  <2>3. InOrder(pages) /\ OnPages(pages) = {}
    BY <2>2 DEF InOrder, OnPages
  <2>4. FitFirst(rows, 0) = {}
    BY DEF FitFirst
  <2>5. none = [out |-> pages, cursor |-> 0, more |-> TRUE] /\ none \in ListStates
    BY <2>1 DEF ListStates
  <2> HIDE DEF none
  <2>6. none.out = pages /\ none.cursor = 0 /\ none.more
    BY <2>5
  <2>7. OnPages(none.out) = FitFirst(rows, none.cursor) /\ InOrder(none.out)
    BY <2>3, <2>4, <2>6
  <2>8. none.cursor >= 0
    BY <2>6
  <2> QED BY <2>5, <2>6, <2>7, <2>8 DEF ListedUntil
<1>4. none \in X
  BY <1>3 DEF ListedUntil
<1> HIDE DEF step, n, X, none
<1>5. PICK s : Unfolds(s, n, X, none, step)
  BY <1>0, <1>1, <1>4, StepByStep
<1>6. s \in [0..n -> X] /\ s[0] = none /\ \A i \in 1..n : s[i] = step[<<i, s[i - 1]>>]
  BY <1>5 DEF Unfolds
<1>7. Listings(rows, limit, s)
  <2>1. s = [i \in 0..n |-> s[i]]
    BY <1>6
  <2>2. \A i \in 0..n : s[i] = IF i = 0 THEN none ELSE NextPage(s[i - 1], rows, limit)
    <3> TAKE i \in 0..n
    <3>1. i # 0 => i \in 1..n /\ s[i - 1] \in X
      BY <1>0, <1>6
    <3> QED BY <1>2, <1>6, <3>1
  <2>3. s = [i \in 0..n |-> IF i = 0 THEN none ELSE NextPage(s[i - 1], rows, limit)]
    BY <2>1, <2>2
  <2> QED BY <2>3 DEF Listings, NextPage, n, none
<1>8. PICK g : g = CHOOSE h : Listings(rows, limit, h)
  OBVIOUS
<1>9. Listings(rows, limit, g)
  BY <1>7, <1>8
<1>10. Listed(rows, limit) = g[n].out
  BY <1>8 DEF Listed, Listings, n
<1>11. \A i \in 0..n : g[i] = IF i = 0 THEN none ELSE NextPage(g[i - 1], rows, limit)
  BY <1>9 DEF Listings, NextPage, n, none
<1> DEFINE holds == [i \in 0..n |-> ListedUntil(g[i], rows, limit, i)]
<1>12. holds \in [0..n -> BOOLEAN]
  BY DEF ListedUntil
<1>13. holds[0]
  <2>1. 0 \in 0..n /\ g[0] = none
    BY <1>0, <1>11
  <2> QED BY <1>3, <2>1
<1>14. ASSUME NEW i \in 1..n, holds[i - 1]
       PROVE  holds[i]
  <2>1. i - 1 \in 0..n /\ i \in 0..n /\ i # 0 /\ i \in Nat \ {0}
    BY <1>0
  <2>2. ListedUntil(g[i - 1], rows, limit, i - 1)
    BY <1>14, <2>1
  <2>3. g[i] = NextPage(g[i - 1], rows, limit)
    BY <1>11, <2>1
  <2>4. ListedUntil(g[i], rows, limit, i)
    BY <2>1, <2>2, <2>3, NextPageFacts
  <2> QED BY <2>1, <2>4
<1> HIDE DEF holds
<1>15. n \in 0..n /\ holds[n]
  <2>1. \A i \in 0..n : holds[i]
    BY <1>0, <1>12, <1>13, <1>14, HoldsAll
  <2>2. n \in 0..n
    BY <1>0
  <2> QED BY <2>1, <2>2
<1>16. ListedUntil(g[n], rows, limit, n)
  BY <1>15 DEF holds
<1> QED BY <1>10, <1>16 DEF n

\* A client that follows the cursors lists every row that fits.
LEMMA ListsAreWhole == AnswersIInv => PagesListAll
<1> SUFFICES ASSUME AnswersIInv, asked.kind = "page"
             PROVE  PagesListAll
  BY DEF PagesListAll
<1> USE AnswerConstants
<1>1. asked \in [kind : {"page"}, rows : Rows([fits : BOOLEAN]), limit : 1..MaxEntries]
  BY DEF AnswersIInv, Requests
<1>2. PICK rows \in Rows(ListedRows), limit \in Nat \ {0} : rows = asked.rows /\ limit = asked.limit
  BY <1>1 DEF ListedRows
<1>3. rows \in Seq(ListedRows) /\ Len(rows) \in Nat /\ DOMAIN rows = 1..Len(rows)
  BY RowsAreSequences
<1>4. PICK st : ListedUntil(st, rows, limit, Len(rows)) /\ Listed(rows, limit) = st.out
  BY <1>3, ListFinds
<1>5. OnPages(st.out) = FitFirst(rows, Len(rows))
  <2>1. CASE st.more
    <3>1. st.cursor = Len(rows)
      BY <1>3, <1>4, <2>1 DEF ListedUntil, ListStates
    <3> QED BY <1>4, <2>1, <3>1 DEF ListedUntil
  <2>2. CASE ~st.more
    BY <1>4, <2>2 DEF ListedUntil
  <2> QED BY <2>1, <2>2
<1>6. InOrder(st.out)
  BY <1>4 DEF ListedUntil
<1>7. FitFirst(rows, Len(rows)) = {i \in DOMAIN rows : rows[i].fits}
  BY <1>3 DEF FitFirst
<1>8. asked.rows = rows /\ Listed(asked.rows, asked.limit) = st.out
  BY <1>2, <1>4
<1> QED BY <1>5, <1>6, <1>7, <1>8 DEF PagesListAll, OnPages, InOrder

\* Answers say what they are drawn from and lists and names hold no surprise, for any budgets,
\* rows, tokens and numbers of snippets, caveats and rows looked up.
THEOREM AnswersGrounded == AnswersSpec => []AnswersAreGrounded
<1>1. AnswersIInv => AnswersAreGrounded
  BY ContextsFit, LabelsAreResolved, ConfidencesAreEarned, ListsAreWhole, NamesAreClear DEF AnswersAreGrounded
<1> QED BY <1>1, AnswersInvariance, PTL

=============================================================================
