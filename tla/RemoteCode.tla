----------------------------- MODULE RemoteCode -----------------------------
(***************************************************************************)
(* Remote code calls on a Git resource: reads of the indexed files, patch  *)
(* proposals and the records of their pull requests, next to refreshes,    *)
(* the lifecycle and the purge of the resource.                            *)
(*                                                                         *)
(* Nothing is locked.  A call is two steps: it resolves the resource and   *)
(* checks; it reads or inserts by the snapshot it resolved, and answers.   *)
(* The calls of a JSON-RPC batch are such calls one after the other.       *)
(***************************************************************************)
EXTENDS Naturals, FiniteSets

CONSTANTS
    Commits,        \* commits a snapshot can be of
    NoCommit,       \* NULL: the snapshot names no commit, or the request none
    Branches,       \* branch names, of a proposal and of a request
    NoBranch,
    MaxSnapshots,   \* bounds the snapshots of the resource
    MaxProposals,   \* bounds the patch proposals ever made
    CodeCallers     \* calls that may be open at once

ASSUME RemoteConstants ==
    /\ NoCommit \notin Commits /\ NoBranch \notin Branches
    /\ MaxSnapshots \in Nat /\ MaxProposals \in Nat

VARIABLES
    source,       \* the resource: its current snapshot and lifecycle
    commitOf,     \* source_snapshots rows: the commit of each, none if not there
    proposals,    \* patch_proposals rows
    requests,     \* pr_requests rows
    codeCalls,    \* the open calls
    answers       \* what the last call of each caller answered

codeVars == <<source, commitOf, proposals, requests, codeCalls, answers>>

-----------------------------------------------------------------------------
(* Types *)

SnapshotIds == 1..MaxSnapshots
ProposalNumbers == 1..MaxProposals
MaybeCommit == Commits \cup {NoCommit}

Source == [current : 0..MaxSnapshots, live : {"yes", "archived", "purged"}]

Proposal == [status : {"none", "draft", "pr_opened"}, snapshot : 0..MaxSnapshots,
             indexed : MaybeCommit, base : MaybeCommit,
             branch : Branches \cup {NoBranch}, moved : BOOLEAN]

\* basis is the commit the call found current when it approved the proposal.
PrRequest == [proposal : ProposalNumbers, basis : MaybeCommit, branch : Branches]

\* What a call answers with: lines of the file of a snapshot, and the identifier
\* and the commit of the snapshot they are said to come from.
Answer == [lines : 0..MaxSnapshots, snapshot : 0..MaxSnapshots, commit : MaybeCommit]

CodeCall == [op : {"idle", "read", "scan", "patch", "open"}, snapshot : 0..MaxSnapshots,
             base : MaybeCommit, branch : Branches \cup {NoBranch},
             proposal : 0..MaxProposals]

CodeTypeOK ==
    /\ source \in Source
    /\ commitOf \in [SnapshotIds -> MaybeCommit \cup {"none"}]
    /\ proposals \in [ProposalNumbers -> Proposal]
    /\ requests \subseteq PrRequest
    /\ codeCalls \in [CodeCallers -> CodeCall]
    /\ answers \in [CodeCallers -> Answer]

NoProposal == [status |-> "none", snapshot |-> 0, indexed |-> NoCommit,
               base |-> NoCommit, branch |-> NoBranch, moved |-> FALSE]
NoCodeCall == [op |-> "idle", snapshot |-> 0, base |-> NoCommit, branch |-> NoBranch,
               proposal |-> 0]
NoAnswer == [lines |-> 0, snapshot |-> 0, commit |-> NoCommit]

CodeInit ==
    /\ source = [current |-> 0, live |-> "yes"]
    /\ commitOf = [s \in SnapshotIds |-> "none"]
    /\ proposals = [p \in ProposalNumbers |-> NoProposal]
    /\ requests = {}
    /\ codeCalls = [c \in CodeCallers |-> NoCodeCall]
    /\ answers = [c \in CodeCallers |-> NoAnswer]

-----------------------------------------------------------------------------
(* The resource *)

\* A refresh: the branch may come back to a commit that was indexed before, or a
\* snapshot may name no commit at all.
IndexSnapshot(commit) ==
    /\ source.live = "yes"
    /\ source.current < MaxSnapshots
    /\ source' = [source EXCEPT !.current = @ + 1]
    /\ commitOf' = [commitOf EXCEPT ![source.current + 1] = commit]
    /\ UNCHANGED <<proposals, requests, codeCalls, answers>>

ToggleArchive ==
    /\ source.live \in {"yes", "archived"}
    /\ source' = [source EXCEPT !.live = IF @ = "yes" THEN "archived" ELSE "yes"]
    /\ UNCHANGED <<commitOf, proposals, requests, codeCalls, answers>>

\* Requests and proposals go with the snapshots they name.
PurgeCode ==
    /\ source.live = "archived"
    /\ source' = [current |-> 0, live |-> "purged"]
    /\ commitOf' = [s \in SnapshotIds |-> "none"]
    /\ proposals' = [p \in ProposalNumbers |->
                        IF proposals[p].status = "none" THEN NoProposal
                        ELSE [NoProposal EXCEPT !.status = "draft"]]
    /\ requests' = {}
    /\ UNCHANGED <<codeCalls, answers>>

-----------------------------------------------------------------------------
(* Calls *)

Queryable == source.live = "yes" /\ source.current # 0

\* A batch goes on after a call that failed, unless the client asked for fail_fast.
Open(c, call) ==
    /\ codeCalls[c].op = "idle"
    /\ codeCalls' = [codeCalls EXCEPT ![c] = call]
    /\ answers' = [answers EXCEPT ![c] = NoAnswer]

Reply(c, answer) ==
    /\ codeCalls' = [codeCalls EXCEPT ![c] = NoCodeCall]
    /\ answers' = [answers EXCEPT ![c] = answer]

Refuse(c) == Reply(c, NoAnswer)

\* read_file resolves the resource, then selects the file of that snapshot; search
\* and grep select the identifiers of the files, then their contents.
StartRead(c) ==
    /\ Queryable
    /\ \E op \in {"read", "scan"} :
        Open(c, [NoCodeCall EXCEPT !.op = op, !.snapshot = source.current])
    /\ UNCHANGED <<source, commitOf, proposals, requests>>

\* Mutant: the file is looked up in the snapshot that is current by now.
RowsOfCurrent(call) == {s \in {source.current} \ {0} : source.live = "yes"}

\* The rows of the snapshot are gone once the resource is purged.  read_file joins
\* the resource again and refuses one that is archived by now; a scan has its rows.
RowsOf(call) ==
    {s \in {call.snapshot} : commitOf[s] # "none"
                             /\ (call.op = "read" => source.live = "yes")}

FinishRead(c) ==
    LET call == codeCalls[c]
    IN  /\ call.op \in {"read", "scan"}
        /\ IF RowsOf(call) = {} THEN Refuse(c)
           ELSE \E s \in RowsOf(call) :
                    Reply(c, [lines |-> s, snapshot |-> call.snapshot,
                              commit |-> IF commitOf[call.snapshot] = "none" THEN NoCommit
                                         ELSE commitOf[call.snapshot]])
        /\ UNCHANGED <<source, commitOf, proposals, requests>>

StartPatch(c, base, branch) ==
    /\ Queryable
    /\ Open(c, [NoCodeCall EXCEPT !.op = "patch", !.snapshot = source.current,
                                  !.base = base, !.branch = branch])
    /\ UNCHANGED <<source, commitOf, proposals, requests>>

Moved(base, indexed) == base # NoCommit /\ indexed # NoCommit /\ base # indexed

\* The INSERT of a proposal violates a foreign key once its snapshot is purged.
FinishPatch(c) ==
    LET call == codeCalls[c]
        free == {p \in ProposalNumbers : proposals[p].status = "none"}
    IN  /\ call.op = "patch"
        /\ \/ /\ commitOf[call.snapshot] = "none"
              /\ Refuse(c)
              /\ UNCHANGED proposals
           \/ /\ commitOf[call.snapshot] # "none"
              /\ \E p \in free :
                    /\ \A q \in free : p <= q
                    /\ proposals' = [proposals EXCEPT ![p] =
                         [status |-> "draft", snapshot |-> call.snapshot,
                          indexed |-> commitOf[call.snapshot], base |-> call.base,
                          branch |-> call.branch,
                          moved |-> Moved(call.base, commitOf[call.snapshot])]]
              /\ Reply(c, [lines |-> call.snapshot, snapshot |-> call.snapshot,
                           commit |-> commitOf[call.snapshot]])
        /\ UNCHANGED <<source, commitOf, requests>>

Approvable(p, branch) ==
    LET proposal == proposals[p]
    IN  /\ proposal.status = "draft" /\ proposal.snapshot # 0
        /\ proposal.indexed # NoCommit => /\ commitOf[source.current] = proposal.indexed
                                          /\ proposal.base # NoCommit
        /\ proposal.branch \in {NoBranch, branch}
        /\ ~proposal.moved

StartOpenPr(c, p, branch) ==
    /\ Queryable
    /\ Approvable(p, branch)
    /\ Open(c, [NoCodeCall EXCEPT !.op = "open", !.snapshot = source.current,
                                  !.proposal = p, !.branch = branch])
    /\ UNCHANGED <<source, commitOf, proposals, requests>>

\* One request per proposal (a unique constraint): the loser of a race is refused,
\* and so is a call whose proposal was purged.
Insertable(p) ==
    proposals[p].snapshot # 0 /\ \A r \in requests : r.proposal # p

FinishOpenPr(c) ==
    LET call == codeCalls[c]
    IN  /\ call.op = "open"
        /\ IF ~Insertable(call.proposal)
           THEN Refuse(c) /\ UNCHANGED <<proposals, requests>>
           ELSE /\ proposals' = [proposals EXCEPT ![call.proposal].status = "pr_opened"]
                /\ requests' = requests \cup
                     {[proposal |-> call.proposal, branch |-> call.branch,
                       basis |-> commitOf[call.snapshot]]}
                /\ Reply(c, [lines |-> proposals[call.proposal].snapshot,
                             snapshot |-> proposals[call.proposal].snapshot,
                             commit |-> proposals[call.proposal].indexed])
        /\ UNCHANGED <<source, commitOf>>

-----------------------------------------------------------------------------
(* Specification *)

CodeNext ==
    \/ \E commit \in MaybeCommit : IndexSnapshot(commit)
    \/ ToggleArchive \/ PurgeCode
    \/ \E c \in CodeCallers :
        \/ StartRead(c) \/ FinishRead(c) \/ FinishPatch(c) \/ FinishOpenPr(c)
        \/ \E base \in MaybeCommit, branch \in Branches \cup {NoBranch} :
                StartPatch(c, base, branch)
        \/ \E p \in ProposalNumbers, branch \in Branches : StartOpenPr(c, p, branch)

CodeSpec == CodeInit /\ [][CodeNext]_codeVars

-----------------------------------------------------------------------------
(* Properties *)

\* An answer is of one snapshot: the lines, the identifier and the commit agree,
\* whatever was indexed, archived or purged between the statements of the call.
\* (Two calls of one batch may be of different snapshots.)
AnswersAreWhole ==
    \A c \in CodeCallers :
        LET a == answers[c]
        IN  /\ a.lines = a.snapshot
            /\ (a.snapshot # 0 /\ source.live # "purged") => a.commit = commitOf[a.snapshot]

\* A recorded pull request is of a proposal that was generated from the commit that
\* was current when it was approved, and that its author named as the base; there
\* is one record of a proposal, on the branch the proposal asked for.
PrRecordsAgree ==
    /\ \A r \in requests :
        LET proposal == proposals[r.proposal]
        IN  /\ proposal.status = "pr_opened"
            /\ proposal.indexed # NoCommit =>
                proposal.base = proposal.indexed /\ r.basis = proposal.indexed
            /\ proposal.branch \in {NoBranch, r.branch}
            /\ \A q \in requests : q.proposal = r.proposal => q = r
    /\ \A p \in ProposalNumbers :
        proposals[p].status = "pr_opened" => \E r \in requests : r.proposal = p

\* What a caller is told of code, and what it proposes to change of it, is of one
\* snapshot and of the commit that was approved.  (remote_code.py)
CodeAnswers == CodeTypeOK /\ AnswersAreWhole /\ PrRecordsAgree

=============================================================================
