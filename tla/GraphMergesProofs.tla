-------------------------- MODULE GraphMergesProofs --------------------------
(***************************************************************************)
(* Proofs about GraphMerges: MergesAgree is inductive for any sets of      *)
(* merges, callers, candidates and workers and any bounds, whatever the    *)
(* graph streams below do, and the two properties follow.  One lemma per   *)
(* action that writes a merge variable; compile and insert share the lemma *)
(* about the draft they add.                                               *)
(***************************************************************************)
EXTENDS GraphMerges, FiniteSetTheorems, TLAPS

-----------------------------------------------------------------------------
(* The helper operators *)

\* A set of candidates has a cardinality, and it is empty when that is zero.
LEMMA CandidatesCounted ==
  ASSUME NEW S \in SUBSET Candidates
  PROVE  Cardinality(S) \in Nat /\ (Cardinality(S) = 0 => S = {})
<1>1. IsFiniteSet(S)
  BY FS_Subset, MergeConstants
<1> QED BY <1>1, FS_CardinalityType, FS_EmptySet

\* A new draft is a typed row whose counter is the number of its open candidates.
LEMMA DraftCounted ==
  ASSUME NEW inputs \in [Resources -> 0..MaxVersion], NEW review \in [Candidates -> Review]
  PROVE  LET draft == MergeDraft(inputs, review) IN
         /\ draft \in MergeVersion /\ draft.status = "draft"
         /\ draft.unresolved = 0 => OpenCandidates(draft) = {}
<1> DEFINE open == {c \in Candidates : review[c] = "open"}
<1>1. Cardinality(open) \in Nat /\ (Cardinality(open) = 0 => open = {})
  <2>1. open \in SUBSET Candidates
    OBVIOUS
  <2> QED BY <2>1, CandidatesCounted
<1>2. MergeDraft(inputs, review) =
        [status |-> "draft", inputs |-> inputs, review |-> review,
         unresolved |-> Cardinality(open), acknowledged |-> FALSE]
  BY DEF MergeDraft
<1>3. OpenCandidates(MergeDraft(inputs, review)) = open
  BY <1>2 DEF OpenCandidates
<1> HIDE DEF open
<1> QED BY <1>1, <1>2, <1>3 DEF MergeVersion

\* A stream after DraftMerge: the same, or with one more draft, its counter right.
LEMMA DraftMergeFacts ==
  ASSUME MergeTypeOK, NEW m \in Merges, NEW inputs \in [Resources -> 0..MaxVersion],
         DraftMerge(m, inputs)
  PROVE  /\ mergeVersions' \in [Merges -> [MergeVersionNumbers -> MergeVersion]]
         /\ \A n \in Merges, u \in MergeVersionNumbers :
              \/ mergeVersions'[n][u] = mergeVersions[n][u]
              \/ /\ n = m /\ mergeVersions[n][u].status = "none"
                 /\ mergeVersions'[n][u].status = "draft"
                 /\ mergeVersions'[n][u].unresolved = 0
                      => OpenCandidates(mergeVersions'[n][u]) = {}
<1>1. CASE UNCHANGED mergeVersions
  BY <1>1 DEF MergeTypeOK
<1>2. CASE ~UNCHANGED mergeVersions
  <2>1. PICK v \in NextMergeVersion(m), review \in [Candidates -> Review] :
          mergeVersions' = [mergeVersions EXCEPT ![m][v] = MergeDraft(inputs, review)]
    BY <1>2 DEF DraftMerge
  <2> DEFINE draft == MergeDraft(inputs, review)
  <2>2. /\ draft \in MergeVersion /\ draft.status = "draft"
        /\ draft.unresolved = 0 => OpenCandidates(draft) = {}
    BY DraftCounted
  <2>3. v \in MergeVersionNumbers /\ mergeVersions[m][v].status = "none"
    BY DEF NextMergeVersion
  <2>4. mergeVersions' = [mergeVersions EXCEPT ![m][v] = draft]
    BY <2>1
  <2> HIDE DEF draft
  <2>5. mergeVersions' \in [Merges -> [MergeVersionNumbers -> MergeVersion]]
    BY <2>2, <2>3, <2>4 DEF MergeTypeOK
  <2>6. \A n \in Merges, u \in MergeVersionNumbers :
          mergeVersions'[n][u] = IF n = m /\ u = v THEN draft ELSE mergeVersions[n][u]
    BY <2>3, <2>4 DEF MergeTypeOK
  <2> QED BY <2>2, <2>3, <2>5, <2>6
<1> QED BY <1>1, <1>2

-----------------------------------------------------------------------------
(* Steps *)

\* No merge and no call exists in the first state.
LEMMA MergeInitAgrees == MergeInit => MergesAgree
<1> SUFFICES ASSUME MergeInit PROVE MergesAgree
  OBVIOUS
<1> USE GraphConstants, MergeConstants
<1>1. NoInputs \in [Resources -> 0..MaxVersion]
  BY DEF NoInputs
<1>2. MergeTypeOK
  BY <1>1 DEF MergeInit, MergeTypeOK, Merge, MergeVersion, MergeCall, NoMergeVersion, IdleCall,
     Review
<1>3. MergePointer /\ OpenIsAcknowledged /\ CounterCoversOpen
  BY DEF MergeInit, MergePointer, OpenIsAcknowledged, CounterCoversOpen, NoMergeVersion
<1>4. MergeCallsAgree /\ DependentsWerePublished
  BY DEF MergeInit, MergeCallsAgree, DependentsWerePublished, IdleCall
<1> QED BY <1>2, <1>3, <1>4 DEF MergesAgree

\* A caller that reads its inputs, or finds no merge, writes only its own state.
LEMMA ReadingCallAgrees ==
  ASSUME MergesAgree, NEW q \in Reviewers, UNCHANGED <<merge, mergeVersions, dependents>>,
         NEW new \in MergeCall, new.pc # "publish", new.merge \in Merges,
         mergeCall' = [mergeCall EXCEPT ![q] = new]
  PROVE  MergesAgree'
<1> USE DEF MergesAgree
<1>1. \A p \in Reviewers : mergeCall'[p].pc = "publish" => mergeCall'[p] = mergeCall[p]
  BY DEF MergeTypeOK
<1>2. MergeTypeOK'
  BY DEF MergeTypeOK
<1>3. MergePointer' /\ OpenIsAcknowledged' /\ CounterCoversOpen' /\ DependentsWerePublished'
  BY DEF MergePointer, OpenIsAcknowledged, CounterCoversOpen, DependentsWerePublished,
     OpenCandidates
<1>4. MergeCallsAgree'
  <2> SUFFICES ASSUME NEW p \in Reviewers, mergeCall'[p].pc = "publish"
               PROVE  MergeCallAgrees(p)'
    BY DEF MergeCallsAgree
  <2>1. mergeCall'[p] = mergeCall[p] /\ MergeCallAgrees(p)
    BY <1>1 DEF MergeCallsAgree
  <2> QED BY <1>1, <2>1 DEF MergeCallAgrees, OpenCandidates
<1> QED BY <1>2, <1>3, <1>4

\* A compile or an insert: no published, current or invalidated row is touched.
LEMMA DraftingAgrees ==
  ASSUME MergesAgree, NEW q \in Reviewers, NEW m \in Merges,
         NEW inputs \in [Resources -> 0..MaxVersion],
         mergeCall[q].pc # "publish", DraftMerge(m, inputs) \/ UNCHANGED mergeVersions,
         merge' \in [Merges -> Merge], \A n \in Merges : merge'[n].current = merge[n].current,
         FinishMergeCall(q), UNCHANGED dependents
  PROVE  MergesAgree'
<1> USE DEF MergesAgree
<1> DEFINE Kept(n, u) == mergeVersions'[n][u] = mergeVersions[n][u]
           Added(n, u) == /\ mergeVersions[n][u].status = "none"
                          /\ mergeVersions'[n][u].status = "draft"
                          /\ mergeVersions'[n][u].unresolved = 0
                               => OpenCandidates(mergeVersions'[n][u]) = {}
<1>1. /\ mergeVersions' \in [Merges -> [MergeVersionNumbers -> MergeVersion]]
      /\ \A n \in Merges, u \in MergeVersionNumbers : Kept(n, u) \/ Added(n, u)
  <2>1. CASE UNCHANGED mergeVersions
    BY <2>1 DEF MergeTypeOK
  <2>2. CASE DraftMerge(m, inputs)
    <3>1. MergeTypeOK
      OBVIOUS
    <3>2. /\ mergeVersions' \in [Merges -> [MergeVersionNumbers -> MergeVersion]]
          /\ \A n \in Merges, u \in MergeVersionNumbers :
               \/ mergeVersions'[n][u] = mergeVersions[n][u]
               \/ /\ n = m /\ mergeVersions[n][u].status = "none"
                  /\ mergeVersions'[n][u].status = "draft"
                  /\ mergeVersions'[n][u].unresolved = 0
                       => OpenCandidates(mergeVersions'[n][u]) = {}
      BY <2>2, <3>1, DraftMergeFacts, Zenon
    <3> QED BY <3>2
  <2> QED BY <2>1, <2>2
<1>2. /\ mergeCall' \in [Reviewers -> MergeCall]
      /\ \A p \in Reviewers : mergeCall'[p].pc # "idle" => mergeCall'[p] = mergeCall[p]
  <2>1. IdleCall \in MergeCall
    BY MergeConstants, GraphConstants DEF IdleCall, MergeCall, NoInputs
  <2>2. IdleCall.pc = "idle"
    BY DEF IdleCall
  <2> QED BY <2>1, <2>2 DEF MergeTypeOK, FinishMergeCall
<1>3. MergeTypeOK'
  BY <1>1, <1>2 DEF MergeTypeOK
<1>4. \A n \in Merges : merge[n].current \in 0..MaxMergeVersion
  BY DEF MergeTypeOK, Merge
<1>5. MergePointer'
  <2>1. ASSUME NEW n \in Merges, merge'[n].current # 0
        PROVE  mergeVersions'[n][merge'[n].current].status \in {"published", "invalidated"}
    <3>1. merge[n].current \in MergeVersionNumbers
      BY <2>1, <1>4, MergeConstants DEF MergeVersionNumbers
    <3>2. mergeVersions[n][merge[n].current].status \in {"published", "invalidated"}
      BY <2>1 DEF MergePointer
    <3> QED BY <3>1, <3>2, <1>1
  <2>2. ASSUME NEW n \in Merges, NEW u \in MergeVersionNumbers,
               mergeVersions'[n][u].status = "published"
        PROVE  merge'[n].current = u
    <3>1. Kept(n, u)
      BY <2>2, <1>1
    <3> QED BY <2>2, <3>1 DEF MergePointer
  <2> QED BY <2>1, <2>2 DEF MergePointer
<1>6. OpenIsAcknowledged' /\ CounterCoversOpen'
  <2> SUFFICES ASSUME NEW n \in Merges, NEW u \in MergeVersionNumbers
               PROVE  LET row == mergeVersions'[n][u] IN
                      /\ row.status = "published" /\ OpenCandidates(row) # {} => row.acknowledged
                      /\ row.status # "none" /\ row.unresolved = 0 => OpenCandidates(row) = {}
    BY DEF OpenIsAcknowledged, CounterCoversOpen, OpenCandidates
  <2>1. CASE Kept(n, u)
    BY <2>1 DEF OpenIsAcknowledged, CounterCoversOpen
  <2>2. CASE Added(n, u)
    BY <2>2
  <2> QED BY <2>1, <2>2, <1>1
<1>7. DependentsWerePublished'
  <2>1. ASSUME NEW w \in Workers, NEW d \in dependents[w]
        PROVE  mergeVersions'[d[1]][d[2]].status \in {"published", "superseded", "invalidated"}
    <3>1. d[1] \in Merges /\ d[2] \in MergeVersionNumbers
      BY DEF MergeTypeOK
    <3>2. mergeVersions[d[1]][d[2]].status \in {"published", "superseded", "invalidated"}
      BY DEF DependentsWerePublished
    <3> QED BY <3>1, <3>2, <1>1
  <2> QED BY <2>1 DEF DependentsWerePublished
<1>8. MergeCallsAgree'
  <2> SUFFICES ASSUME NEW p \in Reviewers, mergeCall'[p].pc = "publish"
               PROVE  MergeCallAgrees(p)'
    BY DEF MergeCallsAgree
  <2>1. mergeCall'[p] = mergeCall[p] /\ MergeCallAgrees(p)
    BY <1>2 DEF MergeCallsAgree
  <2> DEFINE n == mergeCall[p].merge
             v == mergeCall[p].version
  <2>2. n \in Merges /\ v \in MergeVersionNumbers /\ mergeVersions[n][v].status = "draft"
    BY <2>1 DEF MergeCallAgrees
  <2>3. Kept(n, v)
    BY <1>1, <2>2
  <2>4. merge[n].current # 0 => Kept(n, merge[n].current)
    <3> SUFFICES ASSUME merge[n].current # 0 PROVE Kept(n, merge[n].current)
      OBVIOUS
    <3>1. merge[n].current \in MergeVersionNumbers
      BY <2>2, <1>4, MergeConstants DEF MergeVersionNumbers
    <3> QED BY <1>1, <2>2, <3>1 DEF MergePointer
  <2>5. merge'[n].current = merge[n].current
    BY <2>2
  <2>6. /\ OpenCandidates(mergeVersions'[n][v]) # {} => mergeCall[p].acknowledges
        /\ mergeCall[p].was = "none" <=> merge'[n].current = 0
        /\ mergeCall[p].was = "invalidated"
             => mergeVersions'[n][merge'[n].current].status = "invalidated"
    BY <2>1, <2>3, <2>4, <2>5 DEF MergeCallAgrees, MergeTypeOK, MergeCall
  <2>7. \A o \in Reviewers : mergeCall'[o].pc = "publish" /\ mergeCall'[o].merge = n => o = p
    BY <1>2, <2>1 DEF MergeCallAgrees
  <2> QED BY <2>1, <2>2, <2>3, <2>6, <2>7 DEF MergeCallAgrees, OpenCandidates
<1> QED BY <1>3, <1>5, <1>6, <1>7, <1>8

\* The check takes the merge lock with a draft, and knows what current was.
LEMMA CheckAgrees ==
  ASSUME MergesAgree, NEW q \in Reviewers, NEW m \in Merges, NEW v \in MergeVersionNumbers,
         CheckMerge(q, m, v)
  PROVE  MergesAgree'
<1> USE DEF MergesAgree
<1> DEFINE row == mergeVersions[m][v]
           c == merge[m].current
           was == IF c = 0 THEN "none" ELSE mergeVersions[m][c].status
           new == [IdleCall EXCEPT !.pc = "publish", !.merge = m, !.version = v,
                                   !.acknowledges = row.unresolved > 0, !.was = was]
<1>1. /\ ~MergeLocked(m) /\ row.status = "draft"
      /\ UNCHANGED <<merge, mergeVersions, dependents>>
  BY DEF CheckMerge
<1>2. mergeCall' = [mergeCall EXCEPT ![q] = new]
  BY DEF CheckMerge
<1>3. /\ row \in MergeVersion /\ row.unresolved \in Nat
      /\ OpenCandidates(row) # {} => row.unresolved > 0
  <2>1. row \in MergeVersion
    BY DEF MergeTypeOK
  <2>2. row.unresolved \in Nat
    BY <2>1 DEF MergeVersion
  <2>3. row.unresolved = 0 => OpenCandidates(row) = {}
    BY <1>1 DEF CounterCoversOpen
  <2> QED BY <2>1, <2>2, <2>3
<1>4. /\ was \in {"none", "published", "invalidated"}
      /\ was = "none" <=> c = 0
      /\ was = "invalidated" => mergeVersions[m][c].status = "invalidated"
  BY DEF MergePointer
<1> HIDE DEF was
<1>5. new \in MergeCall
  <2>1. IdleCall \in MergeCall
    BY MergeConstants, GraphConstants DEF IdleCall, MergeCall, NoInputs
  <2> DEFINE more == row.unresolved > 0
  <2>2. more \in BOOLEAN /\ m \in Merges \cup {NoMerge} /\ v \in 0..MaxMergeVersion
    BY MergeConstants DEF MergeVersionNumbers
  <2>3. new = [IdleCall EXCEPT !.pc = "publish", !.merge = m, !.version = v,
                               !.acknowledges = more, !.was = was]
    OBVIOUS
  <2> HIDE DEF new, more
  <2> QED BY <2>1, <2>2, <2>3, <1>4 DEF MergeCall
<1>6. /\ new.pc = "publish" /\ new.merge = m /\ new.version = v /\ new.was = was
      /\ OpenCandidates(row) # {} => new.acknowledges
  BY <1>3 DEF IdleCall
<1> HIDE DEF new
<1>7. \A p \in Reviewers : mergeCall'[p] = IF p = q THEN new ELSE mergeCall[p]
  BY <1>2 DEF MergeTypeOK
<1>8. MergeTypeOK'
  BY <1>1, <1>2, <1>5, <1>6, <1>7 DEF MergeTypeOK
<1>9. MergePointer' /\ OpenIsAcknowledged' /\ CounterCoversOpen' /\ DependentsWerePublished'
  BY <1>1 DEF MergePointer, OpenIsAcknowledged, CounterCoversOpen, DependentsWerePublished,
     OpenCandidates
<1>10. MergeCallsAgree'
  <2> SUFFICES ASSUME NEW p \in Reviewers, mergeCall'[p].pc = "publish"
               PROVE  MergeCallAgrees(p)'
    BY DEF MergeCallsAgree
  <2>1. CASE p = q
    BY <1>1, <1>4, <1>6, <1>7, <2>1 DEF MergeCallAgrees, MergeLocked, OpenCandidates
  <2>2. CASE p # q
    <3>1. mergeCall'[p] = mergeCall[p] /\ MergeCallAgrees(p) /\ mergeCall[p].merge # m
      BY <1>1, <1>7, <2>2 DEF MergeCallsAgree, MergeLocked
    <3> QED BY <1>1, <1>6, <1>7, <3>1 DEF MergeCallAgrees, OpenCandidates
  <2> QED BY <2>1, <2>2
<1> QED BY <1>8, <1>9, <1>10

\* The publish leaves one published version, the current one: what was current
\* is superseded or was invalidated before, and nobody else publishes this merge.
LEMMA PublishAgrees ==
  ASSUME MergesAgree, NEW q \in Reviewers, PublishMerge(q)
  PROVE  MergesAgree'
<1> USE DEF MergesAgree
<1> DEFINE m == mergeCall[q].merge
           v == mergeCall[q].version
           c == merge[m].current
           published == [mergeVersions[m][v] EXCEPT !.status = "published",
                                                    !.acknowledged = mergeCall[q].acknowledges]
           superseded(u) == [mergeVersions[m][u] EXCEPT !.status = "superseded"]
           stream == [u \in MergeVersionNumbers |->
                        IF u = v THEN published
                        ELSE IF u \in Replaced(q) THEN superseded(u) ELSE mergeVersions[m][u]]
<1>1. mergeCall[q].pc = "publish" /\ MergeCallAgrees(q)
  BY DEF PublishMerge, MergeCallsAgree
<1>2. /\ m \in Merges /\ v \in MergeVersionNumbers /\ mergeVersions[m][v].status = "draft"
      /\ OpenCandidates(mergeVersions[m][v]) # {} => mergeCall[q].acknowledges
      /\ mergeCall[q].was = "none" <=> c = 0
      /\ mergeCall[q].was = "invalidated" => mergeVersions[m][c].status = "invalidated"
  BY <1>1 DEF MergeCallAgrees
<1>3. mergeCall[q] \in MergeCall /\ mergeVersions[m] \in [MergeVersionNumbers -> MergeVersion]
  BY <1>2 DEF MergeTypeOK
<1>4. published \in MergeVersion /\ \A u \in MergeVersionNumbers : superseded(u) \in MergeVersion
  <2>1. published \in MergeVersion
    <3> DEFINE ack == mergeCall[q].acknowledges
    <3>1. ack \in BOOLEAN
      BY <1>3 DEF MergeCall
    <3>2. mergeVersions[m][v] \in MergeVersion
      BY <1>2, <1>3
    <3>3. published = [mergeVersions[m][v] EXCEPT !.status = "published", !.acknowledged = ack]
      OBVIOUS
    <3> HIDE DEF published, ack
    <3> QED BY <3>1, <3>2, <3>3 DEF MergeVersion
  <2>2. ASSUME NEW u \in MergeVersionNumbers PROVE superseded(u) \in MergeVersion
    <3>1. mergeVersions[m][u] \in MergeVersion
      BY <1>3
    <3> QED BY <3>1 DEF MergeVersion
  <2> QED BY <2>1, <2>2
<1>5. /\ published.status = "published" /\ published.unresolved = mergeVersions[m][v].unresolved
      /\ OpenCandidates(published) = OpenCandidates(mergeVersions[m][v])
      /\ published.acknowledged = mergeCall[q].acknowledges
      /\ \A u \in MergeVersionNumbers :
           /\ superseded(u).status = "superseded"
           /\ superseded(u).unresolved = mergeVersions[m][u].unresolved
           /\ OpenCandidates(superseded(u)) = OpenCandidates(mergeVersions[m][u])
  BY <1>2, <1>3 DEF MergeVersion, OpenCandidates
<1>6. /\ mergeVersions' = [mergeVersions EXCEPT ![m] = stream]
      /\ merge' = [merge EXCEPT ![m].current = v]
      /\ FinishMergeCall(q) /\ UNCHANGED dependents
  BY <1>2 DEF PublishMerge, MergeTypeOK
<1> HIDE DEF published, superseded
<1>7. stream \in [MergeVersionNumbers -> MergeVersion]
  BY <1>3, <1>4
<1>8. \A n \in Merges, u \in MergeVersionNumbers :
        mergeVersions'[n][u] = IF n # m THEN mergeVersions[n][u]
                               ELSE IF u = v THEN published
                               ELSE IF u \in Replaced(q) THEN superseded(u)
                               ELSE mergeVersions[n][u]
  BY <1>2, <1>6 DEF MergeTypeOK
<1> HIDE DEF stream
<1>9. /\ merge' \in [Merges -> Merge] /\ merge'[m].current = v
      /\ \A n \in Merges : n # m => merge'[n] = merge[n]
  <2>1. v \in 0..MaxMergeVersion /\ merge[m] \in Merge
    BY <1>2, MergeConstants DEF MergeTypeOK, MergeVersionNumbers
  <2> DEFINE row == [merge[m] EXCEPT !.current = v]
  <2>2. row \in Merge /\ row.current = v
    BY <2>1 DEF Merge
  <2>3. merge' = [merge EXCEPT ![m] = row]
    BY <1>6
  <2> HIDE DEF row
  <2> QED BY <1>2, <2>2, <2>3 DEF MergeTypeOK
<1>10. /\ mergeCall' \in [Reviewers -> MergeCall]
       /\ \A p \in Reviewers : mergeCall'[p].pc # "idle"
                                 => p # q /\ mergeCall'[p] = mergeCall[p]
  <2>1. IdleCall \in MergeCall /\ IdleCall.pc = "idle"
    BY MergeConstants, GraphConstants DEF IdleCall, MergeCall, NoInputs
  <2> QED BY <1>6, <2>1 DEF MergeTypeOK, FinishMergeCall
<1>11. MergeTypeOK'
  BY <1>2, <1>6, <1>7, <1>9, <1>10 DEF MergeTypeOK
<1>12. \A u \in MergeVersionNumbers : u \in Replaced(q)
          => u = c /\ mergeVersions[m][u].status \in {"published", "invalidated"}
  BY <1>2 DEF Replaced, MergePointer
<1>13. MergePointer'
  <2>1. ASSUME NEW n \in Merges, merge'[n].current # 0
        PROVE  mergeVersions'[n][merge'[n].current].status \in {"published", "invalidated"}
    <3>1. CASE n = m
      BY <3>1, <1>2, <1>5, <1>8, <1>9
    <3>2. CASE n # m
      <4>1. merge[n].current \in MergeVersionNumbers
        BY <2>1, <3>2, <1>9, MergeConstants DEF MergeTypeOK, Merge, MergeVersionNumbers
      <4> QED BY <2>1, <3>2, <4>1, <1>8, <1>9 DEF MergePointer
    <3> QED BY <3>1, <3>2
  <2>2. ASSUME NEW n \in Merges, NEW u \in MergeVersionNumbers,
               mergeVersions'[n][u].status = "published"
        PROVE  merge'[n].current = u
    <3>1. CASE n # m
      BY <2>2, <3>1, <1>8, <1>9 DEF MergePointer
    <3>2. CASE n = m /\ u = v
      BY <3>2, <1>9
    <3>3. CASE n = m /\ u # v
      <4>1. u \notin Replaced(q) /\ mergeVersions[m][u].status = "published"
        BY <2>2, <3>3, <1>5, <1>8
      <4>2. c = u
        BY <4>1, <1>2 DEF MergePointer
      <4>3. mergeCall[q].was \in {"none", "published", "invalidated"}
        BY <1>3 DEF MergeCall
      <4>4. u # 0
        BY MergeConstants DEF MergeVersionNumbers
      <4> QED BY <4>1, <4>2, <4>3, <4>4, <1>2 DEF Replaced
    <3> QED BY <3>1, <3>2, <3>3
  <2> QED BY <2>1, <2>2 DEF MergePointer
<1>14. OpenIsAcknowledged' /\ CounterCoversOpen'
  <2> SUFFICES ASSUME NEW n \in Merges, NEW u \in MergeVersionNumbers
               PROVE  LET row == mergeVersions'[n][u] IN
                      /\ row.status = "published" /\ OpenCandidates(row) # {} => row.acknowledged
                      /\ row.status # "none" /\ row.unresolved = 0 => OpenCandidates(row) = {}
    BY DEF OpenIsAcknowledged, CounterCoversOpen, OpenCandidates
  <2>1. CASE mergeVersions'[n][u] = mergeVersions[n][u]
    BY <2>1 DEF OpenIsAcknowledged, CounterCoversOpen
  <2>2. CASE n = m /\ u = v
    <3>1. mergeVersions'[n][u] = published
      BY <2>2, <1>8
    <3>2. mergeVersions[m][v].unresolved = 0 => OpenCandidates(mergeVersions[m][v]) = {}
      BY <1>2 DEF CounterCoversOpen
    <3> QED BY <3>1, <3>2, <1>2, <1>5
  <2>3. CASE n = m /\ u # v /\ u \in Replaced(q)
    <3>1. mergeVersions'[n][u] = superseded(u)
      BY <2>3, <1>8
    <3>2. mergeVersions[m][u].unresolved = 0 => OpenCandidates(mergeVersions[m][u]) = {}
      BY <1>2, <2>3, <1>12 DEF CounterCoversOpen
    <3> QED BY <3>1, <3>2, <1>5
  <2> QED BY <2>1, <2>2, <2>3, <1>8
<1>15. DependentsWerePublished'
  <2>1. ASSUME NEW w \in Workers, NEW d \in dependents[w]
        PROVE  mergeVersions'[d[1]][d[2]].status \in {"published", "superseded", "invalidated"}
    <3>1. d[1] \in Merges /\ d[2] \in MergeVersionNumbers
      BY DEF MergeTypeOK
    <3>2. mergeVersions[d[1]][d[2]].status \in {"published", "superseded", "invalidated"}
      BY DEF DependentsWerePublished
    <3> QED BY <3>1, <3>2, <1>5, <1>8
  <2> QED BY <2>1, <1>6 DEF DependentsWerePublished
<1>16. MergeCallsAgree'
  <2> SUFFICES ASSUME NEW p \in Reviewers, mergeCall'[p].pc = "publish"
               PROVE  MergeCallAgrees(p)'
    BY DEF MergeCallsAgree
  <2>1. p # q /\ mergeCall'[p] = mergeCall[p] /\ MergeCallAgrees(p)
    BY <1>10 DEF MergeCallsAgree
  <2>2. mergeCall[p].merge # m /\ mergeCall[p].merge \in Merges
    BY <1>1, <1>10, <2>1 DEF MergeCallAgrees
  <2>3. /\ merge'[mergeCall[p].merge] = merge[mergeCall[p].merge]
        /\ mergeVersions'[mergeCall[p].merge] = mergeVersions[mergeCall[p].merge]
    BY <1>2, <1>6, <1>9, <2>2 DEF MergeTypeOK
  <2> QED BY <1>10, <2>1, <2>2, <2>3 DEF MergeCallAgrees, OpenCandidates
<1> QED BY <1>11, <1>13, <1>14, <1>15, <1>16

\* Under a lock nobody publishes with, a row may be invalidated, or reviewed
\* without losing what its counter and its comment say.
LEMMA RowChangeAgrees ==
  ASSUME MergesAgree, NEW m \in Merges, NEW v \in MergeVersionNumbers, ~MergeLocked(m),
         NEW row \in MergeVersion, mergeVersions' = [mergeVersions EXCEPT ![m][v] = row],
         mergeVersions[m][v].status # "none",
         row.status \in {mergeVersions[m][v].status, "invalidated"},
         row.unresolved = 0 => OpenCandidates(row) = {},
         row.status = "published" /\ OpenCandidates(row) # {} => row.acknowledged,
         merge' \in [Merges -> Merge],
         \A n \in Merges : \/ merge'[n].current = merge[n].current
                           \/ n = m /\ merge[n].current = v /\ merge'[n].current = 0,
         merge'[m].current = merge[m].current \/ row.status = "invalidated",
         UNCHANGED <<mergeCall, dependents>>
  PROVE  MergesAgree'
<1> USE DEF MergesAgree
<1>1. \A n \in Merges, u \in MergeVersionNumbers :
        mergeVersions'[n][u] = IF n = m /\ u = v THEN row ELSE mergeVersions[n][u]
  BY DEF MergeTypeOK
<1>2. MergeTypeOK'
  BY DEF MergeTypeOK
<1>3. MergePointer'
  <2>1. ASSUME NEW n \in Merges, merge'[n].current # 0
        PROVE  mergeVersions'[n][merge'[n].current].status \in {"published", "invalidated"}
    <3>1. merge'[n].current = merge[n].current
      BY <2>1
    <3>2. merge[n].current \in MergeVersionNumbers
      BY <2>1, <3>1, MergeConstants DEF MergeTypeOK, Merge, MergeVersionNumbers
    <3> QED BY <2>1, <3>1, <3>2, <1>1 DEF MergePointer
  <2>2. ASSUME NEW n \in Merges, NEW u \in MergeVersionNumbers,
               mergeVersions'[n][u].status = "published"
        PROVE  merge'[n].current = u
    <3>1. mergeVersions[n][u].status = "published" /\ merge[n].current = u
      BY <2>2, <1>1 DEF MergePointer
    <3>2. n = m /\ u = v => row.status # "invalidated"
      BY <2>2, <1>1
    <3> QED BY <3>1, <3>2
  <2> QED BY <2>1, <2>2 DEF MergePointer
<1>4. OpenIsAcknowledged' /\ CounterCoversOpen'
  <2> SUFFICES ASSUME NEW n \in Merges, NEW u \in MergeVersionNumbers
               PROVE  LET r == mergeVersions'[n][u] IN
                      /\ r.status = "published" /\ OpenCandidates(r) # {} => r.acknowledged
                      /\ r.status # "none" /\ r.unresolved = 0 => OpenCandidates(r) = {}
    BY DEF OpenIsAcknowledged, CounterCoversOpen, OpenCandidates
  <2>1. CASE n = m /\ u = v
    BY <2>1, <1>1
  <2>2. CASE ~(n = m /\ u = v)
    <3>1. mergeVersions'[n][u] = mergeVersions[n][u]
      BY <2>2, <1>1
    <3> QED BY <3>1 DEF OpenIsAcknowledged, CounterCoversOpen
  <2> QED BY <2>1, <2>2
<1>5. DependentsWerePublished'
  <2>1. ASSUME NEW w \in Workers, NEW d \in dependents[w]
        PROVE  mergeVersions'[d[1]][d[2]].status \in {"published", "superseded", "invalidated"}
    <3>1. d[1] \in Merges /\ d[2] \in MergeVersionNumbers
      BY DEF MergeTypeOK
    <3>2. mergeVersions[d[1]][d[2]].status \in {"published", "superseded", "invalidated"}
      BY DEF DependentsWerePublished
    <3> QED BY <3>1, <3>2, <1>1
  <2> QED BY <2>1 DEF DependentsWerePublished
<1>6. MergeCallsAgree'
  <2> SUFFICES ASSUME NEW p \in Reviewers, mergeCall[p].pc = "publish"
               PROVE  MergeCallAgrees(p)'
    BY DEF MergeCallsAgree
  <2> DEFINE n == mergeCall[p].merge
  <2>1. MergeCallAgrees(p) /\ n # m /\ n \in Merges
    BY DEF MergeCallsAgree, MergeCallAgrees, MergeLocked
  <2>2. mergeVersions'[n] = mergeVersions[n] /\ merge'[n].current = merge[n].current
    BY <2>1 DEF MergeTypeOK
  <2> QED BY <2>1, <2>2 DEF MergeCallAgrees, OpenCandidates
<1> QED BY <1>2, <1>3, <1>4, <1>5, <1>6

\* Invalidating clears the pointer to the version it invalidates.
LEMMA InvalidateAgrees ==
  ASSUME MergesAgree, NEW m \in Merges, NEW v \in MergeVersionNumbers,
         InvalidateMergeVersion(m, v), UNCHANGED vars
  PROVE  MergesAgree'
<1> DEFINE row == [mergeVersions[m][v] EXCEPT !.status = "invalidated", !.acknowledged = FALSE]
           target == [merge[m] EXCEPT !.current = IF @ = v THEN 0 ELSE @]
<1>1. MergeTypeOK /\ CounterCoversOpen
  BY DEF MergesAgree
<1>2. mergeVersions[m][v] \in MergeVersion /\ merge[m] \in Merge
  BY <1>1 DEF MergeTypeOK
<1>3. /\ row \in MergeVersion /\ row.status = "invalidated"
      /\ row.unresolved = mergeVersions[m][v].unresolved
      /\ OpenCandidates(row) = OpenCandidates(mergeVersions[m][v])
  BY <1>2 DEF MergeVersion, OpenCandidates
<1>4. /\ ~MergeLocked(m) /\ mergeVersions[m][v].status # "none"
      /\ mergeVersions' = [mergeVersions EXCEPT ![m][v] = row]
      /\ merge' = [merge EXCEPT ![m] = target]
      /\ UNCHANGED <<mergeCall, dependents>>
  BY <1>1 DEF InvalidateMergeVersion, MergeTypeOK
<1>5. row.unresolved = 0 => OpenCandidates(row) = {}
  BY <1>1, <1>3, <1>4 DEF CounterCoversOpen
<1> HIDE DEF row
<1>6. /\ target \in Merge
      /\ target.current = merge[m].current \/ (merge[m].current = v /\ target.current = 0)
  <2> DEFINE new == IF merge[m].current = v THEN 0 ELSE merge[m].current
  <2>1. new \in 0..MaxMergeVersion /\ (new = merge[m].current \/ (merge[m].current = v /\ new = 0))
    BY <1>2, MergeConstants DEF Merge
  <2>2. target = [merge[m] EXCEPT !.current = new]
    OBVIOUS
  <2> HIDE DEF new, target
  <2>3. target \in Merge /\ target.current = new
    BY <1>2, <2>1, <2>2 DEF Merge
  <2> QED BY <2>1, <2>3
<1> HIDE DEF target
<1>7. /\ merge' \in [Merges -> Merge]
      /\ \A n \in Merges : \/ merge'[n].current = merge[n].current
                           \/ n = m /\ merge[n].current = v /\ merge'[n].current = 0
  BY <1>1, <1>4, <1>6 DEF MergeTypeOK
<1> QED BY <1>3, <1>4, <1>5, <1>7, RowChangeAgrees

\* A review only closes candidates, and the counter it stores is the number that
\* was open before it.
LEMMA ReviewAgrees ==
  ASSUME MergesAgree, NEW m \in Merges, NEW v \in MergeVersionNumbers, NEW c \in Candidates,
         ReviewCandidate(m, v, c)
  PROVE  MergesAgree'
<1> DEFINE old == mergeVersions[m][v]
           count == Cardinality(OpenCandidates(old))
           row == [old EXCEPT !.review[c] = "reviewed", !.unresolved = count]
<1>1. MergeTypeOK /\ OpenIsAcknowledged
  BY DEF MergesAgree
<1>2. old \in MergeVersion
  BY <1>1 DEF MergeTypeOK
<1>3. count \in Nat /\ (count = 0 => OpenCandidates(old) = {})
  <2>1. OpenCandidates(old) \in SUBSET Candidates
    BY DEF OpenCandidates
  <2> QED BY <2>1, CandidatesCounted
<1>4. /\ ~MergeLocked(m) /\ old.status # "none"
      /\ mergeVersions' = [mergeVersions EXCEPT ![m][v] = row]
      /\ UNCHANGED <<merge, mergeCall, dependents>>
  BY <1>1 DEF ReviewCandidate, MergeTypeOK
<1> HIDE DEF count
<1>5. /\ row \in MergeVersion /\ row.status = old.status /\ row.unresolved = count
      /\ row.acknowledged = old.acknowledged
  BY <1>2, <1>3 DEF MergeVersion, Review
<1>6. OpenCandidates(row) \subseteq OpenCandidates(old)
  BY <1>2 DEF MergeVersion, OpenCandidates
<1>7. /\ row.unresolved = 0 => OpenCandidates(row) = {}
      /\ row.status = "published" /\ OpenCandidates(row) # {} => row.acknowledged
  BY <1>1, <1>3, <1>5, <1>6 DEF OpenIsAcknowledged
<1>8. merge' \in [Merges -> Merge] /\ \A n \in Merges : merge'[n].current = merge[n].current
  BY <1>1, <1>4 DEF MergeTypeOK
<1> HIDE DEF row, old
<1> QED BY <1>4, <1>5, <1>7, <1>8, RowChangeAgrees DEF old

\* Archiving keeps the pointer, and nothing else reads a merge's status here.
LEMMA ArchiveAgrees ==
  ASSUME MergesAgree, NEW m \in Merges, ArchiveMerge(m)
  PROVE  MergesAgree'
<1> USE DEF MergesAgree
<1>1. /\ UNCHANGED <<mergeVersions, mergeCall, dependents>>
      /\ merge' \in [Merges -> Merge]
      /\ \A n \in Merges : merge'[n].current = merge[n].current
  BY DEF ArchiveMerge, MergeTypeOK, Merge
<1>2. MergeTypeOK'
  BY <1>1 DEF MergeTypeOK
<1>3. MergePointer'
  BY <1>1 DEF MergePointer
<1>4. OpenIsAcknowledged' /\ CounterCoversOpen' /\ DependentsWerePublished'
  BY <1>1 DEF OpenIsAcknowledged, CounterCoversOpen, DependentsWerePublished, OpenCandidates
<1>5. MergeCallsAgree'
  <2> SUFFICES ASSUME NEW p \in Reviewers, mergeCall[p].pc = "publish"
               PROVE  MergeCallAgrees(p)'
    BY <1>1 DEF MergeCallsAgree
  <2>1. MergeCallAgrees(p)
    BY DEF MergeCallsAgree
  <2> QED BY <1>1, <2>1 DEF MergeCallAgrees, OpenCandidates
<1> QED BY <1>2, <1>3, <1>4, <1>5

\* A refresh selects published versions, or forgets what it has selected.
LEMMA SelectionAgrees ==
  ASSUME MergesAgree, NEW w \in Workers, NEW chosen \in SUBSET (Merges \X MergeVersionNumbers),
         \A d \in chosen : mergeVersions[d[1]][d[2]].status = "published",
         dependents' = [dependents EXCEPT ![w] = chosen],
         UNCHANGED <<merge, mergeVersions, mergeCall>>
  PROVE  MergesAgree'
<1> USE DEF MergesAgree
<1>1. MergeTypeOK'
  BY DEF MergeTypeOK
<1>2. MergePointer' /\ OpenIsAcknowledged' /\ CounterCoversOpen'
  BY DEF MergePointer, OpenIsAcknowledged, CounterCoversOpen, OpenCandidates
<1>3. DependentsWerePublished'
  <2>1. \A x \in Workers : dependents'[x] = IF x = w THEN chosen ELSE dependents[x]
    BY DEF MergeTypeOK
  <2> QED BY <2>1 DEF DependentsWerePublished
<1>4. MergeCallsAgree'
  <2> SUFFICES ASSUME NEW p \in Reviewers, mergeCall[p].pc = "publish"
               PROVE  MergeCallAgrees(p)'
    BY DEF MergeCallsAgree
  <2>1. MergeCallAgrees(p)
    BY DEF MergeCallsAgree
  <2> QED BY <2>1 DEF MergeCallAgrees, OpenCandidates
<1> QED BY <1>1, <1>2, <1>3, <1>4

\* The refresh invalidates rows that were published once: no draft, so not the
\* one a call is about to publish.
LEMMA CommitAgrees ==
  ASSUME MergesAgree, NEW w \in Workers, CommitAndInvalidate(w)
  PROVE  MergesAgree'
<1> USE DEF MergesAgree
<1> DEFINE out(n, u) == [mergeVersions[n][u] EXCEPT !.status = "invalidated",
                                                    !.acknowledged = FALSE]
           rows == [n \in Merges |-> [u \in MergeVersionNumbers |->
                      IF <<n, u>> \in dependents[w] THEN out(n, u) ELSE mergeVersions[n][u]]]
<1>1. /\ mergeVersions' = rows /\ dependents' = [dependents EXCEPT ![w] = {}]
      /\ UNCHANGED <<merge, mergeCall>>
  BY DEF CommitAndInvalidate
<1>2. \A n \in Merges, u \in MergeVersionNumbers :
        /\ out(n, u) \in MergeVersion /\ out(n, u).status = "invalidated"
        /\ out(n, u).unresolved = mergeVersions[n][u].unresolved
        /\ OpenCandidates(out(n, u)) = OpenCandidates(mergeVersions[n][u])
  <2> SUFFICES ASSUME NEW n \in Merges, NEW u \in MergeVersionNumbers
               PROVE  /\ out(n, u) \in MergeVersion /\ out(n, u).status = "invalidated"
                      /\ out(n, u).unresolved = mergeVersions[n][u].unresolved
                      /\ OpenCandidates(out(n, u)) = OpenCandidates(mergeVersions[n][u])
    OBVIOUS
  <2>1. mergeVersions[n][u] \in MergeVersion
    BY DEF MergeTypeOK
  <2> QED BY <2>1 DEF MergeVersion, OpenCandidates
<1> HIDE DEF out
<1>3. \A n \in Merges, u \in MergeVersionNumbers :
        \/ mergeVersions'[n][u] = mergeVersions[n][u]
        \/ /\ mergeVersions'[n][u] = out(n, u)
           /\ mergeVersions[n][u].status \in {"published", "superseded", "invalidated"}
  <2> SUFFICES ASSUME NEW n \in Merges, NEW u \in MergeVersionNumbers,
                      mergeVersions'[n][u] # mergeVersions[n][u]
               PROVE  /\ mergeVersions'[n][u] = out(n, u)
                      /\ mergeVersions[n][u].status \in {"published", "superseded", "invalidated"}
    OBVIOUS
  <2>1. mergeVersions'[n][u] =
          IF <<n, u>> \in dependents[w] THEN out(n, u) ELSE mergeVersions[n][u]
    BY <1>1
  <2>2. <<n, u>> \in dependents[w]
    BY <2>1
  <2> QED BY <2>1, <2>2 DEF DependentsWerePublished
<1>4. MergeTypeOK'
  <2>1. rows \in [Merges -> [MergeVersionNumbers -> MergeVersion]]
    BY <1>2 DEF MergeTypeOK
  <2> QED BY <1>1, <2>1 DEF MergeTypeOK
<1> HIDE DEF rows
<1>5. MergePointer'
  <2>1. ASSUME NEW n \in Merges, merge[n].current # 0
        PROVE  mergeVersions'[n][merge[n].current].status \in {"published", "invalidated"}
    <3>1. merge[n].current \in MergeVersionNumbers
      BY <2>1, MergeConstants DEF MergeTypeOK, Merge, MergeVersionNumbers
    <3> QED BY <2>1, <3>1, <1>2, <1>3 DEF MergePointer
  <2>2. ASSUME NEW n \in Merges, NEW u \in MergeVersionNumbers,
               mergeVersions'[n][u].status = "published"
        PROVE  merge[n].current = u
    BY <2>2, <1>2, <1>3 DEF MergePointer
  <2> QED BY <2>1, <2>2, <1>1 DEF MergePointer
<1>6. OpenIsAcknowledged' /\ CounterCoversOpen'
  <2> SUFFICES ASSUME NEW n \in Merges, NEW u \in MergeVersionNumbers
               PROVE  LET r == mergeVersions'[n][u] IN
                      /\ r.status = "published" /\ OpenCandidates(r) # {} => r.acknowledged
                      /\ r.status # "none" /\ r.unresolved = 0 => OpenCandidates(r) = {}
    BY DEF OpenIsAcknowledged, CounterCoversOpen, OpenCandidates
  <2>1. CASE mergeVersions'[n][u] = mergeVersions[n][u]
    BY <2>1 DEF OpenIsAcknowledged, CounterCoversOpen
  <2>2. CASE mergeVersions'[n][u] # mergeVersions[n][u]
    <3>1. /\ mergeVersions'[n][u] = out(n, u)
          /\ mergeVersions[n][u].status # "none"
      BY <2>2, <1>3
    <3>2. mergeVersions[n][u].unresolved = 0 => OpenCandidates(mergeVersions[n][u]) = {}
      BY <3>1 DEF CounterCoversOpen
    <3> QED BY <3>1, <3>2, <1>2
  <2> QED BY <2>1, <2>2
<1>7. DependentsWerePublished'
  <2>1. ASSUME NEW x \in Workers, NEW d \in dependents'[x]
        PROVE  mergeVersions'[d[1]][d[2]].status \in {"published", "superseded", "invalidated"}
    <3>1. d \in dependents[x]
      BY <1>1 DEF MergeTypeOK
    <3>2. d[1] \in Merges /\ d[2] \in MergeVersionNumbers
      BY <3>1 DEF MergeTypeOK
    <3>3. mergeVersions[d[1]][d[2]].status \in {"published", "superseded", "invalidated"}
      BY <3>1 DEF DependentsWerePublished
    <3> QED BY <3>2, <3>3, <1>2, <1>3
  <2> QED BY <2>1 DEF DependentsWerePublished
<1>8. MergeCallsAgree'
  <2> SUFFICES ASSUME NEW p \in Reviewers, mergeCall[p].pc = "publish"
               PROVE  MergeCallAgrees(p)'
    BY <1>1 DEF MergeCallsAgree
  <2> DEFINE n == mergeCall[p].merge
             v == mergeCall[p].version
             c == merge[n].current
  <2>1. MergeCallAgrees(p) /\ n \in Merges /\ v \in MergeVersionNumbers
        /\ mergeVersions[n][v].status = "draft"
    BY DEF MergeCallsAgree, MergeCallAgrees
  <2>2. mergeVersions'[n][v] = mergeVersions[n][v]
    BY <2>1, <1>3
  <2>3. c # 0 /\ mergeVersions[n][c].status = "invalidated"
          => mergeVersions'[n][c].status = "invalidated"
    <3>1. c # 0 => c \in MergeVersionNumbers
      BY <2>1, MergeConstants DEF MergeTypeOK, Merge, MergeVersionNumbers
    <3> QED BY <2>1, <3>1, <1>2, <1>3
  <2>4. mergeCall[p].was = "invalidated" => c # 0
    BY <2>1 DEF MergeCallAgrees
  <2> QED BY <1>1, <2>1, <2>2, <2>3, <2>4 DEF MergeCallAgrees, OpenCandidates
<1> QED BY <1>4, <1>5, <1>6, <1>7, <1>8

\* Every step of the graph streams, the workers and the merge endpoints.
LEMMA MergeStepAgrees == MergesAgree /\ [MergeNext]_<<vars, mergeVars>> => MergesAgree'
<1> SUFFICES ASSUME MergesAgree, [MergeNext]_<<vars, mergeVars>> PROVE MergesAgree'
  OBVIOUS
<1>1. ASSUME UNCHANGED mergeVars PROVE MergesAgree'
  <2>1. /\ merge' = merge /\ mergeVersions' = mergeVersions
        /\ mergeCall' = mergeCall /\ dependents' = dependents
    BY <1>1 DEF mergeVars
  <2>2. MergeTypeOK'
    BY <2>1 DEF MergesAgree, MergeTypeOK
  <2>3. MergePointer' /\ OpenIsAcknowledged' /\ CounterCoversOpen' /\ DependentsWerePublished'
    BY <2>1 DEF MergesAgree, MergePointer, OpenIsAcknowledged, CounterCoversOpen,
       DependentsWerePublished, OpenCandidates
  <2>4. MergeCallsAgree'
    BY <2>1 DEF MergesAgree, MergeCallsAgree, MergeCallAgrees, OpenCandidates
  <2> QED BY <2>2, <2>3, <2>4 DEF MergesAgree
<1>2. ASSUME NEW w \in Workers, RefreshStep(w) PROVE MergesAgree'
  <2>1. CASE SyncAndSelect(w)
    <3> DEFINE chosen == IF job'[w].pc = "synced" THEN Dependents(job[w].res, job'[w].version)
                                                   ELSE {}
    <3>1. /\ dependents' = [dependents EXCEPT ![w] = chosen]
          /\ UNCHANGED <<merge, mergeVersions, mergeCall>>
      BY <2>1 DEF SyncAndSelect
    <3>2. /\ chosen \in SUBSET (Merges \X MergeVersionNumbers)
          /\ \A d \in chosen : mergeVersions[d[1]][d[2]].status = "published"
      BY DEF Dependents
    <3> HIDE DEF chosen
    <3> QED BY <3>1, <3>2, SelectionAgrees
  <2>2. CASE CommitAndInvalidate(w)
    BY <2>2, CommitAgrees
  <2>3. CASE FailWithDependents(w)
    <3>1. /\ dependents' = [dependents EXCEPT ![w] = {}]
          /\ UNCHANGED <<merge, mergeVersions, mergeCall>>
      BY <2>3 DEF FailWithDependents
    <3> QED BY <3>1, SelectionAgrees
  <2> QED BY <1>2, <2>1, <2>2, <2>3 DEF RefreshStep
<1>3. ASSUME NEW q \in Reviewers, MergeCallStep(q) PROVE MergesAgree'
  <2> USE DEF MergesAgree
  <2>1. mergeCall[q].pc \in {"compile", "insert"}
          => mergeCall[q].inputs \in [Resources -> 0..MaxVersion]
    BY DEF MergeTypeOK, MergeCall
  <2>2. ASSUME NEW m \in Merges, NEW inputs \in [Resources -> 0..MaxVersion],
               ResolveInputs(q, m, inputs)
        PROVE  MergesAgree'
    <3> DEFINE new == [IdleCall EXCEPT !.pc = "compile", !.merge = m, !.inputs = inputs]
    <3>1. IdleCall \in MergeCall
      BY MergeConstants, GraphConstants DEF IdleCall, MergeCall, NoInputs
    <3>2. new \in MergeCall /\ new.pc # "publish" /\ new.merge \in Merges
      BY <3>1 DEF MergeCall
    <3>3. /\ mergeCall' = [mergeCall EXCEPT ![q] = new]
          /\ UNCHANGED <<merge, mergeVersions, dependents>>
      BY <2>2 DEF ResolveInputs
    <3> HIDE DEF new, MergesAgree
    <3> QED BY <3>2, <3>3, ReadingCallAgrees
  <2>3. CASE FindNoMerge(q)
    <3> DEFINE new == [mergeCall[q] EXCEPT !.pc = "insert"]
    <3>1. mergeCall[q].pc = "compile"
      BY <2>3 DEF FindNoMerge
    <3>2. new \in MergeCall /\ new.pc # "publish" /\ new.merge \in Merges
      BY <3>1 DEF MergeTypeOK, MergeCall
    <3>3. /\ mergeCall' = [mergeCall EXCEPT ![q] = new]
          /\ UNCHANGED <<merge, mergeVersions, dependents>>
      BY <2>3 DEF FindNoMerge, MergeTypeOK
    <3> HIDE DEF new, MergesAgree
    <3> QED BY <3>2, <3>3, ReadingCallAgrees
  <2>4. CASE CompileMerge(q)
    <3> DEFINE m == mergeCall[q].merge
               inputs == mergeCall[q].inputs
    <3>1. /\ mergeCall[q].pc = "compile"
          /\ DraftMerge(m, inputs) \/ UNCHANGED mergeVersions
          /\ FinishMergeCall(q) /\ UNCHANGED <<merge, dependents>>
      BY <2>4 DEF CompileMerge
    <3>2. m \in Merges /\ inputs \in [Resources -> 0..MaxVersion] /\ merge \in [Merges -> Merge]
      BY <3>1, <2>1 DEF MergeTypeOK
    <3> HIDE DEF m, inputs, MergesAgree
    <3> QED BY <3>1, <3>2, DraftingAgrees
  <2>5. CASE InsertMerge(q)
    <3> DEFINE inputs == mergeCall[q].inputs
    <3>1. mergeCall[q].pc = "insert" /\ FinishMergeCall(q) /\ UNCHANGED dependents
      BY <2>5 DEF InsertMerge
    <3>2. PICK m \in InsertKeys(mergeCall[q].merge) :
            /\ DraftMerge(m, inputs)
            /\ merge' = [merge EXCEPT ![m].status = IF @ = "none" THEN "active" ELSE @]
      BY <2>5 DEF InsertMerge
    <3>3. m \in Merges /\ inputs \in [Resources -> 0..MaxVersion]
      BY <3>1, <2>1 DEF MergeTypeOK, InsertKeys
    <3>4. /\ merge' \in [Merges -> Merge]
          /\ \A n \in Merges : merge'[n].current = merge[n].current
      BY <3>2, <3>3 DEF MergeTypeOK, Merge
    <3> HIDE DEF inputs, MergesAgree
    <3> QED BY <3>1, <3>2, <3>3, <3>4, DraftingAgrees
  <2> HIDE DEF MergesAgree
  <2>6. ASSUME NEW m \in Merges, NEW v \in MergeVersionNumbers, CheckMerge(q, m, v)
        PROVE  MergesAgree'
    BY <2>6, CheckAgrees
  <2>7. CASE PublishMerge(q)
    BY <2>7, PublishAgrees
  <2> QED BY <1>3, <2>2, <2>3, <2>4, <2>5, <2>6, <2>7 DEF MergeCallStep
<1>4. ASSUME NEW m \in Merges, MergeRowStep(m), UNCHANGED vars PROVE MergesAgree'
  <2>1. ASSUME NEW v \in MergeVersionNumbers, InvalidateMergeVersion(m, v) PROVE MergesAgree'
    BY <1>4, <2>1, InvalidateAgrees
  <2>2. ASSUME NEW v \in MergeVersionNumbers, NEW c \in Candidates,
               ReviewCandidate(m, v, c)
        PROVE  MergesAgree'
    BY <2>2, ReviewAgrees
  <2>3. CASE ArchiveMerge(m)
    BY <2>3, ArchiveAgrees
  <2> QED BY <1>4, <2>1, <2>2, <2>3 DEF MergeRowStep
<1> QED BY <1>1, <1>2, <1>3, <1>4 DEF MergeNext, StreamStep

-----------------------------------------------------------------------------
(* Theorems *)

\* The inductive invariant holds in every reachable state: types, pointers,
\* acknowledgements, and what calls and refreshes under way rely on.
THEOREM MergesAlwaysAgree == MergeSpec => []MergesAgree
BY MergeInitAgrees, MergeStepAgrees, PTL DEF MergeSpec

\* A merge's current version is published or was invalidated by a refresh, and
\* no other version of it is published.
THEOREM PointerAlwaysHolds == MergeSpec => []MergePointer
<1>1. MergesAgree => MergePointer
  BY DEF MergesAgree
<1> QED BY <1>1, MergesAlwaysAgree, PTL

\* A merge published over an open candidate was acknowledged as such.
THEOREM OpenAlwaysAcknowledged == MergeSpec => []OpenIsAcknowledged
<1>1. MergesAgree => OpenIsAcknowledged
  BY DEF MergesAgree
<1> QED BY <1>1, MergesAlwaysAgree, PTL
=============================================================================
