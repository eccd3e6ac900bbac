-------------------------- MODULE IndexRunsProofs ---------------------------
(***************************************************************************)
(* Proofs about IndexRuns: IInv (module IndexRunsInvariant) is inductive   *)
(* whatever the constants are, as long as an enqueue that raises has not   *)
(* stored the job; the safety properties follow from it.                   *)
(*                                                                         *)
(* Each step lemma first says what its action does to the tables, one row  *)
(* at a time, and then treats the conjuncts of IInv the action disturbs.   *)
(***************************************************************************)
EXTENDS IndexRunsInvariant, TLAPS

-----------------------------------------------------------------------------
(* What the helper operators do to one variable *)

\* Finish ends call q and no other.
LEMMA FinishFacts ==
  ASSUME TypeOK, NEW q \in Requests, Finish(q)
  PROVE  /\ call' \in [Requests -> Call]
         /\ call'[q].pc = "done"
         /\ \A p \in Requests : p # q => call'[p] = call[p]
<1>1. Blank("done") \in Call
  BY DEF Blank, Call, EmptyRow, Row, NoWant, Want, AllFrequencies, AllOps
<1>2. Blank("done").pc = "done"
  BY DEF Blank
<1>3. call \in [Requests -> Call]
  BY DEF TypeOK
<1> QED BY <1>1, <1>2, <1>3 DEF Finish

\* SetRun writes the status of one run.
LEMMA SetRunFacts ==
  ASSUME TypeOK, NEW n \in Runs, NEW status \in RunStatus, SetRun(n, status)
  PROVE  /\ runs' \in [Runs -> Run]
         /\ runs'[n].res = runs[n].res /\ runs'[n].status = status
         /\ \A m \in Runs : m # n => runs'[m] = runs[m]
<1>1. runs \in [Runs -> Run]
  BY DEF TypeOK
<1> QED BY <1>1 DEF SetRun, Run

\* A changed column holds what was asked for or what was stored.
LEMMA ChangedFacts ==
  \A loaded, wanted, stored :
     /\ Changed(loaded, wanted, stored) \in {wanted, stored}
     /\ ChangedNext(loaded, wanted, stored) \in {wanted, stored}
BY DEF Changed, ChangedNext

\* A lifecycle call rewrites a stored row into a stored row of the same snapshot.
LEMMA RewrittenFacts ==
  ASSUME NEW c \in Call, NEW row \in Row, row.status \notin {"absent", "purged"},
         NEW new \in Rewritten(c, row)
  PROVE  /\ new \in Row
         /\ new.status \notin {"absent", "purged"}
         /\ new.snap = row.snap
<1> DEFINE St == {"active", "failed", "error", "archived", "deleted"}
           Nx == {"unset", "future", "due"}
<1>1. /\ row.status \in St /\ row.archived \in BOOLEAN /\ row.deleted \in BOOLEAN
      /\ row.retrieval \in BOOLEAN /\ row.freq \in AllFrequencies
      /\ row.next \in Nx /\ row.snap \in Runs \cup {NoRun}
  BY DEF Row
<1>3. CASE c.op = "archive"
  <2>1. new = Archived(row, c.seen)
    BY <1>3 DEF Rewritten
  <2>2. new = [row EXCEPT !.status = Changed(c.seen.status, "archived", row.status),
                          !.archived = TRUE, !.deleted = row.deleted,
                          !.retrieval = Changed(c.seen.retrieval, FALSE, row.retrieval),
                          !.freq = row.freq,
                          !.next = Changed(c.seen.next, "unset", row.next)]
    BY <2>1, <1>1 DEF Archived, Row
  <2>3. /\ Changed(c.seen.status, "archived", row.status) \in St
        /\ Changed(c.seen.retrieval, FALSE, row.retrieval) \in BOOLEAN
        /\ Changed(c.seen.next, "unset", row.next) \in Nx
    <3>1. Changed(c.seen.status, "archived", row.status) \in St
      BY <1>1, ChangedFacts
    <3>2. Changed(c.seen.retrieval, FALSE, row.retrieval) \in BOOLEAN
      BY <1>1, Zenon DEF Changed, ChangedNext
    <3>3. Changed(c.seen.next, "unset", row.next) \in Nx
      BY <1>1, ChangedFacts
    <3> QED BY <3>1, <3>2, <3>3
  <2> QED BY <2>2, <2>3, <1>1 DEF Row
<1>4. CASE c.op = "delete"
  <2>1. new = Deleted(row, c.seen)
    BY <1>4 DEF Rewritten
  <2>2. new = [row EXCEPT !.status = Changed(c.seen.status, "deleted", row.status),
                          !.archived = Changed(c.seen.archived, TRUE, row.archived),
                          !.deleted = TRUE,
                          !.retrieval = Changed(c.seen.retrieval, FALSE, row.retrieval),
                          !.freq = row.freq,
                          !.next = Changed(c.seen.next, "unset", row.next)]
    BY <2>1, <1>1 DEF Deleted, Row
  <2>3. /\ Changed(c.seen.status, "deleted", row.status) \in St
        /\ Changed(c.seen.archived, TRUE, row.archived) \in BOOLEAN
        /\ Changed(c.seen.retrieval, FALSE, row.retrieval) \in BOOLEAN
        /\ Changed(c.seen.next, "unset", row.next) \in Nx
    <3>1. Changed(c.seen.status, "deleted", row.status) \in St
      BY <1>1, ChangedFacts
    <3>2. Changed(c.seen.archived, TRUE, row.archived) \in BOOLEAN
      BY <1>1, Zenon DEF Changed, ChangedNext
    <3>3. Changed(c.seen.retrieval, FALSE, row.retrieval) \in BOOLEAN
      BY <1>1, Zenon DEF Changed, ChangedNext
    <3>4. Changed(c.seen.next, "unset", row.next) \in Nx
      BY <1>1, ChangedFacts
    <3> QED BY <3>1, <3>2, <3>3, <3>4
  <2> QED BY <2>2, <2>3, <1>1, ZenonT(60) DEF Row
<1>5. CASE c.op = "restore"
  <2>1. PICK next \in Nx : new = Restored(row, c.seen, next)
    BY <1>5 DEF Rewritten, NextOf
  <2> DEFINE status == Changed(c.seen.status, "active", row.status)
             archived == Changed(c.seen.archived, FALSE, row.archived)
             deleted == Changed(c.seen.deleted, FALSE, row.deleted)
             retrieval == Changed(c.seen.retrieval, TRUE, row.retrieval)
             nxt == ChangedNext(c.seen.next, next, row.next)
  <2>2. new = [row EXCEPT !.status = status, !.archived = archived, !.deleted = deleted,
                          !.retrieval = retrieval, !.freq = row.freq, !.next = nxt]
    BY <2>1, <1>1 DEF Restored, Row
  <2>3. status \in St
    BY <1>1, ChangedFacts
  <2>4. archived \in BOOLEAN
    BY <1>1, Zenon DEF Changed
  <2>5. deleted \in BOOLEAN
    BY <1>1, Zenon DEF Changed
  <2>6. retrieval \in BOOLEAN
    BY <1>1, Zenon DEF Changed
  <2>7. nxt \in Nx
    BY <1>1, <2>1, ChangedFacts
  <2> HIDE DEF status, archived, deleted, retrieval, nxt
  <2> QED BY <2>2, <2>3, <2>4, <2>5, <2>6, <2>7, <1>1, ZenonT(60) DEF Row
<1>6. CASE c.op \notin {"archive", "delete", "restore"}
  <2>1. PICK next \in Nx : new = Updated(row, c.seen, c.want, next)
    BY <1>6 DEF Rewritten, NextOf
  <2> DEFINE retrieval == IF c.want.retrieval = "keep" THEN row.retrieval
                          ELSE Changed(c.seen.retrieval, c.want.retrieval = "on", row.retrieval)
             freq == IF c.want.freq \in Frequencies
                       THEN Changed(c.seen.freq, c.want.freq, row.freq) ELSE row.freq
             nxt == IF c.want.freq = "keep" THEN row.next
                    ELSE ChangedNext(c.seen.next, next, row.next)
  <2>2. new = [row EXCEPT !.status = row.status, !.archived = row.archived,
                          !.deleted = row.deleted,
                          !.retrieval = retrieval, !.freq = freq, !.next = nxt]
    BY <2>1, <1>1 DEF Updated, Row
  <2>3. retrieval \in BOOLEAN
    <3>1. (c.want.retrieval = "on") \in BOOLEAN
      OBVIOUS
    <3>2. Changed(c.seen.retrieval, c.want.retrieval = "on", row.retrieval) \in BOOLEAN
      BY <3>1, <1>1, Zenon DEF Changed
    <3> QED BY <3>2, <1>1
  <2>4. freq \in AllFrequencies
    <3>1. CASE c.want.freq \in Frequencies
      <4>1. c.want.freq \in AllFrequencies
        BY <3>1, ConstantsAssumption
      <4> QED BY <3>1, <4>1, <1>1, ChangedFacts
    <3> QED BY <3>1, <1>1
  <2>5. nxt \in Nx
    <3>1. ChangedNext(c.seen.next, next, row.next) \in Nx
      BY <1>1, ChangedFacts
    <3> QED BY <3>1, <1>1
  <2> HIDE DEF retrieval, freq, nxt
  <2> QED BY <2>2, <2>3, <2>4, <2>5, <1>1 DEF Row
<1> QED BY <1>3, <1>4, <1>5, <1>6

-----------------------------------------------------------------------------
(* API calls that create resources and runs *)

\* CreateResource keeps the invariant: a new row has no run and no snapshot.
LEMMA CreateResourceStep ==
  ASSUME IInv, NEW r \in Resources, CreateResource(r)
  PROVE  IInv'
<1> USE DEF IInv
<1>1. UNCHANGED <<runs, queue, lock, call, job, scan>>
  BY DEF CreateResource
<1>2. /\ rows' \in [Resources -> Row]
      /\ rows[r].status = "absent" /\ rows'[r].status = "active" /\ rows'[r].snap = NoRun
      /\ \A x \in Resources : x # r => rows'[x] = rows[x]
  <2>1. PICK freq \in Frequencies :
          rows' = [rows EXCEPT ![r] = [EmptyRow("active") EXCEPT
                                         !.freq = freq, !.next = NextAfterRefresh(freq)]]
    BY DEF CreateResource
  <2>2. freq \in AllFrequencies
    BY ConstantsAssumption
  <2>3. NextAfterRefresh(freq) \in {"unset", "future", "due"}
    BY DEF NextAfterRefresh
  <2> DEFINE new == [EmptyRow("active") EXCEPT !.freq = freq, !.next = NextAfterRefresh(freq)]
  <2>4. new \in Row /\ new.status = "active" /\ new.snap = NoRun
    BY <2>2, <2>3 DEF EmptyRow, Row
  <2> HIDE DEF new
  <2>5. rows \in [Resources -> Row] /\ rows[r].status = "absent"
    BY DEF TypeOK, CreateResource
  <2>6. rows' = [rows EXCEPT ![r] = new]
    BY <2>1 DEF new
  <2> QED BY <2>4, <2>5, <2>6
<1>3. TypeOK'
  BY <1>1, <1>2 DEF TypeOK
<1>4. References'
  BY <1>1, <1>2 DEF References
<1>5. Locking'
  <2>1. \A x \in Resources : Present(x) => rows'[x] = rows[x]
    BY <1>2 DEF Present
  <2>2. \A w \in Workers : job[w].pc = "ingesting" => runs[job[w].run].res \in Resources
    BY DEF References
  <2> QED BY <1>1, <2>1, <2>2 DEF Locking, Present, Inactive
<1>6. Carriers' /\ Progress' /\ OneRunPerBundle' /\ OneLiveRun'
  BY <1>1 DEF Carriers, Progress, OneRunPerBundle, OneLiveRun
<1>7. PurgedRuns'
  BY <1>1, <1>2 DEF PurgedRuns, References
<1>8. LostToPurge'
  BY <1>1, <1>2 DEF LostToPurge, References
<1> QED BY <1>3, <1>4, <1>5, <1>6, <1>7, <1>8

\* UploadFolderBundle keeps the invariant: row and run appear together, the call
\* carries the run.
LEMMA UploadFolderBundleStep ==
  ASSUME IInv, NEW q \in Requests, NEW r \in Resources, NEW n \in Runs,
         UploadFolderBundle(q, r, n)
  PROVE  IInv'
<1> USE DEF IInv
<1>1. UNCHANGED <<queue, lock, job, scan>>
  BY DEF UploadFolderBundle
<1>2. /\ rows' \in [Resources -> Row]
      /\ rows[r].status = "absent" /\ rows'[r].status = "active" /\ rows'[r].snap = NoRun
      /\ \A x \in Resources : x # r => rows'[x] = rows[x]
  BY DEF UploadFolderBundle, TypeOK, EmptyRow, Row, AllFrequencies
<1>3. /\ runs' \in [Runs -> Run]
      /\ runs[n].status = "none"
      /\ runs'[n].status = "enqueueing" /\ runs'[n].res = r
      /\ \A m \in Runs : m # n => runs'[m] = runs[m]
  BY DEF UploadFolderBundle, TypeOK, Run, RunStatus, Active
<1>4. /\ call' \in [Requests -> Call]
      /\ call[q].pc = "new" /\ call'[q].pc = "enqueue" /\ call'[q].op = "upload"
      /\ call'[q].res = r /\ call'[q].run = n
      /\ \A p \in Requests : p # q => call'[p] = call[p]
  <2> DEFINE new == [call[q] EXCEPT !.pc = "enqueue", !.op = "upload", !.res = r, !.run = n]
  <2>1. call[q] \in Call /\ call \in [Requests -> Call] /\ call[q].pc = "new"
    BY DEF UploadFolderBundle, TypeOK
  <2>2. "upload" \in AllOps \cup {"none"}
    BY DEF AllOps
  <2>3. new \in Call
    BY <2>1, <2>2 DEF Call
  <2>4. new.pc = "enqueue" /\ new.op = "upload" /\ new.res = r /\ new.run = n
    BY <2>1 DEF Call
  <2>5. call' = [call EXCEPT ![q] = new]
    BY <2>1 DEF UploadFolderBundle
  <2> HIDE DEF new
  <2> QED BY <2>1, <2>3, <2>4, <2>5
<1>5. r \in Bundles /\ \A m \in Runs : runs[m].status # "none" => runs[m].res # r
  BY <1>2 DEF UploadFolderBundle, References
<1>6. TypeOK'
  BY <1>1, <1>2, <1>3, <1>4 DEF TypeOK
<1>7. References'
  BY <1>1, <1>2, <1>3, <1>4, <1>5 DEF References
<1>8. Locking'
  <2>1. \A m \in Runs : runs'[m].status = "flushed" => runs'[m] = runs[m]
    BY <1>3
  <2>2. \A w \in Workers : job[w].pc # "idle" => runs'[job[w].run] = runs[job[w].run]
    BY <1>3 DEF References
  <2>3. \A x \in Resources : Present(x) => rows'[x] = rows[x]
    BY <1>2 DEF Present
  <2>4. \A w \in Workers : job[w].pc = "ingesting" => runs[job[w].run].res \in Resources
    BY DEF References
  <2> QED BY <1>1, <2>1, <2>2, <2>3, <2>4 DEF Locking, Present, Inactive
<1>9. Carriers'
  BY <1>1, <1>3, <1>4 DEF Carriers, References, Progress
<1>10. Progress'
  BY <1>1, <1>3, <1>4 DEF Progress, References
<1>11. OneRunPerBundle'
  BY <1>3, <1>5 DEF OneRunPerBundle
<1>12. PurgedRuns'
  BY <1>2, <1>3, <1>5 DEF PurgedRuns, References
<1>13. OneLiveRun'
  BY <1>3, <1>5 DEF OneLiveRun, Live, Active
<1>14. LostToPurge'
  BY <1>1, <1>2, <1>3 DEF LostToPurge, References
<1> QED BY <1>6, <1>7, <1>8, <1>9, <1>10, <1>11, <1>12, <1>13, <1>14

\* ResolveForRefresh keeps the invariant: it only notes which row the call found.
LEMMA ResolveForRefreshStep ==
  ASSUME IInv, NEW q \in Requests, NEW r \in Resources, ResolveForRefresh(q, r)
  PROVE  IInv'
<1> USE DEF IInv
<1>1. UNCHANGED <<rows, runs, queue, lock, job, scan>>
  BY DEF ResolveForRefresh
<1>2. /\ call' \in [Requests -> Call]
      /\ call'[q].pc = "claim" /\ call'[q].op = "refresh" /\ call'[q].res = r
      /\ \A p \in Requests : p # q => call'[p] = call[p]
  <2> DEFINE new == [call[q] EXCEPT !.pc = "claim", !.op = "refresh", !.res = r]
  <2>1. call[q] \in Call /\ call \in [Requests -> Call]
    BY DEF TypeOK
  <2>2. "refresh" \in AllOps \cup {"none"}
    BY DEF AllOps
  <2>3. new \in Call
    BY <2>1, <2>2 DEF Call
  <2>4. new.pc = "claim" /\ new.op = "refresh" /\ new.res = r
    BY <2>1 DEF Call
  <2>5. call' = [call EXCEPT ![q] = new]
    BY <2>1 DEF ResolveForRefresh
  <2> HIDE DEF new
  <2> QED BY <2>1, <2>3, <2>4, <2>5
<1>3. TypeOK' /\ References' /\ Locking'
  BY <1>1, <1>2 DEF TypeOK, References, Locking, Present
<1>4. Carriers' /\ Progress'
  BY <1>1, <1>2 DEF Carriers, Progress
<1>5. OneRunPerBundle' /\ PurgedRuns' /\ OneLiveRun'
  BY <1>1 DEF OneRunPerBundle, PurgedRuns, OneLiveRun
<1>6. LostToPurge'
  BY <1>1 DEF LostToPurge
<1> QED BY <1>3, <1>4, <1>5, <1>6

\* Calls whose progress alone changes, to an end or to a plain write.
LEMMA CallOnlyStep ==
  ASSUME IInv, NEW q \in Requests, UNCHANGED <<rows, runs, queue, lock, job, scan>>,
         call' \in [Requests -> Call],
         call'[q].pc \in {"done", "write"}, call'[q].pc = "write" => call'[q].res \in Resources,
         \A p \in Requests : p # q => call'[p] = call[p]
  PROVE  IInv'
<1> USE DEF IInv
<1>1. TypeOK' /\ References' /\ Locking'
  BY DEF TypeOK, References, Locking, Present
<1>2. Carriers' /\ Progress'
  BY DEF Carriers, Progress
<1>3. OneRunPerBundle' /\ PurgedRuns' /\ OneLiveRun'
  BY DEF OneRunPerBundle, PurgedRuns, OneLiveRun
<1>4. LostToPurge'
  BY DEF LostToPurge
<1> QED BY <1>1, <1>2, <1>3, <1>4

\* ClaimRefresh keeps the invariant: it inserts a run only when the resource has
\* none that is live, because the row lock excludes a scheduler with a flushed run.
LEMMA ClaimRefreshStep ==
  ASSUME IInv, NEW q \in Requests, ClaimRefresh(q)
  PROVE  IInv'
<1> DEFINE r == call[q].res
<1> USE DEF IInv
<1>0. r \in Resources /\ call[q].pc = "claim" /\ lock[r] = Nobody
  BY DEF ClaimRefresh, References
<1>1. CASE Finish(q) /\ UNCHANGED runs
  BY <1>1, FinishFacts, CallOnlyStep DEF ClaimRefresh
<1>2. CASE /\ Present(r) /\ ~HasActiveRun(r) /\ r \notin Bundles
           /\ \E n \in Runs :
                /\ runs[n].status = "none"
                /\ runs' = [runs EXCEPT ![n] =
                             [status |-> "enqueueing", res |-> r, trigger |-> "manual"]]
                /\ call' = [call EXCEPT ![q].pc = "enqueue", ![q].run = n]
  <2>1. PICK n \in Runs :
          /\ runs[n].status = "none"
          /\ runs' = [runs EXCEPT ![n] =
                       [status |-> "enqueueing", res |-> r, trigger |-> "manual"]]
          /\ call' = [call EXCEPT ![q].pc = "enqueue", ![q].run = n]
    BY <1>2
  <2>2. UNCHANGED <<rows, queue, lock, job, scan>>
    BY DEF ClaimRefresh
  <2>3. /\ runs' \in [Runs -> Run]
        /\ runs'[n].status = "enqueueing" /\ runs'[n].res = r
        /\ \A m \in Runs : m # n => runs'[m] = runs[m]
    BY <2>1, <1>0 DEF TypeOK, Run, RunStatus, Active
  <2>4. /\ call' \in [Requests -> Call]
        /\ call'[q].pc = "enqueue" /\ call'[q].run = n
        /\ call'[q].res = r /\ call'[q].op = call[q].op
        /\ \A p \in Requests : p # q => call'[p] = call[p]
    BY <2>1, ZenonT(60) DEF TypeOK, Call
  <2>5. ~\E m \in Runs : runs[m].res = r /\ runs[m].status \in Live
    BY <1>0, <1>2, ConstantsAssumption DEF HasActiveRun, Live, Locking
  <2>6. TypeOK'
    BY <2>2, <2>3, <2>4 DEF TypeOK
  <2>7. References'
    BY <1>0, <1>2, <2>1, <2>2, <2>3, <2>4 DEF References, Present
  <2>8. Locking'
    <3>1. \A m \in Runs : runs'[m].status = "flushed" => runs'[m] = runs[m]
      BY <2>3
    <3>2. \A w \in Workers : job[w].pc # "idle" => runs'[job[w].run] = runs[job[w].run]
      BY <2>1, <2>3 DEF References
    <3> QED BY <2>2, <3>1, <3>2 DEF Locking, Present
  <2>9. Carriers'
    BY <2>1, <2>2, <2>4 DEF Carriers, References, Progress
  <2>10. Progress'
    BY <1>0, <2>1, <2>2, <2>3, <2>4 DEF Progress, References
  <2>11. OneRunPerBundle'
    BY <1>2, <2>2, <2>3, <2>4 DEF OneRunPerBundle
  <2>12. PurgedRuns'
    BY <1>2, <2>1, <2>2, <2>3, <2>4 DEF PurgedRuns, Present
  <2>13. OneLiveRun'
    BY <2>3, <2>5 DEF OneLiveRun
  <2>14. LostToPurge'
    BY <2>1, <2>2, <2>3 DEF LostToPurge, References
  <2> QED BY <2>6, <2>7, <2>8, <2>9, <2>10, <2>11, <2>12, <2>13, <2>14
<1> QED BY <1>1, <1>2 DEF ClaimRefresh

\* Enqueue keeps the invariant: the call hands its run to the queue, or keeps it.
LEMMA EnqueueStep ==
  ASSUME IInv, NoAmbiguousEnqueue, NEW q \in Requests, Enqueue(q)
  PROVE  IInv'
<1> DEFINE n == call[q].run
<1> USE DEF IInv
<1>1. UNCHANGED <<rows, runs, lock, job, scan>>
  BY DEF Enqueue
<1>2. call[q].pc = "enqueue" /\ n \in Runs
  BY DEF Enqueue, References
<1>3. /\ queue' \in {queue, queue \cup {n}}
      /\ call'[q].pc = IF queue' = queue THEN "abort" ELSE "confirm"
      /\ call'[q].op = call[q].op /\ call'[q].res = call[q].res /\ call'[q].run = n
      /\ \A p \in Requests : p # q => call'[p] = call[p]
      /\ call' \in [Requests -> Call]
  <2>1. n \notin queue
    BY <1>2 DEF Carriers
  <2> QED BY <1>2, <2>1 DEF Enqueue, NoAmbiguousEnqueue, TypeOK, Call
<1>4. TypeOK'
  BY <1>1, <1>2, <1>3 DEF TypeOK
<1>5. References'
  BY <1>1, <1>2, <1>3 DEF References
<1>6. Locking' /\ OneRunPerBundle' /\ PurgedRuns' /\ OneLiveRun'
  BY <1>1 DEF Locking, Present, OneRunPerBundle, PurgedRuns, OneLiveRun
<1>7. Carriers'
  BY <1>1, <1>2, <1>3 DEF Carriers
<1>8. Progress'
  BY <1>1, <1>2, <1>3 DEF Progress
<1>9. LostToPurge'
  BY <1>1 DEF LostToPurge
<1> QED BY <1>4, <1>5, <1>6, <1>7, <1>8, <1>9

\* ConfirmEnqueued keeps the invariant.  The upload handler may write "queued" over
\* a finished run: its bundle has no other run.
LEMMA ConfirmEnqueuedStep ==
  ASSUME IInv, NEW q \in Requests, ConfirmEnqueued(q)
  PROVE  IInv'
<1> DEFINE n == call[q].run
<1> USE DEF IInv
<1>1. UNCHANGED <<rows, queue, lock, job, scan>>
  BY DEF ConfirmEnqueued
<1>2. call[q].pc = "confirm" /\ n \in Runs /\ runs[n].res = call[q].res
  BY DEF ConfirmEnqueued, References
<1>3. /\ call' \in [Requests -> Call]
      /\ call'[q].pc = "done"
      /\ \A p \in Requests : p # q => call'[p] = call[p]
  BY FinishFacts DEF ConfirmEnqueued
<1>4. CASE UNCHANGED runs
  BY <1>1, <1>3, <1>4, CallOnlyStep
<1>5. CASE SetRun(n, "queued") /\ (runs[n].status = "enqueueing"
                                     \/ (call[q].op = "upload" /\ Visible(n)))
  <2>1. /\ runs' \in [Runs -> Run]
        /\ runs'[n].res = runs[n].res /\ runs'[n].status = "queued"
        /\ \A m \in Runs : m # n => runs'[m] = runs[m]
    BY <1>2, <1>5, SetRunFacts DEF RunStatus, Active
  <2>2. Visible(n) /\ (runs[n].status = "enqueueing" \/ runs[n].res \in Bundles)
    BY <1>2, <1>5 DEF References, Visible
  <2>3. TypeOK'
    BY <1>1, <1>3, <2>1 DEF TypeOK
  <2>4. References'
    BY <1>1, <1>2, <1>3, <2>1, <2>2 DEF References, Visible
  <2>5. Locking'
    <3>1. \A m \in Runs : runs'[m].status = "flushed" => runs'[m] = runs[m]
      BY <2>1
    <3>2. \A m \in Runs : runs'[m].res = runs[m].res
                            /\ (runs[m].status \in Active => runs'[m].status \in Active)
      BY <2>1 DEF Active
    <3> QED BY <1>1, <3>1, <3>2 DEF Locking, Present, References
  <2>6. Carriers'
    BY <1>1, <1>3 DEF Carriers
  <2>7. Progress'
    BY <1>1, <1>2, <1>3, <2>1 DEF Progress, Carriers, References
  <2>8. OneRunPerBundle'
    BY <1>2, <2>1, <2>2 DEF OneRunPerBundle, Visible
  <2>9. PurgedRuns'
    BY <1>1, <1>2, <2>1, <2>2 DEF PurgedRuns, Visible
  <2>10. OneLiveRun'
    BY <1>2, <2>1, <2>2 DEF OneLiveRun, OneRunPerBundle, Live, Active, Visible
  <2>11. LostToPurge'
    BY <1>1, <1>2, <2>1 DEF LostToPurge, References
  <2> QED BY <2>3, <2>4, <2>5, <2>6, <2>7, <2>8, <2>9, <2>10, <2>11
<1> QED BY <1>4, <1>5 DEF ConfirmEnqueued

\* AbortRefresh keeps the invariant: the run the call still carries fails.
LEMMA AbortRefreshStep ==
  ASSUME IInv, NEW q \in Requests, AbortRefresh(q)
  PROVE  IInv'
<1> DEFINE n == call[q].run
<1> USE DEF IInv
<1>1. UNCHANGED <<rows, queue, lock, job, scan>>
  BY DEF AbortRefresh
<1>2. call[q].pc = "abort" /\ n \in Runs
  BY DEF AbortRefresh, References
<1>3. /\ call' \in [Requests -> Call]
      /\ call'[q].pc = "done"
      /\ \A p \in Requests : p # q => call'[p] = call[p]
  BY FinishFacts DEF AbortRefresh
<1>4. CASE UNCHANGED runs
  BY <1>1, <1>3, <1>4, CallOnlyStep
<1>5. CASE SetRun(n, "failed") /\ runs[n].status = "enqueueing"
  <2>1. /\ runs' \in [Runs -> Run]
        /\ runs'[n].res = runs[n].res /\ runs'[n].status = "failed"
        /\ \A m \in Runs : m # n => runs'[m] = runs[m]
    BY <1>2, <1>5, SetRunFacts DEF RunStatus, Active
  <2>2. \A w \in Workers : job[w].pc # "idle" => runs'[job[w].run] = runs[job[w].run]
    BY <1>2, <2>1 DEF Carriers, References
  <2>3. TypeOK'
    BY <1>1, <1>3, <2>1 DEF TypeOK
  <2>4. References'
    BY <1>1, <1>2, <1>3, <1>5, <2>1 DEF References
  <2>5. Locking'
    <3>1. \A m \in Runs : runs'[m].status = "flushed" => runs'[m] = runs[m]
      BY <2>1
    <3> QED BY <1>1, <2>2, <3>1 DEF Locking, Present
  <2>6. Carriers'
    BY <1>1, <1>3 DEF Carriers
  <2>7. Progress'
    BY <1>1, <1>2, <1>3, <2>1 DEF Progress, Carriers, References
  <2>8. OneRunPerBundle' /\ PurgedRuns'
    BY <1>1, <1>2, <1>5, <2>1 DEF OneRunPerBundle, PurgedRuns
  <2>9. OneLiveRun'
    BY <2>1 DEF OneLiveRun, Live, Active
  <2>10. LostToPurge'
    BY <1>1, <2>2 DEF LostToPurge, References
  <2> QED BY <2>3, <2>4, <2>5, <2>6, <2>7, <2>8, <2>9, <2>10
<1> QED BY <1>4, <1>5 DEF AbortRefresh

\* AbortUpload keeps the invariant: run and resource fail together.
LEMMA AbortUploadStep ==
  ASSUME IInv, NEW q \in Requests, AbortUpload(q)
  PROVE  IInv'
<1> DEFINE n == call[q].run
           r == call[q].res
<1> USE DEF IInv
<1>1. UNCHANGED <<queue, lock, job, scan>>
  BY DEF AbortUpload
<1>2. /\ call[q].pc = "abort" /\ n \in Runs /\ r \in Resources /\ lock[r] = Nobody
      /\ runs[n].res = r /\ runs[n].status # "none"
  BY DEF AbortUpload, References
<1>3. /\ call' \in [Requests -> Call]
      /\ call'[q].pc = "done"
      /\ \A p \in Requests : p # q => call'[p] = call[p]
  BY FinishFacts DEF AbortUpload
<1>4. CASE UNCHANGED <<rows, runs>>
  BY <1>1, <1>3, <1>4, CallOnlyStep
<1>5. CASE /\ Present(r)
           /\ rows' = [rows EXCEPT ![r].status = "error", ![r].deleted = TRUE]
           /\ SetRun(n, "failed")
  <2>1. /\ runs' \in [Runs -> Run]
        /\ runs'[n].res = runs[n].res /\ runs'[n].status = "failed"
        /\ \A m \in Runs : m # n => runs'[m] = runs[m]
    BY <1>2, <1>5, SetRunFacts DEF RunStatus, Active
  <2>2. /\ rows' \in [Resources -> Row]
        /\ rows'[r].status = "error"
        /\ \A x \in Resources : x # r => rows'[x] = rows[x]
    <3> DEFINE new == [rows[r] EXCEPT !.status = "error", !.deleted = TRUE]
    <3>1. rows \in [Resources -> Row] /\ rows[r] \in Row
      BY <1>2 DEF TypeOK
    <3>2. new \in Row /\ new.status = "error"
      BY <3>1 DEF Row
    <3>3. rows' = [rows EXCEPT ![r] = new]
      BY <1>5, <3>1
    <3> HIDE DEF new
    <3> QED BY <1>2, <3>1, <3>2, <3>3
  <2>3. \A w \in Workers : job[w].pc # "idle" => runs'[job[w].run] = runs[job[w].run]
    BY <1>2, <2>1 DEF Carriers, References
  <2>4. TypeOK'
    BY <1>1, <1>3, <2>1, <2>2 DEF TypeOK
  <2>5. References'
    BY <1>1, <1>2, <1>3, <2>1, <2>2 DEF References
  <2>6. Locking'
    <3>1. \A m \in Runs : runs'[m].status = "flushed" => runs'[m] = runs[m]
      BY <2>1
    <3>2. \A x \in Resources : lock[x] # Nobody => rows'[x] = rows[x]
      BY <1>2, <2>2
    <3>3. \A w \in Workers : job[w].pc = "ingesting" => runs[job[w].run].res \in Resources
      BY DEF References
    <3> QED BY <1>1, <2>3, <3>1, <3>2, <3>3, ConstantsAssumption DEF Locking, Present, Inactive
  <2>7. Carriers'
    BY <1>1, <1>3 DEF Carriers
  <2>8. Progress'
    BY <1>1, <1>2, <1>3, <2>1 DEF Progress, Carriers, References
  <2>9. OneRunPerBundle'
    BY <1>2, <2>1 DEF OneRunPerBundle
  <2>10. PurgedRuns'
    BY <1>2, <2>1, <2>2 DEF PurgedRuns, References
  <2>11. OneLiveRun'
    BY <2>1 DEF OneLiveRun, Live, Active
  <2>12. LostToPurge'
    BY <1>1, <1>5, <2>2, <2>3, SMTT(60) DEF LostToPurge, References, Present
  <2> QED BY <2>4, <2>5, <2>6, <2>7, <2>8, <2>9, <2>10, <2>11, <2>12
<1> QED BY <1>4, <1>5 DEF AbortUpload

\* CallCrash keeps the invariant: the call lets go of its run.
LEMMA CallCrashStep ==
  ASSUME IInv, NEW q \in Requests, CallCrash(q)
  PROVE  IInv'
BY FinishFacts, CallOnlyStep DEF CallCrash, IInv

-----------------------------------------------------------------------------
(* Lifecycle calls *)

\* ResolveLifecycle keeps the invariant: it only notes the row it read.
LEMMA ResolveLifecycleStep ==
  ASSUME IInv, NEW q \in Requests, NEW op \in Lifecycle, NEW r \in Resources,
         NEW want \in Want, ResolveLifecycle(q, op, r, want)
  PROVE  IInv'
<1> DEFINE new == [pc |-> "write", op |-> op, res |-> r, run |-> NoRun,
                   seen |-> rows[r], want |-> want]
<1>1. call \in [Requests -> Call] /\ rows[r] \in Row
  BY DEF IInv, TypeOK
<1>2. op \in AllOps
  BY DEF Lifecycle, AllOps
<1>3. new \in Call /\ new.pc = "write" /\ new.res = r
  BY <1>1, <1>2 DEF Call
<1>4. call' = [call EXCEPT ![q] = new] /\ UNCHANGED <<rows, runs, queue, lock, job, scan>>
  BY DEF ResolveLifecycle
<1> HIDE DEF new
<1> QED BY <1>1, <1>3, <1>4, CallOnlyStep

\* WriteLifecycle keeps the invariant: nobody has the row locked.
LEMMA WriteLifecycleStep ==
  ASSUME IInv, NEW q \in Requests, WriteLifecycle(q)
  PROVE  IInv'
<1> DEFINE r == call[q].res
<1> USE DEF IInv
<1>1. UNCHANGED <<runs, queue, lock, job, scan>>
  BY DEF WriteLifecycle
<1>2. r \in Resources /\ lock[r] = Nobody
  BY DEF WriteLifecycle, References
<1>3. /\ call' \in [Requests -> Call]
      /\ call'[q].pc = "done"
      /\ \A p \in Requests : p # q => call'[p] = call[p]
  BY FinishFacts DEF WriteLifecycle
<1>4. CASE UNCHANGED rows
  BY <1>1, <1>3, <1>4, CallOnlyStep
<1>5. CASE Present(r) /\ \E row \in Rewritten(call[q], rows[r]) : rows' = [rows EXCEPT ![r] = row]
  <2>1. PICK row \in Rewritten(call[q], rows[r]) : rows' = [rows EXCEPT ![r] = row]
    BY <1>5
  <2>2. call[q] \in Call /\ rows \in [Resources -> Row] /\ rows[r] \in Row
    BY <1>2 DEF TypeOK
  <2>3. row \in Row /\ row.status \notin {"absent", "purged"}
    BY <1>5, <2>1, <2>2, RewrittenFacts DEF Present
  <2>4. /\ rows' \in [Resources -> Row]
        /\ rows'[r].status \notin {"absent", "purged"}
        /\ \A x \in Resources : x # r => rows'[x] = rows[x]
    BY <1>2, <2>1, <2>2, <2>3
  <2>5. TypeOK'
    BY <1>1, <1>3, <2>4 DEF TypeOK
  <2>6. References'
    BY <1>1, <1>3, <2>4 DEF References
  <2>7. Locking'
    <3>1. \A x \in Resources : lock[x] # Nobody => rows'[x] = rows[x]
      BY <1>2, <2>4
    <3>2. \A w \in Workers : job[w].pc = "ingesting" => runs[job[w].run].res \in Resources
      BY DEF References
    <3> QED BY <1>1, <3>1, <3>2, ConstantsAssumption, SMTT(60) DEF Locking, Present, Inactive
  <2>8. Carriers' /\ Progress'
    BY <1>1, <1>3 DEF Carriers, Progress
  <2>9. OneRunPerBundle' /\ OneLiveRun'
    BY <1>1 DEF OneRunPerBundle, OneLiveRun
  <2>10. PurgedRuns'
    BY <1>1, <2>4 DEF PurgedRuns, References
  <2>11. LostToPurge'
    BY <1>1, <1>5, <2>4 DEF LostToPurge, References, Present
  <2> QED BY <2>5, <2>6, <2>7, <2>8, <2>9, <2>10, <2>11
<1> QED BY <1>4, <1>5 DEF WriteLifecycle

\* PurgeResource keeps the invariant: every visible run of the resource is deleted,
\* and no flushed one exists while the row is not locked.
LEMMA PurgeResourceStep ==
  ASSUME IInv, NEW q \in Requests, PurgeResource(q)
  PROVE  IInv'
<1> DEFINE r == call[q].res
<1> USE DEF IInv
<1>1. UNCHANGED <<queue, lock, job, scan>>
  BY DEF PurgeResource
<1>2. r \in Resources /\ lock[r] = Nobody
  BY DEF PurgeResource, References
<1>3. /\ call' \in [Requests -> Call]
      /\ call'[q].pc = "done"
      /\ \A p \in Requests : p # q => call'[p] = call[p]
  BY FinishFacts DEF PurgeResource
<1>4. /\ rows' \in [Resources -> Row]
      /\ rows'[r].status = "purged"
      /\ \A x \in Resources : x # r => rows'[x] = rows[x]
  <2>1. EmptyRow("purged") \in Row /\ EmptyRow("purged").status = "purged"
    BY DEF EmptyRow, Row, AllFrequencies
  <2> QED BY <1>2, <2>1 DEF PurgeResource, TypeOK
<1>5. /\ runs' \in [Runs -> Run]
      /\ \A m \in Runs :
           /\ runs'[m].res = runs[m].res
           /\ IF runs[m].res = r /\ Visible(m) THEN runs'[m].status = "gone"
                                               ELSE runs'[m] = runs[m]
  BY DEF PurgeResource, TypeOK, Run, RunStatus
<1>6. \A m \in Runs : runs[m].res = r => runs[m].status # "flushed"
  BY <1>2, ConstantsAssumption DEF Locking
<1>7. TypeOK'
  BY <1>1, <1>3, <1>4, <1>5 DEF TypeOK
<1>8. References'
  BY <1>1, <1>3, <1>4, <1>5 DEF References, Visible
<1>9. Locking'
  <2>1. \A m \in Runs : runs[m].res # r => runs'[m] = runs[m]
    BY <1>5
  <2>2. \A m \in Runs : runs'[m].status = "flushed" => runs'[m] = runs[m]
    BY <1>5
  <2>3. \A x \in Resources : lock[x] # Nobody => rows'[x] = rows[x] /\ x # r
    BY <1>2, <1>4
  <2>4. \A w \in Workers : job[w].pc = "ingesting" =>
          job[w].run \in Runs /\ runs[job[w].run].res \in Resources \ {r}
    BY <1>2, ConstantsAssumption DEF References, Locking
  <2> QED BY <1>1, <2>1, <2>2, <2>3, <2>4, ConstantsAssumption, SMTT(30)
          DEF Locking, Present, Inactive
<1>10. Carriers'
  BY <1>1, <1>3 DEF Carriers
<1>11. Progress'
  <2>1. \A m \in Runs : runs'[m] = runs[m] \/ runs'[m].status = "gone"
    BY <1>5
  <2> QED BY <1>1, <1>3, <1>5, <2>1 DEF Progress, References
<1>12. OneRunPerBundle' /\ OneLiveRun'
  BY <1>5 DEF OneRunPerBundle, OneLiveRun, Live, Active, Visible
<1>13. PurgedRuns'
  BY <1>4, <1>5, <1>6 DEF PurgedRuns, References, Visible
<1>14. LostToPurge'
  BY <1>1, <1>4, <1>5 DEF LostToPurge, References
<1> QED BY <1>7, <1>8, <1>9, <1>10, <1>11, <1>12, <1>13, <1>14

\* TimePasses keeps the invariant.
LEMMA TimePassesStep ==
  ASSUME IInv, NEW r \in Resources, TimePasses(r)
  PROVE  IInv'
<1> USE DEF IInv
<1>1. UNCHANGED <<runs, queue, lock, call, job, scan>>
  BY DEF TimePasses
<1>2. /\ rows' \in [Resources -> Row]
      /\ \A x \in Resources : /\ rows'[x].status = rows[x].status
                              /\ rows'[x].archived = rows[x].archived
                              /\ rows'[x].deleted = rows[x].deleted
                              /\ rows'[x].snap = rows[x].snap
  BY DEF TimePasses, TypeOK, Row
<1>3. TypeOK' /\ References'
  BY <1>1, <1>2 DEF TypeOK, References
<1>4. Locking'
  BY <1>1, <1>2, SMTT(60) DEF Locking, Present, Inactive, References
<1>5. Carriers' /\ Progress' /\ OneRunPerBundle' /\ OneLiveRun'
  BY <1>1 DEF Carriers, Progress, OneRunPerBundle, OneLiveRun
<1>6. PurgedRuns'
  BY <1>1, <1>2 DEF PurgedRuns, References
<1>7. LostToPurge'
  BY <1>1, <1>2 DEF LostToPurge, References
<1> QED BY <1>3, <1>4, <1>5, <1>6, <1>7


-----------------------------------------------------------------------------
(* Worker steps *)

\* Release frees the locks of one process.
LEMMA ReleaseFacts ==
  ASSUME TypeOK, NEW p \in Workers \cup Schedulers, lock' = Release(p)
  PROVE  /\ lock' \in [Resources -> Workers \cup Schedulers \cup {Nobody}]
         /\ \A r \in Resources : lock[r] = p => lock'[r] = Nobody
         /\ \A r \in Resources : lock[r] # p => lock'[r] = lock[r]
BY DEF Release, TypeOK

\* The locks that other processes hold, and what they protect, survive a step of
\* worker w that changes at most the rows w itself has locked.
LEMMA OthersLocking ==
  ASSUME IInv, NEW w \in Workers, UNCHANGED scan,
         \A r \in Resources : lock'[r] = lock[r] \/ (lock[r] = w /\ lock'[r] = Nobody),
         \A r \in Resources : lock[r] \notin {w, Nobody} => rows'[r] = rows[r],
         \A m \in Runs : runs'[m].status = "flushed" => runs'[m] = runs[m],
         \A v \in Workers : v # w => job'[v] = job[v],
         \A v \in Workers : v # w /\ job[v].pc # "idle" => runs'[job[v].run] = runs[job[v].run],
         job'[w].pc # "ingesting"
  PROVE  Locking'
<1> USE DEF IInv
<1>1. w \notin Schedulers /\ Nobody \notin Schedulers /\ Nobody \notin Workers
  BY ConstantsAssumption
<1>2. \A s \in Schedulers, r \in Resources : scan'[s].plan[r] # "none" =>
         lock'[r] = s /\ r \notin Bundles /\ Present(r)'
  BY <1>1 DEF Locking, Present
<1>3. \A s \in Schedulers, r \in Resources :
         scan'[s].plan[r] # "none" => scan'[s].pc = "scanning"
  BY DEF Locking
<1>4. \A n \in Runs : runs'[n].status = "flushed" =>
         LET s == lock'[runs'[n].res] IN
         s \in Schedulers /\ scan'[s].plan[runs'[n].res] \in {"queued", "failed"}
  BY <1>1 DEF Locking, References
<1>5. \A v \in Workers : job'[v].pc = "ingesting" =>
         LET n == job'[v].run
             r == runs'[n].res
         IN  /\ lock'[r] = v /\ runs'[n].status \in Active
             /\ rows'[r].status \notin {"absent", "purged"} /\ ~Inactive(rows'[r])
  <2> SUFFICES ASSUME NEW v \in Workers, job'[v].pc = "ingesting"
               PROVE  LET n == job'[v].run
                          r == runs'[n].res
                      IN  /\ lock'[r] = v /\ runs'[n].status \in Active
                          /\ rows'[r].status \notin {"absent", "purged"} /\ ~Inactive(rows'[r])
    OBVIOUS
  <2>1. v # w /\ job'[v] = job[v] /\ job[v].pc = "ingesting"
    OBVIOUS
  <2>2. runs'[job[v].run] = runs[job[v].run] /\ runs[job[v].run].res \in Resources
    BY <2>1 DEF References
  <2>3. LET r == runs[job[v].run].res
        IN  lock[r] = v /\ runs[job[v].run].status \in Active /\ Present(r) /\ ~Inactive(rows[r])
    BY <2>1 DEF Locking
  <2> QED BY <1>1, <2>1, <2>2, <2>3 DEF Present, Inactive
<1> QED BY <1>2, <1>3, <1>4, <1>5 DEF Locking, Present, Inactive

\* TakeJob keeps the invariant: the run passes from the queue to the worker.
LEMMA TakeJobStep ==
  ASSUME IInv, NEW w \in Workers, NEW n \in Runs, TakeJob(w, n)
  PROVE  IInv'
<1> USE DEF IInv
<1>1. UNCHANGED <<rows, runs, lock, call, scan>> /\ job[w].pc = "idle"
      /\ n \in queue /\ queue' = queue \ {n}
  BY DEF TakeJob
<1>2. /\ job' \in [Workers -> Job]
      /\ \/ job'[w].pc = "loaded" /\ job'[w].run = n /\ Visible(n)
         \/ job'[w].pc = "idle"
      /\ \A v \in Workers : v # w => job'[v] = job[v]
  BY DEF TakeJob, TypeOK, Job
<1>3. TypeOK' /\ References'
  BY <1>1, <1>2 DEF TypeOK, References, Visible
<1>4. Locking'
  BY <1>1, <1>2, OthersLocking
<1>5. Carriers'
  BY <1>1, <1>2 DEF Carriers
<1>6. Progress'
  BY <1>1, <1>2 DEF Progress, Visible
<1>7. OneRunPerBundle' /\ PurgedRuns' /\ OneLiveRun'
  BY <1>1 DEF OneRunPerBundle, PurgedRuns, OneLiveRun
<1>8. LostToPurge'
  BY <1>1, <1>2 DEF LostToPurge, Visible
<1> QED BY <1>3, <1>4, <1>5, <1>6, <1>7, <1>8

\* A worker gives up what it does: it fails, or dies.
LEMMA GiveUpStep ==
  ASSUME IInv, NEW w \in Workers, job[w].pc # "idle",
         UNCHANGED <<rows, runs, queue, call, scan>>,
         lock' \in {lock, Release(w)},
         \/ job' = [job EXCEPT ![w].pc = "failing"]
         \/ job' = [job EXCEPT ![w] = [pc |-> "idle", run |-> NoRun]]
  PROVE  IInv'
<1> USE DEF IInv
<1>1. /\ job' \in [Workers -> Job]
      /\ job'[w].pc \in {"failing", "idle"} /\ job'[w].run \in {job[w].run, NoRun}
      /\ job'[w].pc = "failing" => job'[w].run = job[w].run
      /\ \A v \in Workers : v # w => job'[v] = job[v]
  BY DEF TypeOK, Job
<1>2. /\ lock' \in [Resources -> Workers \cup Schedulers \cup {Nobody}]
      /\ \A r \in Resources : lock'[r] = lock[r] \/ (lock[r] = w /\ lock'[r] = Nobody)
  BY ReleaseFacts DEF TypeOK
<1>3. TypeOK' /\ References'
  BY <1>1, <1>2 DEF TypeOK, References
<1>4. Locking'
  BY <1>1, <1>2, OthersLocking
<1>5. Carriers'
  BY <1>1 DEF Carriers
<1>6. Progress' /\ LostToPurge'
  <2>1. \A v \in Workers : job'[v].pc \in {"loaded", "begun"} => job'[v] = job[v]
    BY <1>1
  <2>2. \A m \in Runs : runs[m].status = "flushed" => lock'[runs[m].res] = lock[runs[m].res]
    BY <1>2, ConstantsAssumption DEF Locking, References
  <2>3. Progress'
    BY <2>1, <2>2 DEF Progress
  <2> QED BY <2>1, <2>3 DEF LostToPurge
<1>7. OneRunPerBundle' /\ PurgedRuns' /\ OneLiveRun'
  BY DEF OneRunPerBundle, PurgedRuns, OneLiveRun
<1> QED BY <1>3, <1>4, <1>5, <1>6, <1>7

\* BeginRun keeps the invariant: the run the worker carries was not over yet.
LEMMA BeginRunStep ==
  ASSUME IInv, NEW w \in Workers, BeginRun(w)
  PROVE  IInv'
<1> DEFINE n == job[w].run
<1> USE DEF IInv
<1>1. UNCHANGED <<rows, queue, lock, call, scan>> /\ job[w].pc = "loaded" /\ n \in Runs
  BY DEF BeginRun, References
<1>2. CASE ~Visible(n)
  BY <1>1, <1>2, GiveUpStep DEF BeginRun
<1>3. CASE Visible(n)
  <2>1. /\ runs' \in [Runs -> Run]
        /\ runs'[n].res = runs[n].res /\ runs'[n].status = "running"
        /\ \A m \in Runs : m # n => runs'[m] = runs[m]
    BY <1>1, <1>3, SetRunFacts DEF BeginRun, RunStatus, Active
  <2>2. /\ job' \in [Workers -> Job]
        /\ job'[w].pc = "begun" /\ job'[w].run = n
        /\ \A v \in Workers : v # w => job'[v] = job[v]
    BY <1>1, <1>3 DEF BeginRun, TypeOK, Job
  <2>3. runs[n].status \in {"enqueueing", "queued"} /\ n \notin queue
    BY <1>1, <1>3 DEF Progress, Visible, Carriers
  <2>4. \A v \in Workers : v # w /\ job[v].pc # "idle" => runs'[job[v].run] = runs[job[v].run]
    BY <1>1, <2>1 DEF Carriers, References
  <2>5. TypeOK'
    BY <1>1, <2>1, <2>2 DEF TypeOK
  <2>6. References'
    BY <1>1, <2>1, <2>2, <2>3 DEF References
  <2>7. Locking'
    <3>1. \A m \in Runs : runs'[m].status = "flushed" => runs'[m] = runs[m]
      BY <2>1
    <3> QED BY <1>1, <2>2, <2>4, <3>1, OthersLocking
  <2>8. Carriers'
    BY <1>1, <2>2 DEF Carriers
  <2>9. Progress'
    BY <1>1, <2>1, <2>2, <2>3, <2>4 DEF Progress, Carriers, References
  <2>10. OneRunPerBundle' /\ PurgedRuns'
    BY <1>1, <2>1, <2>3 DEF OneRunPerBundle, PurgedRuns
  <2>11. OneLiveRun'
    BY <1>1, <2>1, <2>3 DEF OneLiveRun, Live, Active
  <2>12. LostToPurge'
    BY <1>1, <2>1, <2>2, <2>4 DEF LostToPurge, References
  <2> QED BY <2>5, <2>6, <2>7, <2>8, <2>9, <2>10, <2>11, <2>12
<1> QED BY <1>2, <1>3

\* What the proofs of a step show of the row locks: a scheduler's plan, a
\* flushed run and an ingesting worker each have their row locked afterwards.
LEMMA LockingAfter ==
  ASSUME \A x \in Schedulers, r \in Resources : scan'[x].plan[r] # "none" =>
            /\ lock'[r] = x /\ r \notin Bundles /\ Present(r)'
            /\ scan'[x].pc = "scanning",
         \A m \in Runs : runs'[m].status = "flushed" =>
            LET x == lock'[runs'[m].res] IN
            x \in Schedulers /\ scan'[x].plan[runs'[m].res] \in {"queued", "failed"},
         \A w \in Workers : job'[w].pc = "ingesting" =>
            LET m == job'[w].run
                r == runs'[m].res
            IN  /\ lock'[r] = w /\ runs'[m].status \in Active
                /\ rows'[r].status \notin {"absent", "purged"} /\ ~Inactive(rows'[r])
  PROVE  Locking'
<1>1. (\A x \in Schedulers, r \in Resources : scan[x].plan[r] # "none" =>
         lock[r] = x /\ r \notin Bundles /\ Present(r))'
  OBVIOUS
<1>2. (\A x \in Schedulers, r \in Resources :
         scan[x].plan[r] # "none" => scan[x].pc = "scanning")'
  OBVIOUS
<1>3. (\A n \in Runs : runs[n].status = "flushed" =>
         LET x == lock[runs[n].res] IN
         x \in Schedulers /\ scan[x].plan[runs[n].res] \in {"queued", "failed"})'
  OBVIOUS
<1>4. (\A w \in Workers : job[w].pc = "ingesting" =>
         LET n == job[w].run
             r == runs[n].res
         IN  /\ lock[r] = w /\ runs[n].status \in Active
             /\ Present(r) /\ ~Inactive(rows[r]))'
  BY DEF Present, Inactive
<1> QED BY <1>1, <1>2, <1>3, <1>4 DEF Locking

\* LockResource keeps the invariant: the worker owns a live row from here on.
LEMMA LockResourceStep ==
  ASSUME IInv, NEW w \in Workers, LockResource(w)
  PROVE  IInv'
<1> DEFINE n == job[w].run
           r == runs[n].res
<1> USE DEF IInv
<1>1. UNCHANGED <<rows, runs, queue, call, scan>> /\ job[w].pc = "begun"
      /\ n \in Runs /\ r \in Resources /\ lock[r] = Nobody
  BY DEF LockResource, References
<1>2. CASE ~Present(r) \/ Inactive(rows[r])
  BY <1>1, <1>2, GiveUpStep DEF LockResource
<1>3. CASE Present(r) /\ ~Inactive(rows[r])
  <2>1. /\ lock' \in [Resources -> Workers \cup Schedulers \cup {Nobody}]
        /\ lock'[r] = w
        /\ \A x \in Resources : x # r => lock'[x] = lock[x]
    BY <1>1, <1>3 DEF LockResource, TypeOK
  <2>2. /\ job' \in [Workers -> Job]
        /\ job'[w].pc = "ingesting" /\ job'[w].run = n
        /\ \A v \in Workers : v # w => job'[v] = job[v]
    BY <1>1, <1>3 DEF LockResource, TypeOK, Job
  <2>3. runs[n].status \in Active
    BY <1>1, <1>3 DEF Progress, LostToPurge, Present, Active
  <2>4. TypeOK' /\ References'
    BY <1>1, <2>1, <2>2 DEF TypeOK, References
  <2>5. Locking'
    <3>1. \A x \in Resources : lock[x] # Nobody => lock'[x] = lock[x]
      BY <1>1, <2>1
    <3>2. Nobody \notin Schedulers /\ Nobody \notin Workers
      BY ConstantsAssumption
    <3>3. \A v \in Workers : job[v].pc = "ingesting" => runs[job[v].run].res \in Resources
      BY DEF References
    <3>4. \A v \in Workers : job'[v].pc = "ingesting" =>
             LET m == job'[v].run
                 x == runs'[m].res
             IN  /\ lock'[x] = v /\ runs'[m].status \in Active
                 /\ rows'[x].status \notin {"absent", "purged"} /\ ~Inactive(rows'[x])
      <4> SUFFICES ASSUME NEW v \in Workers, job'[v].pc = "ingesting"
                   PROVE  LET m == job'[v].run
                              x == runs'[m].res
                          IN  /\ lock'[x] = v /\ runs'[m].status \in Active
                              /\ rows'[x].status \notin {"absent", "purged"} /\ ~Inactive(rows'[x])
        OBVIOUS
      <4>1. CASE v = w
        BY <1>1, <1>3, <2>1, <2>2, <2>3, <4>1 DEF Present, Inactive
      <4>2. CASE v # w
        <5>1. job'[v] = job[v] /\ job[v].pc = "ingesting"
          BY <2>2, <4>2
        <5>2. LET x == runs[job[v].run].res
              IN  /\ x \in Resources /\ lock[x] = v
                  /\ runs[job[v].run].status \in Active /\ Present(x) /\ ~Inactive(rows[x])
          BY <3>3, <5>1 DEF Locking
        <5> QED BY <1>1, <3>1, <3>2, <5>1, <5>2 DEF Present, Inactive
      <4> QED BY <4>1, <4>2
    <3>5. \A m \in Runs : runs[m].status = "flushed" => lock'[runs[m].res] = lock[runs[m].res]
      BY <3>1, <3>2 DEF Locking, References
    <3>6. \A x \in Schedulers, r0 \in Resources : scan'[x].plan[r0] # "none" =>
             /\ lock'[r0] = x /\ r0 \notin Bundles /\ Present(r0)'
             /\ scan'[x].pc = "scanning"
      BY <1>1, <3>1, <3>2 DEF Locking, Present
    <3>7. \A m \in Runs : runs'[m].status = "flushed" =>
             LET x == lock'[runs'[m].res] IN
             x \in Schedulers /\ scan'[x].plan[runs'[m].res] \in {"queued", "failed"}
      BY <1>1, <3>1, <3>2, <3>5 DEF Locking
    <3> QED BY <3>4, <3>6, <3>7, LockingAfter
  <2>6. Carriers' /\ Progress'
    BY <1>1, <2>1, <2>2, ConstantsAssumption DEF Carriers, Progress, Locking, References
  <2>7. OneRunPerBundle' /\ PurgedRuns' /\ OneLiveRun'
    BY <1>1 DEF OneRunPerBundle, PurgedRuns, OneLiveRun
  <2>8. LostToPurge'
    BY <1>1, <2>2 DEF LostToPurge, References
  <2> QED BY <2>4, <2>5, <2>6, <2>7, <2>8
<1> QED BY <1>2, <1>3

\* RunRaises keeps the invariant.
LEMMA RunRaisesStep ==
  ASSUME IInv, NEW w \in Workers, RunRaises(w)
  PROVE  IInv'
BY GiveUpStep DEF RunRaises

\* WorkerCrash keeps the invariant.
LEMMA WorkerCrashStep ==
  ASSUME IInv, NEW w \in Workers, WorkerCrash(w)
  PROVE  IInv'
BY GiveUpStep DEF WorkerCrash

\* A worker ends run n, as succeeded or failed.
LEMMA EndRunStep ==
  ASSUME IInv, NEW w \in Workers, NEW n \in Runs, job[w].pc # "idle", n = job[w].run,
         NEW status \in {"succeeded", "failed"}, SetRun(n, status), Visible(n),
         UNCHANGED <<queue, call, scan>>,
         lock[runs[n].res] \in {w, Nobody},
         lock' \in {lock, Release(w)},
         \/ job' = [job EXCEPT ![w].pc = "failing"]
         \/ job' = [job EXCEPT ![w] = [pc |-> "idle", run |-> NoRun]],
         rows' \in [Resources -> Row],
         rows'[runs[n].res].status \notin {"absent", "purged"},
         \A x \in Resources : x # runs[n].res => rows'[x] = rows[x]
  PROVE  IInv'
<1> DEFINE r == runs[n].res
<1> USE DEF IInv
<1>1. /\ job' \in [Workers -> Job]
      /\ job'[w].pc \in {"failing", "idle"} /\ job'[w].run \in {n, NoRun}
      /\ job'[w].pc = "failing" => job'[w].run = n
      /\ \A v \in Workers : v # w => job'[v] = job[v]
  BY DEF TypeOK, Job
<1>2. /\ lock' \in [Resources -> Workers \cup Schedulers \cup {Nobody}]
      /\ \A x \in Resources : lock'[x] = lock[x] \/ (lock[x] = w /\ lock'[x] = Nobody)
  BY ReleaseFacts DEF TypeOK
<1>3. /\ runs' \in [Runs -> Run]
      /\ runs'[n].res = r /\ runs'[n].status = status
      /\ \A m \in Runs : m # n => runs'[m] = runs[m]
  BY SetRunFacts DEF RunStatus
<1>4. r \in Resources /\ n \notin queue
  BY DEF References, Carriers
<1>5. \A v \in Workers : v # w /\ job[v].pc # "idle" => runs'[job[v].run] = runs[job[v].run]
  BY <1>3 DEF Carriers, References
<1>6. TypeOK'
  BY <1>1, <1>2, <1>3 DEF TypeOK
<1>7. References'
  BY <1>1, <1>3, <1>4 DEF References, Visible
<1>8. Locking'
  <2>1. \A m \in Runs : runs'[m].status = "flushed" => runs'[m] = runs[m]
    BY <1>3
  <2> QED BY <1>1, <1>2, <1>5, <2>1, OthersLocking
<1>9. Carriers'
  BY <1>1 DEF Carriers
<1>10. Progress'
  <2>1. \A v \in Workers : job'[v].pc \in {"loaded", "begun"} =>
          v # w /\ job'[v] = job[v] /\ runs'[job[v].run] = runs[job[v].run]
    BY <1>1, <1>5
  <2>2. \A m \in Runs : runs[m].status = "flushed" => lock'[runs[m].res] = lock[runs[m].res]
    BY <1>2, ConstantsAssumption DEF Locking, References
  <2>3. \A m \in Runs : m \in queue => runs'[m] = runs[m]
    BY <1>3, <1>4
  <2>4. \A q \in Requests : call[q].pc \in {"enqueue", "abort"} =>
          runs'[call[q].run] = runs[call[q].run]
    BY <1>3 DEF Carriers, References
  <2> QED BY <2>1, <2>2, <2>3, <2>4, SMTT(60) DEF Progress
<1>11. OneRunPerBundle' /\ OneLiveRun'
  BY <1>3 DEF OneRunPerBundle, OneLiveRun, Visible, Live, Active
<1>12. PurgedRuns'
  BY <1>3, <1>4 DEF PurgedRuns, References
<1>13. LostToPurge'
  BY <1>1, <1>3, <1>4, <1>5 DEF LostToPurge, References, PurgedRuns, Visible
<1> QED BY <1>6, <1>7, <1>8, <1>9, <1>10, <1>11, <1>12, <1>13

\* CommitRun keeps the invariant: the run ends on the row its worker has locked.
LEMMA CommitRunStep ==
  ASSUME IInv, NEW w \in Workers, CommitRun(w)
  PROVE  IInv'
<1> DEFINE n == job[w].run
           r == runs[n].res
<1> USE DEF IInv
<1>1. job[w].pc = "ingesting" /\ n \in Runs /\ r \in Resources
  BY DEF CommitRun, References
<1>2. lock[r] = w /\ runs[n].status \in Active /\ Present(r)
  BY <1>1 DEF Locking
<1>3. /\ rows' \in [Resources -> Row]
      /\ rows'[r].status = "active"
      /\ \A x \in Resources : x # r => rows'[x] = rows[x]
  <2>1. PICK snap \in {n} \cup (IF runs[n].trigger = "scheduled" /\ rows[r].snap # NoRun
                                 THEN {rows[r].snap} ELSE {}) :
          rows' = [rows EXCEPT ![r].status = "active", ![r].snap = snap,
                               ![r].next = NextAfterRefresh(rows[r].freq)]
    BY DEF CommitRun
  <2> DEFINE next == NextAfterRefresh(rows[r].freq)
             new == [rows[r] EXCEPT !.status = "active", !.snap = snap, !.next = next]
  <2>2. rows \in [Resources -> Row] /\ rows[r] \in Row
    BY <1>1 DEF TypeOK
  <2>3. next \in {"unset", "future", "due"}
    BY DEF NextAfterRefresh
  <2>4. snap \in Runs \cup {NoRun}
    BY <1>1, <2>1, <2>2 DEF Row
  <2>5. new \in Row /\ new.status = "active"
    BY <2>2, <2>3, <2>4 DEF Row
  <2>6. rows' = [rows EXCEPT ![r] = new]
    BY <2>1, <2>2
  <2> HIDE DEF new
  <2> QED BY <1>1, <2>2, <2>5, <2>6
<1> QED BY <1>1, <1>2, <1>3, EndRunStep DEF CommitRun, Visible, Active

\* RecordFailure keeps the invariant: the run ends, or was purged meanwhile.
LEMMA RecordFailureStep ==
  ASSUME IInv, NEW w \in Workers, RecordFailure(w)
  PROVE  IInv'
<1> DEFINE n == job[w].run
           r == runs[n].res
<1> USE DEF IInv
<1>1. job[w].pc = "failing" /\ n \in Runs /\ r \in Resources /\ lock[r] = Nobody
      /\ runs[n].status # "none"
  BY DEF RecordFailure, References
<1>2. CASE ~Visible(n)
  BY <1>1, <1>2, GiveUpStep DEF RecordFailure
<1>3. CASE Visible(n)
  <2>1. /\ rows' \in [Resources -> Row]
        /\ rows'[r].status = "failed"
        /\ \A x \in Resources : x # r => rows'[x] = rows[x]
    <3> DEFINE next == IF runs[n].trigger = "scheduled" THEN "future" ELSE rows[r].next
               new == [rows[r] EXCEPT !.status = "failed", !.next = next]
    <3>1. rows \in [Resources -> Row] /\ rows[r] \in Row
      BY <1>1 DEF TypeOK
    <3>2. new \in Row /\ new.status = "failed"
      BY <3>1 DEF Row
    <3>3. rows' = [rows EXCEPT ![r] = new]
      BY <1>3, <3>1 DEF RecordFailure
    <3> HIDE DEF new
    <3> QED BY <1>1, <3>1, <3>2, <3>3
  <2> QED BY <1>1, <1>3, <2>1, EndRunStep DEF RecordFailure
<1> QED BY <1>2, <1>3

-----------------------------------------------------------------------------
(* Scheduler steps *)

\* An idle scheduler has no plan; a flushed run is in the plan of the scheduler
\* that holds its row.
LEMMA ScanFacts ==
  ASSUME IInv
  PROVE  /\ scan \in [Schedulers -> Scan] /\ rows \in [Resources -> Row]
         /\ \A s \in Schedulers : scan[s].pc = "idle" =>
              \A r \in Resources : scan[s].plan[r] = "none"
         /\ \A m \in Runs : runs[m].status = "flushed" =>
              /\ runs[m].res \in Resources
              /\ lock[runs[m].res] \in Schedulers
              /\ scan[lock[runs[m].res]].plan[runs[m].res] \in {"queued", "failed"}
         /\ \A w \in Workers : job[w].pc = "ingesting" =>
              /\ job[w].run \in Runs /\ runs[job[w].run].res \in Resources
              /\ lock[runs[job[w].run].res] = w
         /\ Schedulers \cap Workers = {} /\ Nobody \notin Schedulers \cup Workers
BY ConstantsAssumption DEF IInv, TypeOK, Locking, References, Scan

\* StartScan keeps the invariant: the batch's rows become the scheduler's.
LEMMA StartScanStep ==
  ASSUME IInv, NEW s \in Schedulers, StartScan(s)
  PROVE  IInv'
<1> USE DEF IInv
<1>1. UNCHANGED <<rows, runs, queue, call, job>> /\ scan[s].pc = "idle"
  BY DEF StartScan
<1>2. PICK batch \in SUBSET {r \in Resources : Schedulable(r) /\ lock[r] = Nobody} :
        /\ lock' = [r \in Resources |-> IF r \in batch THEN s ELSE lock[r]]
        /\ scan' = [scan EXCEPT ![s] =
                      [pc |-> "scanning",
                       plan |-> [r \in Resources |-> IF r \in batch THEN "todo" ELSE "none"]]]
  BY DEF StartScan
<1>3. /\ \A r \in batch : r \in Resources /\ lock[r] = Nobody /\ Present(r) /\ r \notin Bundles
      /\ \A r \in Resources : lock'[r] = IF r \in batch THEN s ELSE lock[r]
      /\ \A r \in Resources : lock[r] # Nobody => lock'[r] = lock[r]
  BY <1>2 DEF Schedulable
<1>4. /\ scan' \in [Schedulers -> Scan]
      /\ scan'[s].pc = "scanning"
      /\ \A r \in Resources : scan'[s].plan[r] = IF r \in batch THEN "todo" ELSE "none"
      /\ \A x \in Schedulers : x # s => scan'[x] = scan[x]
  <2> DEFINE plan == [r \in Resources |-> IF r \in batch THEN "todo" ELSE "none"]
             new == [pc |-> "scanning", plan |-> plan]
  <2>1. plan \in [Resources -> Plan]
    BY DEF Plan
  <2>2. new \in Scan /\ new.pc = "scanning" /\ new.plan = plan
    BY <2>1 DEF Scan
  <2>3. \A r \in Resources : plan[r] = IF r \in batch THEN "todo" ELSE "none"
    OBVIOUS
  <2>4. scan' = [scan EXCEPT ![s] = new]
    BY <1>2
  <2> HIDE DEF plan, new
  <2> QED BY <2>2, <2>3, <2>4, ScanFacts
<1>5. TypeOK' /\ References'
  <2>1. lock' \in [Resources -> Workers \cup Schedulers \cup {Nobody}]
    BY <1>2 DEF TypeOK
  <2> QED BY <1>1, <1>4, <2>1 DEF TypeOK, References
<1>6. \A m \in Runs : runs[m].status = "flushed" =>
        /\ lock'[runs[m].res] = lock[runs[m].res]
        /\ scan'[lock[runs[m].res]] = scan[lock[runs[m].res]]
  BY <1>1, <1>3, <1>4, ScanFacts
<1>7. Locking'
  <2>1. \A x \in Schedulers, r \in Resources : scan'[x].plan[r] # "none" =>
           lock'[r] = x /\ r \notin Bundles /\ Present(r)'
    <3> SUFFICES ASSUME NEW x \in Schedulers, NEW r \in Resources, scan'[x].plan[r] # "none"
                 PROVE  lock'[r] = x /\ r \notin Bundles /\ Present(r)'
      OBVIOUS
    <3>1. CASE x = s
      BY <1>1, <1>3, <1>4, <3>1 DEF Present
    <3>2. CASE x # s
      <4>1. scan[x].plan[r] # "none"
        BY <1>4, <3>2
      <4>2. lock[r] = x /\ r \notin Bundles /\ Present(r)
        BY <4>1 DEF Locking
      <4> QED BY <1>1, <1>3, <4>2, ScanFacts DEF Present
    <3> QED BY <3>1, <3>2
  <2>2. \A x \in Schedulers, r \in Resources :
           scan'[x].plan[r] # "none" => scan'[x].pc = "scanning"
    BY <1>4 DEF Locking
  <2>3. \A m \in Runs : runs'[m].status = "flushed" =>
           LET x == lock'[runs'[m].res] IN
           x \in Schedulers /\ scan'[x].plan[runs'[m].res] \in {"queued", "failed"}
    BY <1>1, <1>6, ScanFacts
  <2>4. \A w \in Workers : job'[w].pc = "ingesting" =>
           LET m == job'[w].run
               r == runs'[m].res
           IN  /\ lock'[r] = w /\ runs'[m].status \in Active
               /\ rows'[r].status \notin {"absent", "purged"} /\ ~Inactive(rows'[r])
    <3> SUFFICES ASSUME NEW w \in Workers, job[w].pc = "ingesting"
                 PROVE  LET m == job[w].run
                            r == runs[m].res
                        IN  /\ lock'[r] = w /\ runs[m].status \in Active
                            /\ rows[r].status \notin {"absent", "purged"} /\ ~Inactive(rows[r])
      BY <1>1 DEF Inactive
    <3>1. LET m == job[w].run
              r == runs[m].res
          IN  /\ r \in Resources /\ lock[r] = w /\ runs[m].status \in Active
              /\ Present(r) /\ ~Inactive(rows[r])
      BY ScanFacts DEF Locking
    <3>2. lock'[runs[job[w].run].res] = w
      BY <1>3, <3>1, ScanFacts
    <3> QED BY <3>1, <3>2, SMTT(30) DEF Present
  <2> QED BY <2>1, <2>2, <2>3, <2>4, LockingAfter
<1>8. Carriers' /\ LostToPurge' /\ OneRunPerBundle' /\ PurgedRuns' /\ OneLiveRun'
  BY <1>1 DEF Carriers, LostToPurge, OneRunPerBundle, PurgedRuns, OneLiveRun
<1>9. Progress'
  BY <1>1, <1>6 DEF Progress
<1> QED BY <1>5, <1>7, <1>8, <1>9

\* What a decision about one row changes in the plans.
LEMMA DecideFacts ==
  ASSUME IInv, NEW s \in Schedulers, NEW r \in Resources, NEW decision \in Plan,
         scan[s].plan[r] = "todo", Decide(s, r, decision)
  PROVE  /\ scan' \in [Schedulers -> Scan]
         /\ scan'[s].pc = scan[s].pc
         /\ scan'[s].plan[r] = decision
         /\ \A x \in Schedulers, y \in Resources :
              x # s \/ y # r => scan'[x].plan[y] = scan[x].plan[y]
         /\ \A x \in Schedulers : x # s => scan'[x] = scan[x]
<1> DEFINE plan == [scan[s].plan EXCEPT ![r] = decision]
           new == [scan[s] EXCEPT !.plan = plan]
<1>1. scan \in [Schedulers -> Scan] /\ scan[s] \in Scan /\ scan[s].plan \in [Resources -> Plan]
  BY ScanFacts DEF Scan
<1>2. /\ plan \in [Resources -> Plan] /\ plan[r] = decision
      /\ \A y \in Resources : y # r => plan[y] = scan[s].plan[y]
  BY <1>1
<1> HIDE DEF plan
<1>3. new \in Scan /\ new.pc = scan[s].pc /\ new.plan = plan
  BY <1>1, <1>2 DEF Scan
<1>4. scan' = [scan EXCEPT ![s] = new]
  BY <1>1 DEF Decide, plan
<1> HIDE DEF new
<1> QED BY <1>1, <1>2, <1>3, <1>4

\* Locking after a decision that leaves rows and locks alone.
LEMMA DecideLocking ==
  ASSUME IInv, NEW s \in Schedulers, NEW r \in Resources, NEW decision \in Plan,
         scan[s].pc = "scanning", scan[s].plan[r] = "todo", Decide(s, r, decision),
         UNCHANGED <<rows, lock, job>>,
         \A w \in Workers : job[w].pc # "idle" => runs'[job[w].run] = runs[job[w].run],
         \A m \in Runs : runs'[m].status = "flushed" =>
            runs'[m] = runs[m] \/ (runs'[m].res = r /\ decision \in {"queued", "failed"})
  PROVE  Locking'
<1> USE DEF IInv
<1>1. lock[r] = s /\ r \notin Bundles /\ Present(r)
  BY DEF Locking
<1>2. \A x \in Schedulers, y \in Resources : scan'[x].plan[y] # "none" =>
         scan[x].plan[y] # "none" /\ scan'[x].pc = scan[x].pc
  BY DecideFacts
<1>3. \A x \in Schedulers, y \in Resources : scan'[x].plan[y] # "none" =>
         /\ lock'[y] = x /\ y \notin Bundles /\ Present(y)'
         /\ scan'[x].pc = "scanning"
  BY <1>2 DEF Locking, Present
<1>4. \A m \in Runs : runs'[m].status = "flushed" =>
         LET x == lock'[runs'[m].res] IN
         x \in Schedulers /\ scan'[x].plan[runs'[m].res] \in {"queued", "failed"}
  <2> SUFFICES ASSUME NEW m \in Runs, runs'[m].status = "flushed"
               PROVE  /\ lock'[runs'[m].res] \in Schedulers
                      /\ scan'[lock'[runs'[m].res]].plan[runs'[m].res] \in {"queued", "failed"}
    OBVIOUS
  <2>1. CASE runs'[m].res = r /\ decision \in {"queued", "failed"}
    BY <1>1, <2>1, DecideFacts
  <2>2. CASE runs'[m] = runs[m]
    <3>1. /\ runs[m].res \in Resources /\ lock[runs[m].res] \in Schedulers
          /\ scan[lock[runs[m].res]].plan[runs[m].res] \in {"queued", "failed"}
      BY <2>2, ScanFacts
    <3>2. runs[m].res # r
      BY <1>1, <3>1
    <3> QED BY <2>2, <3>1, <3>2, DecideFacts
  <2> QED BY <2>1, <2>2
<1>5. \A w \in Workers : job'[w].pc = "ingesting" =>
         LET m == job'[w].run
             x == runs'[m].res
         IN  /\ lock'[x] = w /\ runs'[m].status \in Active
             /\ rows'[x].status \notin {"absent", "purged"} /\ ~Inactive(rows'[x])
  BY DEF Locking, Present, Inactive
<1> QED BY <1>3, <1>4, <1>5, LockingAfter

\* SkipResource keeps the invariant: a plan entry changes, nothing else.
LEMMA SkipResourceStep ==
  ASSUME IInv, NEW s \in Schedulers, NEW r \in Resources, SkipResource(s, r)
  PROVE  IInv'
<1> USE DEF IInv
<1>1. UNCHANGED <<rows, runs, queue, lock, call, job>>
      /\ scan[s].pc = "scanning" /\ scan[s].plan[r] = "todo"
  BY DEF SkipResource
<1>2. PICK decision \in {"skip", "later"} : Decide(s, r, decision)
  BY DEF SkipResource
<1>3. decision \in Plan
  BY DEF Plan
<1>4. TypeOK' /\ References'
  BY <1>1, <1>2, <1>3, DecideFacts DEF TypeOK, References
<1>5. Locking'
  BY <1>1, <1>2, <1>3, DecideLocking
<1>6. Carriers' /\ LostToPurge' /\ OneRunPerBundle' /\ PurgedRuns' /\ OneLiveRun'
  BY <1>1 DEF Carriers, LostToPurge, OneRunPerBundle, PurgedRuns, OneLiveRun
<1>7. Progress'
  <2>1. \A m \in Runs : m \in queue /\ runs[m].status = "flushed" =>
          scan'[lock[runs[m].res]].plan[runs[m].res] = "queued"
    <3> SUFFICES ASSUME NEW m \in Runs, m \in queue, runs[m].status = "flushed"
                 PROVE  scan'[lock[runs[m].res]].plan[runs[m].res] = "queued"
      OBVIOUS
    <3>1. scan[lock[runs[m].res]].plan[runs[m].res] = "queued"
      BY DEF Progress
    <3>2. runs[m].res \in Resources /\ lock[runs[m].res] \in Schedulers
      BY ScanFacts
    <3> QED BY <1>1, <1>2, <1>3, <3>1, <3>2, DecideFacts
  <2> QED BY <1>1, <2>1 DEF Progress
<1> QED BY <1>4, <1>5, <1>6, <1>7

\* EnqueueDue keeps the invariant: the new run is the resource's only live one,
\* and its job is enqueued when the plan says so.
LEMMA EnqueueDueStep ==
  ASSUME IInv, NoAmbiguousEnqueue,
         NEW s \in Schedulers, NEW r \in Resources, NEW n \in Runs, EnqueueDue(s, r, n)
  PROVE  IInv'
<1> USE DEF IInv
<1>1. /\ UNCHANGED <<rows, lock, call, job>>
      /\ scan[s].pc = "scanning" /\ scan[s].plan[r] = "todo"
      /\ ~HasActiveRun(r) /\ runs[n].status = "none"
  BY DEF EnqueueDue
<1>2. /\ runs' \in [Runs -> Run]
      /\ runs'[n].status = "flushed" /\ runs'[n].res = r
      /\ \A m \in Runs : m # n => runs'[m] = runs[m]
  BY DEF EnqueueDue, TypeOK, Run, RunStatus
<1>3. PICK decision \in {"queued", "failed"} :
        /\ Decide(s, r, decision)
        /\ queue' = IF decision = "queued" THEN queue \cup {n} ELSE queue
  BY DEF EnqueueDue, NoAmbiguousEnqueue
<1>4. decision \in Plan
  BY DEF Plan
<1>5. lock[r] = s /\ r \notin Bundles /\ Present(r)
  BY <1>1 DEF Locking
<1>6. \A m \in Runs : runs[m].status \in Live => runs[m].res # r
  <2> SUFFICES ASSUME NEW m \in Runs, runs[m].status \in Live, runs[m].res = r
               PROVE  FALSE
    OBVIOUS
  <2>1. runs[m].status = "flushed"
    BY <1>1 DEF HasActiveRun, Live
  <2>2. scan[s].plan[r] \in {"queued", "failed"}
    BY <2>1, <1>5, ScanFacts
  <2> QED BY <1>1, <2>2
<1>7. \A m \in Runs : m \in queue => m # n
  BY <1>1 DEF Progress
<1>8. \A w \in Workers : job[w].pc # "idle" => job[w].run # n /\ runs'[job[w].run] = runs[job[w].run]
  BY <1>1, <1>2 DEF References
<1>9. \A q \in Requests : call[q].pc \in {"enqueue", "confirm", "abort"} =>
        call[q].run # n /\ runs'[call[q].run] = runs[call[q].run]
  BY <1>1, <1>2 DEF References
<1>10. TypeOK'
  <2>1. scan' \in [Schedulers -> Scan]
    BY <1>1, <1>3, <1>4, DecideFacts
  <2> QED BY <1>1, <1>2, <1>3, <2>1 DEF TypeOK
<1>11. References'
  BY <1>1, <1>2, <1>5, <1>8, <1>9 DEF References, Present
<1>12. Locking'
  BY <1>1, <1>2, <1>3, <1>4, <1>8, DecideLocking
<1>13. Carriers'
  BY <1>1, <1>3, <1>8, <1>9 DEF Carriers
<1>14. Progress'
  <2>1. \A m \in Runs : m \in queue' =>
         /\ runs'[m].status \in {"flushed", "enqueueing", "queued", "gone"}
         /\ runs'[m].status = "flushed" =>
              scan'[lock'[runs'[m].res]].plan[runs'[m].res] = "queued"
    <3> SUFFICES ASSUME NEW m \in Runs, m \in queue'
                 PROVE  /\ runs'[m].status \in {"flushed", "enqueueing", "queued", "gone"}
                        /\ runs'[m].status = "flushed" =>
                             scan'[lock'[runs'[m].res]].plan[runs'[m].res] = "queued"
      OBVIOUS
    <3>1. CASE m = n
      <4>1. decision = "queued"
        BY <1>3, <1>7, <3>1
      <4> QED BY <1>1, <1>2, <1>3, <1>4, <1>5, <3>1, <4>1, DecideFacts
    <3>2. CASE m # n
      <4>1. m \in queue /\ runs'[m] = runs[m]
        BY <1>2, <1>3, <3>2
      <4>2. runs[m].status = "flushed" =>
              scan[lock[runs[m].res]].plan[runs[m].res] = "queued"
        BY <4>1 DEF Progress
      <4>3. runs[m].status = "flushed" =>
              scan'[lock[runs[m].res]].plan[runs[m].res] = "queued"
        BY <1>1, <1>3, <1>4, <4>2, DecideFacts, ScanFacts
      <4> QED BY <1>1, <4>1, <4>3 DEF Progress
    <3> QED BY <3>1, <3>2
  <2> QED BY <1>1, <1>8, <1>9, <2>1 DEF Progress
<1>15. OneRunPerBundle'
  BY <1>2, <1>5 DEF OneRunPerBundle
<1>16. PurgedRuns'
  BY <1>1, <1>2, <1>5 DEF PurgedRuns, Present
<1>17. OneLiveRun'
  BY <1>2, <1>6 DEF OneLiveRun
<1>18. LostToPurge'
  BY <1>1, <1>8 DEF LostToPurge
<1> QED BY <1>10, <1>11, <1>12, <1>13, <1>14, <1>15, <1>16, <1>17, <1>18

\* The end of a pass: the scheduler's flushed runs take the status its plan or a
\* rollback gives them, its locks are freed, its plan is empty.
LEMMA EndScanStep ==
  ASSUME IInv, NEW s \in Schedulers, scan[s].pc = "scanning",
         UNCHANGED <<queue, call, job>>,
         lock' = Release(s),
         scan' = [scan EXCEPT ![s] = [pc |-> "idle", plan |-> [r \in Resources |-> "none"]]],
         runs' \in [Runs -> Run],
         \A m \in Runs : runs'[m].res = runs[m].res,
         \A m \in Runs : ~Flushed(s, m) => runs'[m] = runs[m],
         \A m \in Runs : Flushed(s, m) =>
            /\ runs'[m].status \in {"queued", "failed", "gone"}
            /\ m \in queue => runs'[m].status \in {"queued", "gone"},
         rows' \in [Resources -> Row],
         \A r \in Resources : scan[s].plan[r] = "none" => rows'[r] = rows[r],
         \A r \in Resources : /\ rows'[r].snap = rows[r].snap
                              /\ scan[s].plan[r] # "none" =>
                                   rows'[r].status \notin {"absent", "purged"}
  PROVE  IInv'
<1> USE DEF IInv
<1>1. \A r \in Resources : scan[s].plan[r] # "none" =>
        lock[r] = s /\ rows[r].status \notin {"absent", "purged"}
  BY DEF Locking, Present
<1>2. /\ lock' \in [Resources -> Workers \cup Schedulers \cup {Nobody}]
      /\ \A r \in Resources : lock[r] = s => lock'[r] = Nobody
      /\ \A r \in Resources : lock[r] # s => lock'[r] = lock[r] /\ rows'[r] = rows[r]
  BY <1>1, ReleaseFacts
<1>3. /\ scan' \in [Schedulers -> Scan]
      /\ scan'[s].pc = "idle"
      /\ \A r \in Resources : scan'[s].plan[r] = "none"
      /\ \A x \in Schedulers : x # s => scan'[x] = scan[x]
  <2> DEFINE plan == [r \in Resources |-> "none"]
             new == [pc |-> "idle", plan |-> plan]
  <2>1. plan \in [Resources -> Plan] /\ \A r \in Resources : plan[r] = "none"
    BY DEF Plan
  <2>2. new \in Scan /\ new.pc = "idle" /\ new.plan = plan
    BY <2>1 DEF Scan
  <2>3. scan' = [scan EXCEPT ![s] = new]
    OBVIOUS
  <2> HIDE DEF plan, new
  <2> QED BY <2>1, <2>2, <2>3, ScanFacts
<1>4. \A m \in Runs : runs'[m].status = "flushed" =>
        /\ runs'[m] = runs[m]
        /\ lock[runs[m].res] # s
        /\ lock'[runs[m].res] = lock[runs[m].res]
        /\ scan'[lock[runs[m].res]] = scan[lock[runs[m].res]]
  <2> SUFFICES ASSUME NEW m \in Runs, runs'[m].status = "flushed"
               PROVE  /\ runs'[m] = runs[m]
                      /\ lock[runs[m].res] # s
                      /\ lock'[runs[m].res] = lock[runs[m].res]
                      /\ scan'[lock[runs[m].res]] = scan[lock[runs[m].res]]
    OBVIOUS
  <2>1. ~Flushed(s, m)
    OBVIOUS
  <2>2. runs'[m] = runs[m] /\ lock[runs[m].res] # s
    BY <2>1 DEF Flushed
  <2> QED BY <1>2, <1>3, <2>2, ScanFacts
<1>5. \A w \in Workers : job[w].pc # "idle" => runs'[job[w].run] = runs[job[w].run]
  BY DEF References, Flushed
<1>6. \A q \in Requests : call[q].pc \in {"enqueue", "abort"} =>
        runs'[call[q].run] = runs[call[q].run]
  BY DEF Progress, References, Flushed
<1>7. \A m \in Runs : runs'[m].status # "none" => runs[m].status # "none"
  BY DEF Flushed
<1>8. \A r \in Resources : rows'[r].status \in {"absent", "purged"} =>
        rows'[r] = rows[r]
  OBVIOUS
<1>9. TypeOK'
  BY <1>2, <1>3 DEF TypeOK
<1>10. References'
  <2>1. \A q \in Requests : call[q].pc \in {"enqueue", "confirm", "abort"} =>
          runs'[call[q].run].status # "none"
    BY DEF References, Flushed
  <2>2. \A m \in Runs : runs'[m].status # "none" => runs'[m].res \in Resources
    BY <1>7 DEF References
  <2>3. \A r \in Resources : rows'[r].status = "absent" =>
         rows'[r].snap = NoRun /\ \A m \in Runs : runs'[m].status # "none" => runs'[m].res # r
    BY <1>7, <1>8 DEF References
  <2> QED BY <1>5, <2>1, <2>2, <2>3 DEF References
<1>11. Locking'
  <2>1. \A x \in Schedulers, r \in Resources : scan'[x].plan[r] # "none" =>
           /\ lock'[r] = x /\ r \notin Bundles /\ Present(r)'
           /\ scan'[x].pc = "scanning"
    <3> SUFFICES ASSUME NEW x \in Schedulers, NEW r \in Resources, scan'[x].plan[r] # "none"
                 PROVE  /\ lock'[r] = x /\ r \notin Bundles /\ Present(r)'
                        /\ scan'[x].pc = "scanning"
      OBVIOUS
    <3>1. x # s /\ scan'[x] = scan[x]
      BY <1>3
    <3>2. lock[r] = x /\ r \notin Bundles /\ Present(r) /\ scan[x].pc = "scanning"
      BY <3>1 DEF Locking
    <3> QED BY <1>2, <3>1, <3>2 DEF Present
  <2>2. \A m \in Runs : runs'[m].status = "flushed" =>
           LET x == lock'[runs'[m].res] IN
           x \in Schedulers /\ scan'[x].plan[runs'[m].res] \in {"queued", "failed"}
    BY <1>4, ScanFacts
  <2>3. \A w \in Workers : job'[w].pc = "ingesting" =>
           LET m == job'[w].run
               r == runs'[m].res
           IN  /\ lock'[r] = w /\ runs'[m].status \in Active
               /\ rows'[r].status \notin {"absent", "purged"} /\ ~Inactive(rows'[r])
    <3> SUFFICES ASSUME NEW w \in Workers, job[w].pc = "ingesting"
                 PROVE  LET m == job[w].run
                            r == runs[m].res
                        IN  /\ lock'[r] = w /\ runs[m].status \in Active
                            /\ rows'[r].status \notin {"absent", "purged"} /\ ~Inactive(rows'[r])
      BY <1>5
    <3>1. LET m == job[w].run
              r == runs[m].res
          IN  /\ r \in Resources /\ lock[r] = w /\ w # s /\ runs[m].status \in Active
              /\ Present(r) /\ ~Inactive(rows[r])
      BY ScanFacts DEF Locking
    <3> QED BY <1>2, <3>1 DEF Present, Inactive
  <2> QED BY <2>1, <2>2, <2>3, LockingAfter
<1>12. Carriers'
  BY DEF Carriers
<1>13. Progress'
  <2>1. \A m \in Runs : m \in queue =>
         /\ runs'[m].status \in {"flushed", "enqueueing", "queued", "gone"}
         /\ runs'[m].status = "flushed" =>
              scan'[lock'[runs'[m].res]].plan[runs'[m].res] = "queued"
    BY <1>4 DEF Progress
  <2> QED BY <1>5, <1>6, <2>1 DEF Progress
<1>14. OneRunPerBundle' /\ OneLiveRun'
  <2>1. \A m \in Runs : runs'[m].status \in Live => runs[m].status \in Live
    BY DEF Flushed, Live
  <2> QED BY <1>7, <2>1 DEF OneRunPerBundle, OneLiveRun
<1>15. PurgedRuns' /\ LostToPurge'
  <2>1. PurgedRuns'
    <3> SUFFICES ASSUME NEW m \in Runs, runs'[m].status # "none",
                        rows'[runs'[m].res].status = "purged"
                 PROVE  runs'[m].status = "gone"
      BY DEF PurgedRuns
    <3>1. runs[m].status # "none" /\ runs[m].res \in Resources /\ runs'[m].res = runs[m].res
      BY <1>7 DEF References
    <3>2. rows[runs[m].res].status = "purged"
      BY <1>8, <3>1
    <3>3. runs[m].status = "gone"
      BY <3>1, <3>2 DEF PurgedRuns
    <3> QED BY <3>3 DEF Flushed
  <2>2. LostToPurge'
    <3> SUFFICES ASSUME NEW w \in Workers, job[w].pc = "begun",
                        runs[job[w].run].status = "gone"
                 PROVE  rows'[runs[job[w].run].res].status = "purged"
      BY <1>5 DEF LostToPurge
    <3>1. runs[job[w].run].res \in Resources /\ rows[runs[job[w].run].res].status = "purged"
      BY DEF LostToPurge, References
    <3> QED BY <1>1, <1>2, <3>1
  <2> QED BY <2>1, <2>2
<1> QED BY <1>9, <1>10, <1>11, <1>12, <1>13, <1>14, <1>15

\* CommitScan keeps the invariant: flushed runs become queued or failed as planned.
LEMMA CommitScanStep ==
  ASSUME IInv, NEW s \in Schedulers, CommitScan(s)
  PROVE  IInv'
<1> USE DEF IInv
<1>1. /\ UNCHANGED <<queue, call, job>> /\ scan[s].pc = "scanning" /\ lock' = Release(s)
      /\ scan' = [scan EXCEPT ![s] = [pc |-> "idle", plan |-> [r \in Resources |-> "none"]]]
  BY DEF CommitScan
<1>2. \A m \in Runs : Flushed(s, m) =>
        /\ scan[s].plan[runs[m].res] \in {"queued", "failed"}
        /\ m \in queue => scan[s].plan[runs[m].res] = "queued"
  BY ScanFacts DEF Flushed, Progress
<1>3. /\ runs' \in [Runs -> Run]
      /\ \A m \in Runs : runs'[m].res = runs[m].res
      /\ \A m \in Runs : ~Flushed(s, m) => runs'[m] = runs[m]
      /\ \A m \in Runs : Flushed(s, m) => runs'[m].status = scan[s].plan[runs[m].res]
  <2> DEFINE new(m) == IF Flushed(s, m)
                         THEN [runs[m] EXCEPT !.status = scan[s].plan[runs[m].res]]
                         ELSE runs[m]
  <2>1. \A m \in Runs : /\ new(m) \in Run
                        /\ new(m).res = runs[m].res
                        /\ ~Flushed(s, m) => new(m) = runs[m]
                        /\ Flushed(s, m) => new(m).status = scan[s].plan[runs[m].res]
    <3> SUFFICES ASSUME NEW m \in Runs
                 PROVE  /\ new(m) \in Run
                        /\ new(m).res = runs[m].res
                        /\ ~Flushed(s, m) => new(m) = runs[m]
                        /\ Flushed(s, m) => new(m).status = scan[s].plan[runs[m].res]
      OBVIOUS
    <3>1. runs[m] \in Run
      BY DEF TypeOK
    <3>2. CASE Flushed(s, m)
      <4>1. scan[s].plan[runs[m].res] \in RunStatus
        BY <1>2, <3>2 DEF RunStatus, Active
      <4> QED BY <3>1, <3>2, <4>1 DEF Run
    <3> QED BY <3>1, <3>2
  <2>2. runs' = [m \in Runs |-> new(m)]
    BY DEF CommitScan
  <2> HIDE DEF new
  <2> QED BY <2>1, <2>2
<1>4. /\ rows' \in [Resources -> Row]
      /\ \A r \in Resources : scan[s].plan[r] = "none" => rows'[r] = rows[r]
      /\ \A r \in Resources : /\ rows'[r].snap = rows[r].snap
                              /\ scan[s].plan[r] # "none" =>
                                   rows'[r].status \notin {"absent", "purged"}
  <2>1. PICK due \in SUBSET Resources :
         rows' = [r \in Resources |->
                    CASE scan[s].plan[r] \in {"later", "queued"} ->
                           [rows[r] EXCEPT !.next = "future"]
                      [] scan[s].plan[r] = "failed" ->
                           [rows[r] EXCEPT !.status = "failed",
                                           !.next = IF r \in due THEN "due" ELSE "future"]
                      [] OTHER -> rows[r]]
    BY DEF CommitScan
  <2> DEFINE later(r) == [rows[r] EXCEPT !.next = "future"]
             failed(r) == [rows[r] EXCEPT !.status = "failed",
                                          !.next = IF r \in due THEN "due" ELSE "future"]
  <2>2. \A r \in Resources : rows[r] \in Row
    BY DEF TypeOK
  <2>3. \A r \in Resources : /\ later(r) \in Row /\ later(r).snap = rows[r].snap
                             /\ later(r).status = rows[r].status
    BY <2>2 DEF Row
  <2>4. \A r \in Resources : /\ failed(r) \in Row /\ failed(r).snap = rows[r].snap
                             /\ failed(r).status = "failed"
    BY <2>2 DEF Row
  <2>5. \A r \in Resources : scan[s].plan[r] # "none" =>
          rows[r].status \notin {"absent", "purged"}
    BY DEF Locking, Present
  <2> DEFINE new(r) == CASE scan[s].plan[r] \in {"later", "queued"} -> later(r)
                         [] scan[s].plan[r] = "failed" -> failed(r)
                         [] OTHER -> rows[r]
  <2>6. rows' = [r \in Resources |-> new(r)]
    BY <2>1
  <2> HIDE DEF later, failed
  <2>7. \A r \in Resources : \/ new(r) = later(r) /\ scan[s].plan[r] # "none"
                             \/ new(r) = failed(r) /\ scan[s].plan[r] # "none"
                             \/ new(r) = rows[r]
    OBVIOUS
  <2> HIDE DEF new
  <2> QED BY <2>2, <2>3, <2>4, <2>5, <2>6, <2>7
<1>5. \A m \in Runs : Flushed(s, m) =>
        /\ runs'[m].status \in {"queued", "failed", "gone"}
        /\ m \in queue => runs'[m].status \in {"queued", "gone"}
  BY <1>2, <1>3
<1> HIDE DEF IInv
<1>6. /\ \A m \in Runs : runs'[m].res = runs[m].res
      /\ \A m \in Runs : ~Flushed(s, m) => runs'[m] = runs[m]
  BY <1>3
<1>7. \A r \in Resources : /\ rows'[r].snap = rows[r].snap
                           /\ scan[s].plan[r] # "none" =>
                                rows'[r].status \notin {"absent", "purged"}
  BY <1>4
<1> QED BY <1>1, <1>3, <1>4, <1>5, <1>6, <1>7, EndScanStep

\* ScanRollback keeps the invariant: the flushed runs never existed.
LEMMA ScanRollbackStep ==
  ASSUME IInv, NEW s \in Schedulers, ScanRollback(s)
  PROVE  IInv'
<1> USE DEF IInv
<1>1. /\ UNCHANGED <<rows, queue, call, job>> /\ scan[s].pc = "scanning" /\ lock' = Release(s)
      /\ scan' = [scan EXCEPT ![s] = [pc |-> "idle", plan |-> [r \in Resources |-> "none"]]]
  BY DEF ScanRollback
<1>2. /\ runs' \in [Runs -> Run]
      /\ \A m \in Runs : runs'[m].res = runs[m].res
      /\ \A m \in Runs : ~Flushed(s, m) => runs'[m] = runs[m]
      /\ \A m \in Runs : Flushed(s, m) => runs'[m].status = "gone"
  <2> DEFINE new(m) == IF Flushed(s, m) THEN [runs[m] EXCEPT !.status = "gone"] ELSE runs[m]
  <2>1. \A m \in Runs : runs[m] \in Run
    BY DEF TypeOK
  <2>2. \A m \in Runs : /\ new(m) \in Run
                        /\ new(m).res = runs[m].res
                        /\ ~Flushed(s, m) => new(m) = runs[m]
                        /\ Flushed(s, m) => new(m).status = "gone"
    BY <2>1 DEF Run, RunStatus
  <2>3. runs' = [m \in Runs |-> new(m)]
    BY DEF ScanRollback
  <2> HIDE DEF new
  <2> QED BY <2>2, <2>3
<1>3. /\ rows' \in [Resources -> Row]
      /\ \A r \in Resources : scan[s].plan[r] # "none" =>
           rows'[r].status \notin {"absent", "purged"}
  BY <1>1 DEF TypeOK, Locking, Present
<1> QED BY <1>1, <1>2, <1>3, EndScanStep

-----------------------------------------------------------------------------
(* The invariant *)

\* The initial state satisfies the invariant.
LEMMA InitIInv == Init => IInv
<1> SUFFICES ASSUME Init PROVE IInv
  OBVIOUS
<1>1. /\ \A r \in Resources : rows[r] = EmptyRow("absent") /\ lock[r] = Nobody
      /\ \A n \in Runs : runs[n].status = "none"
      /\ queue = {}
      /\ \A q \in Requests : call[q].pc = "new"
      /\ \A w \in Workers : job[w].pc = "idle"
      /\ \A s \in Schedulers, r \in Resources : scan[s].plan[r] = "none"
  BY DEF Init, Blank
<1>2. TypeOK
  <2>1. EmptyRow("absent") \in Row
    BY DEF EmptyRow, Row, AllFrequencies
  <2>2. rows \in [Resources -> Row] /\ lock \in [Resources -> Workers \cup Schedulers \cup {Nobody}]
    BY <2>1 DEF Init
  <2>3. runs \in [Runs -> Run]
    BY DEF Init, Run, RunStatus
  <2>4. call \in [Requests -> Call]
    <3>1. Blank("new") \in Call
      BY <2>1 DEF Blank, Call, NoWant, Want
    <3> QED BY <3>1 DEF Init
  <2>5. job \in [Workers -> Job]
    BY DEF Init, Job
  <2>6. scan \in [Schedulers -> Scan]
    BY DEF Init, Scan, Plan
  <2> QED BY <1>1, <2>2, <2>3, <2>4, <2>5, <2>6 DEF TypeOK
<1>3. References
  BY <1>1 DEF References, EmptyRow
<1>4. Locking
  BY <1>1 DEF Locking
<1>5. Carriers /\ Progress /\ LostToPurge
  BY <1>1 DEF Carriers, Progress, LostToPurge
<1>6. OneRunPerBundle /\ PurgedRuns /\ OneLiveRun
  BY <1>1 DEF OneRunPerBundle, PurgedRuns, OneLiveRun, Live, Active
<1> QED BY <1>2, <1>3, <1>4, <1>5, <1>6 DEF IInv

\* Every step keeps the invariant.
LEMMA NextIInv ==
  ASSUME NoAmbiguousEnqueue, IInv, [Next]_vars
  PROVE  IInv'
<1>1. CASE \E q \in Requests : CallStep(q)
  <2>1. PICK q \in Requests : CallStep(q)
    BY <1>1
  <2>2. ASSUME NEW r \in Resources, ResolveForRefresh(q, r) PROVE IInv'
    BY <2>2, ResolveForRefreshStep
  <2>3. ASSUME NEW r \in Resources, NEW n \in Runs, UploadFolderBundle(q, r, n) PROVE IInv'
    BY <2>3, UploadFolderBundleStep
  <2>4. CASE ClaimRefresh(q)
    BY <2>4, ClaimRefreshStep
  <2>5. CASE Enqueue(q)
    BY <2>5, EnqueueStep
  <2>6. CASE ConfirmEnqueued(q)
    BY <2>6, ConfirmEnqueuedStep
  <2>7. CASE AbortRefresh(q)
    BY <2>7, AbortRefreshStep
  <2>8. CASE AbortUpload(q)
    BY <2>8, AbortUploadStep
  <2>9. CASE CallCrash(q)
    BY <2>9, CallCrashStep
  <2>10. ASSUME NEW op \in Lifecycle, NEW r \in Resources, NEW want \in Want,
                ResolveLifecycle(q, op, r, want)
         PROVE  IInv'
    BY <2>10, ResolveLifecycleStep
  <2>11. CASE WriteLifecycle(q)
    BY <2>11, WriteLifecycleStep
  <2>12. CASE PurgeResource(q)
    BY <2>12, PurgeResourceStep
  <2> QED BY <2>1, <2>2, <2>3, <2>4, <2>5, <2>6, <2>7, <2>8, <2>9, <2>10, <2>11, <2>12
          DEF CallStep
<1>2. CASE \E w \in Workers : WorkerStep(w)
  <2>1. PICK w \in Workers : WorkerStep(w)
    BY <1>2
  <2>2. ASSUME NEW n \in Runs, TakeJob(w, n) PROVE IInv'
    BY <2>2, TakeJobStep
  <2>3. CASE BeginRun(w)
    BY <2>3, BeginRunStep
  <2>4. CASE LockResource(w)
    BY <2>4, LockResourceStep
  <2>5. CASE CommitRun(w)
    BY <2>5, CommitRunStep
  <2>6. CASE RunRaises(w)
    BY <2>6, RunRaisesStep
  <2>7. CASE RecordFailure(w)
    BY <2>7, RecordFailureStep
  <2>8. CASE WorkerCrash(w)
    BY <2>8, WorkerCrashStep
  <2> QED BY <2>1, <2>2, <2>3, <2>4, <2>5, <2>6, <2>7, <2>8 DEF WorkerStep
<1>3. CASE \E s \in Schedulers : SchedulerStep(s)
  <2>1. PICK s \in Schedulers : SchedulerStep(s)
    BY <1>3
  <2>2. CASE StartScan(s)
    BY <2>2, StartScanStep
  <2>3. ASSUME NEW r \in Resources, SkipResource(s, r) PROVE IInv'
    BY <2>3, SkipResourceStep
  <2>4. ASSUME NEW r \in Resources, NEW n \in Runs, EnqueueDue(s, r, n) PROVE IInv'
    BY <2>4, EnqueueDueStep
  <2>5. CASE CommitScan(s)
    BY <2>5, CommitScanStep
  <2>6. CASE ScanRollback(s)
    BY <2>6, ScanRollbackStep
  <2> QED BY <2>1, <2>2, <2>3, <2>4, <2>5, <2>6 DEF SchedulerStep
<1>4. CASE \E r \in Resources : CreateResource(r) \/ TimePasses(r)
  BY <1>4, CreateResourceStep, TimePassesStep
<1>5. CASE UNCHANGED vars
  <2>1. UNCHANGED <<rows, runs, queue, lock, call, job, scan>>
    BY <1>5 DEF vars
  <2>2. TypeOK'
    BY <2>1 DEF IInv, TypeOK
  <2>3. References' /\ Carriers' /\ Progress' /\ LostToPurge'
    BY <2>1 DEF IInv, References, Carriers, Progress, LostToPurge
  <2>4. Locking'
    BY <2>1 DEF IInv, Locking, Present, Inactive
  <2>5. OneRunPerBundle' /\ PurgedRuns' /\ OneLiveRun'
    BY <2>1 DEF IInv, OneRunPerBundle, PurgedRuns, OneLiveRun
  <2> QED BY <2>2, <2>3, <2>4, <2>5 DEF IInv
<1> QED BY <1>1, <1>2, <1>3, <1>4, <1>5 DEF Next

-----------------------------------------------------------------------------
(* Theorems *)

\* IInv holds in every reachable state, for any number of resources, runs,
\* calls, workers and schedulers, when an enqueue that raises stored no job.
THEOREM Invariance == ASSUME NoAmbiguousEnqueue PROVE Spec => []IInv
<1>1. Init => IInv
  BY InitIInv
<1>2. IInv /\ [Next]_vars => IInv'
  BY NextIInv
<1> QED BY <1>1, <1>2, PTL DEF Spec

\* Every table, lock and process state keeps its type.
THEOREM TypeCorrect == ASSUME NoAmbiguousEnqueue PROVE Spec => []TypeOK
<1>1. IInv => TypeOK
  BY DEF IInv
<1> QED BY <1>1, Invariance, PTL

\* A resource never has two runs enqueueing, queued or running: manual refreshes
\* (refresh_resource), uploads, scheduler passes (enqueue_due_refreshes) and
\* workers (run_index) together keep the promise of SPEC.md.
THEOREM OneActiveRun == ASSUME NoAmbiguousEnqueue PROVE Spec => []OneActiveRunPerResource
<1>1. IInv => OneActiveRunPerResource
  BY DEF IInv, OneLiveRun, OneActiveRunPerResource, Live
<1> QED BY <1>1, Invariance, PTL

\* A commit of run_index replaces the current snapshot by its run's, or keeps it.
LEMMA CommitRunAdvances ==
  ASSUME IInv, NEW w \in Workers, CommitRun(w)
  PROVE  AdvancedByActiveRun
<1> DEFINE n == job[w].run
           r == runs[n].res
<1> USE DEF IInv
<1>1. job[w].pc = "ingesting" /\ n \in Runs /\ r \in Resources
  BY DEF CommitRun, References
<1>2. runs[n].status \in Active /\ ~rows[r].archived /\ ~rows[r].deleted
  BY <1>1 DEF Locking, Inactive
<1>3. n # NoRun
  BY <1>1, ConstantsAssumption
<1>4. PICK snap \in {n} \cup (IF runs[n].trigger = "scheduled" /\ rows[r].snap # NoRun
                               THEN {rows[r].snap} ELSE {}) :
        rows' = [rows EXCEPT ![r].status = "active", ![r].snap = snap,
                             ![r].next = NextAfterRefresh(rows[r].freq)]
  BY DEF CommitRun
<1>5. snap \in {n, rows[r].snap}
  BY <1>4
<1>6. /\ rows'[r].snap = snap /\ rows'[r].archived = rows[r].archived
      /\ rows'[r].deleted = rows[r].deleted
      /\ \A x \in Resources : x # r => rows'[x] = rows[x]
  <2> DEFINE next == NextAfterRefresh(rows[r].freq)
             new == [rows[r] EXCEPT !.status = "active", !.snap = snap, !.next = next]
  <2>1. rows \in [Resources -> Row] /\ rows[r] \in Row
    BY <1>1 DEF TypeOK
  <2>2. new.snap = snap /\ new.archived = rows[r].archived /\ new.deleted = rows[r].deleted
    BY <2>1 DEF Row
  <2>3. rows' = [rows EXCEPT ![r] = new]
    BY <1>4, <2>1
  <2> HIDE DEF new
  <2> QED BY <1>1, <2>1, <2>2, <2>3
<1>7. runs'[n].status = "succeeded"
  BY <1>1, SetRunFacts DEF CommitRun, RunStatus
<1> QED BY <1>1, <1>2, <1>3, <1>5, <1>6, <1>7 DEF AdvancedByActiveRun

\* Only a commit of run_index and a purge move the current snapshot of a resource.
LEMMA SnapshotKept ==
  ASSUME IInv, [Next]_vars, NEW x \in Resources, rows'[x].snap # rows[x].snap
  PROVE  (\E w \in Workers : CommitRun(w)) \/ (\E q \in Requests : PurgeResource(q))
<1> USE DEF IInv
<1>0. rows \in [Resources -> Row]
  BY DEF TypeOK
<1>1. \A r \in Resources : ~CreateResource(r)
  <2> SUFFICES ASSUME NEW r \in Resources, CreateResource(r) PROVE FALSE
    OBVIOUS
  <2>1. PICK freq \in Frequencies :
          rows' = [rows EXCEPT ![r] = [EmptyRow("active") EXCEPT
                                         !.freq = freq, !.next = NextAfterRefresh(freq)]]
    BY DEF CreateResource
  <2>2. rows[r].snap = NoRun
    BY DEF CreateResource, References
  <2> QED BY <1>0, <2>1, <2>2 DEF EmptyRow
<1>2. \A r \in Resources : ~TimePasses(r)
  BY <1>0 DEF TimePasses, Row
<1>3. \A q \in Requests, r \in Resources, n \in Runs : ~UploadFolderBundle(q, r, n)
  BY <1>0 DEF UploadFolderBundle, References, EmptyRow
<1>4. \A q \in Requests : ~AbortUpload(q)
  BY <1>0 DEF AbortUpload, Row
<1>6. \A q \in Requests : ~WriteLifecycle(q)
  <2> SUFFICES ASSUME NEW q \in Requests, WriteLifecycle(q) PROVE FALSE
    OBVIOUS
  <2>1. call[q] \in Call /\ call[q].res \in Resources
    BY DEF TypeOK, WriteLifecycle, References
  <2>2. CASE UNCHANGED rows
    BY <2>2
  <2>3. CASE /\ Present(call[q].res)
             /\ \E row \in Rewritten(call[q], rows[call[q].res]) :
                  rows' = [rows EXCEPT ![call[q].res] = row]
    <3>1. PICK row \in Rewritten(call[q], rows[call[q].res]) :
            rows' = [rows EXCEPT ![call[q].res] = row]
      BY <2>3
    <3>2. row.snap = rows[call[q].res].snap
      BY <1>0, <2>1, <2>3, RewrittenFacts DEF Present
    <3> QED BY <1>0, <2>1, <3>1, <3>2
  <2> QED BY <2>2, <2>3 DEF WriteLifecycle
<1>7. \A w \in Workers : ~RecordFailure(w)
  <2> SUFFICES ASSUME NEW w \in Workers, RecordFailure(w) PROVE FALSE
    OBVIOUS
  <2> DEFINE r == runs[job[w].run].res
             next == IF runs[job[w].run].trigger = "scheduled" THEN "future" ELSE rows[r].next
             row == [rows[r] EXCEPT !.status = "failed", !.next = next]
  <2>1. rows' = rows \/ rows' = [rows EXCEPT ![r] = row]
    BY DEF RecordFailure
  <2>2. rows[x] \in Row
    BY <1>0
  <2>3. x = r => row.snap = rows[x].snap
    BY <2>2 DEF Row
  <2> HIDE DEF r, row, next
  <2> QED BY <1>0, <2>1, <2>3
<1>8. \A s \in Schedulers : ~CommitScan(s)
  <2> SUFFICES ASSUME NEW s \in Schedulers, CommitScan(s) PROVE FALSE
    OBVIOUS
  <2>1. PICK due \in SUBSET Resources :
          rows'[x] = CASE scan[s].plan[x] \in {"later", "queued"} ->
                            [rows[x] EXCEPT !.next = "future"]
                       [] scan[s].plan[x] = "failed" ->
                            [rows[x] EXCEPT !.status = "failed",
                                            !.next = IF x \in due THEN "due" ELSE "future"]
                       [] OTHER -> rows[x]
    BY DEF CommitScan
  <2>2. rows[x] \in Row
    BY <1>0
  <2>3. [rows[x] EXCEPT !.next = "future"].snap = rows[x].snap
    BY <2>2 DEF Row
  <2>4. [rows[x] EXCEPT !.status = "failed",
                        !.next = IF x \in due THEN "due" ELSE "future"].snap = rows[x].snap
    BY <2>2 DEF Row
  <2> QED BY <2>1, <2>3, <2>4
<1>9. rows' # rows
  OBVIOUS
<1>10. \A q \in Requests : CallStep(q) => PurgeResource(q)
  BY <1>3, <1>4, <1>6, <1>9 DEF CallStep, ResolveForRefresh, ClaimRefresh, Enqueue,
     ConfirmEnqueued, AbortRefresh, CallCrash, ResolveLifecycle
<1>11. \A s \in Schedulers : ~SchedulerStep(s)
  BY <1>8, <1>9 DEF SchedulerStep, StartScan, SkipResource, EnqueueDue, ScanRollback
<1>12. \A w \in Workers : WorkerStep(w) => CommitRun(w)
  BY <1>7, <1>9 DEF WorkerStep, TakeJob, BeginRun, LockResource, RunRaises, WorkerCrash
<1> QED BY <1>1, <1>2, <1>9, <1>10, <1>11, <1>12 DEF Next, vars

\* current_snapshot_id moves only in the transaction that ends an active run of
\* the resource as succeeded, on a row neither archived nor deleted.
THEOREM SnapshotAdvances == ASSUME NoAmbiguousEnqueue PROVE Spec => SnapshotAdvance
<1>1. ASSUME IInv, [Next]_vars PROVE AdvancedByActiveRun
  <2>1. CASE \E w \in Workers : CommitRun(w)
    BY <1>1, <2>1, CommitRunAdvances
  <2>2. CASE ~\E w \in Workers : CommitRun(w)
    <3> SUFFICES ASSUME NEW r \in Resources,
                        rows'[r].snap # rows[r].snap, rows'[r].status # "purged"
                 PROVE  FALSE
      BY DEF AdvancedByActiveRun
    <3>1. PICK q \in Requests : PurgeResource(q)
      BY <1>1, <2>2, SnapshotKept
    <3>2. rows \in [Resources -> Row]
      BY <1>1 DEF IInv, TypeOK
    <3> QED BY <3>1, <3>2 DEF PurgeResource, EmptyRow
  <2> QED BY <2>1, <2>2
<1>2. IInv /\ [Next]_vars => [AdvancedByActiveRun]_vars
  BY <1>1
<1> QED BY <1>2, Invariance, PTL DEF Spec, SnapshotAdvance

\* A purged resource has no run row and no worker ingesting it.
THEOREM PurgeIsComplete == ASSUME NoAmbiguousEnqueue PROVE Spec => []PurgedLeavesNothing
<1>1. IInv => PurgedLeavesNothing
  BY DEF IInv, PurgedRuns, PurgedLeavesNothing, Locking, Present, Visible
<1> QED BY <1>1, Invariance, PTL

-----------------------------------------------------------------------------
(* What a scheduler decides stays true until it commits *)

\* Nobody but its scheduler, at the commit, writes a row that is in a plan.
LEMMA PlannedRowKept ==
  ASSUME IInv, [Next]_vars, NEW s \in Schedulers, NEW x \in Resources,
         scan[s].plan[x] # "none", ~CommitScan(s)
  PROVE  rows'[x] = rows[x]
<1> SUFFICES ASSUME rows'[x] # rows[x] PROVE FALSE
  OBVIOUS
<1> USE DEF IInv
<1>0. /\ lock[x] = s /\ Present(x) /\ s \notin Workers /\ s # Nobody
      /\ rows \in [Resources -> Row] /\ rows' # rows
  BY ScanFacts DEF Locking
<1>1. \A r \in Resources : ~CreateResource(r) /\ ~TimePasses(r)
  BY <1>0 DEF CreateResource, TimePasses, Present
<1>2. \A q \in Requests, r \in Resources, n \in Runs : ~UploadFolderBundle(q, r, n)
  BY <1>0 DEF UploadFolderBundle, Present
<1>3. \A q \in Requests : ~AbortUpload(q) /\ ~PurgeResource(q) /\ ~WriteLifecycle(q)
  BY <1>0 DEF AbortUpload, PurgeResource, WriteLifecycle
<1>4. \A w \in Workers : ~RecordFailure(w)
  BY <1>0 DEF RecordFailure
<1>5. \A w \in Workers : ~CommitRun(w)
  <2> SUFFICES ASSUME NEW w \in Workers, CommitRun(w) PROVE FALSE
    OBVIOUS
  <2>1. /\ job[w].run \in Runs /\ runs[job[w].run].res \in Resources
        /\ lock[runs[job[w].run].res] = w
    BY ScanFacts DEF CommitRun
  <2> QED BY <1>0, <2>1 DEF CommitRun
<1>6. \A v \in Schedulers : ~CommitScan(v)
  <2> SUFFICES ASSUME NEW v \in Schedulers, CommitScan(v), v # s PROVE FALSE
    OBVIOUS
  <2>1. scan[v].plan[x] = "none"
    BY <1>0 DEF Locking
  <2> QED BY <2>1 DEF CommitScan
<1>7. \A q \in Requests : ~CallStep(q)
  BY <1>0, <1>2, <1>3 DEF CallStep, ResolveForRefresh, ClaimRefresh, Enqueue,
     ConfirmEnqueued, AbortRefresh, CallCrash, ResolveLifecycle
<1>8. \A v \in Schedulers : ~SchedulerStep(v)
  BY <1>0, <1>6 DEF SchedulerStep, StartScan, SkipResource, EnqueueDue, ScanRollback
<1>9. \A w \in Workers : ~WorkerStep(w)
  BY <1>0, <1>4, <1>5 DEF WorkerStep, TakeJob, BeginRun, LockResource, RunRaises, WorkerCrash
<1> QED BY <1>0, <1>1, <1>7, <1>8, <1>9 DEF Next, vars

\* A plan entry appears when the query finds the row, and becomes queued or failed
\* only for a row with an interval.
LEMMA PlanOrigin ==
  ASSUME IInv, [Next]_vars, NEW s \in Schedulers, NEW x \in Resources,
         scan'[s].plan[x] # "none"
  PROVE  \/ StartScan(s) /\ Schedulable(x) /\ scan'[s].plan[x] = "todo"
         \/ /\ scan[s].plan[x] # "none" /\ ~CommitScan(s)
            /\ \/ scan'[s].plan[x] = scan[s].plan[x]
               \/ scan'[s].plan[x] \in {"skip", "later"}
               \/ rows[x].freq = "interval"
<1>1. scan \in [Schedulers -> Scan]
  BY ScanFacts
<1>2. CASE UNCHANGED scan
  <2>1. ~CommitScan(s)
    <3> SUFFICES ASSUME CommitScan(s) PROVE FALSE
      OBVIOUS
    <3>1. scan'[s].plan[x] = "none"
      BY <1>1 DEF CommitScan
    <3> QED BY <3>1
  <2> QED BY <1>2, <2>1
<1>3. ASSUME NEW v \in Schedulers, StartScan(v)
      PROVE  \/ StartScan(s) /\ Schedulable(x) /\ scan'[s].plan[x] = "todo"
             \/ scan[s].plan[x] # "none" /\ ~CommitScan(s) /\ scan'[s].plan[x] = scan[s].plan[x]
  <2>1. PICK batch \in SUBSET {r \in Resources : Schedulable(r) /\ lock[r] = Nobody} :
          scan' = [scan EXCEPT ![v] =
                      [pc |-> "scanning",
                       plan |-> [r \in Resources |-> IF r \in batch THEN "todo" ELSE "none"]]]
    BY <1>3 DEF StartScan
  <2>2. CASE v = s
    <3>1. scan'[s].plan[x] = IF x \in batch THEN "todo" ELSE "none"
      BY <1>1, <2>1, <2>2
    <3> QED BY <1>3, <2>1, <2>2, <3>1
  <2>3. CASE v # s
    <3>1. scan'[s] = scan[s]
      BY <1>1, <2>1, <2>3
    <3>2. ~CommitScan(s)
      <4> SUFFICES ASSUME CommitScan(s) PROVE FALSE
        OBVIOUS
      <4>1. scan'[s].plan[x] = "none"
        BY <1>1 DEF CommitScan
      <4> QED BY <4>1
    <3> QED BY <3>1, <3>2
  <2> QED BY <2>2, <2>3
<1>4. ASSUME NEW v \in Schedulers, CommitScan(v) \/ ScanRollback(v)
      PROVE  v # s /\ scan'[s] = scan[s]
  <2> DEFINE idle == [pc |-> "idle", plan |-> [r \in Resources |-> "none"]]
  <2>1. scan' = [scan EXCEPT ![v] = idle]
    BY <1>4 DEF CommitScan, ScanRollback
  <2>2. idle.plan[x] = "none"
    OBVIOUS
  <2> HIDE DEF idle
  <2> QED BY <1>1, <2>1, <2>2
<1>5. ~CommitScan(s) /\ ~ScanRollback(s)
  BY <1>4
<1>6. ASSUME NEW v \in Schedulers, NEW r \in Resources, SkipResource(v, r)
      PROVE  /\ scan[s].plan[x] # "none"
             /\ scan'[s].plan[x] \in {scan[s].plan[x], "skip", "later"}
  <2>1. PICK decision \in {"skip", "later"} : Decide(v, r, decision)
    BY <1>6 DEF SkipResource
  <2>2. decision \in Plan /\ scan[v].plan[r] = "todo"
    BY <1>6 DEF Plan, SkipResource
  <2> QED BY <2>1, <2>2, DecideFacts
<1>7. ASSUME NEW v \in Schedulers, NEW r \in Resources, NEW n \in Runs, EnqueueDue(v, r, n)
      PROVE  /\ scan[s].plan[x] # "none"
             /\ scan'[s].plan[x] = scan[s].plan[x] \/ rows[x].freq = "interval"
  <2>1. PICK decision \in {"queued", "failed"} : Decide(v, r, decision)
    BY <1>7 DEF EnqueueDue
  <2>2. decision \in Plan /\ scan[v].plan[r] = "todo" /\ rows[r].freq = "interval"
    BY <1>7 DEF Plan, EnqueueDue
  <2> QED BY <2>1, <2>2, DecideFacts
<1>8. \A q \in Requests : CallStep(q) => UNCHANGED scan
  <2> SUFFICES ASSUME NEW q \in Requests, CallStep(q) PROVE UNCHANGED scan
    OBVIOUS
  <2>1. CASE \E r \in Resources :
               ResolveForRefresh(q, r) \/ \E n \in Runs : UploadFolderBundle(q, r, n)
    BY <2>1 DEF ResolveForRefresh, UploadFolderBundle
  <2>2. CASE ClaimRefresh(q) \/ Enqueue(q) \/ ConfirmEnqueued(q)
    BY <2>2 DEF ClaimRefresh, Enqueue, ConfirmEnqueued
  <2>3. CASE AbortRefresh(q) \/ AbortUpload(q) \/ CallCrash(q)
    BY <2>3 DEF AbortRefresh, AbortUpload, CallCrash
  <2>4. CASE \E op \in Lifecycle, r \in Resources, want \in Want : ResolveLifecycle(q, op, r, want)
    BY <2>4 DEF ResolveLifecycle
  <2>5. CASE WriteLifecycle(q) \/ PurgeResource(q)
    BY <2>5 DEF WriteLifecycle, PurgeResource
  <2> QED BY <2>1, <2>2, <2>3, <2>4, <2>5 DEF CallStep
<1>9. \A w \in Workers : WorkerStep(w) => UNCHANGED scan
  BY DEF WorkerStep, TakeJob, BeginRun, LockResource, CommitRun, RunRaises, RecordFailure,
     WorkerCrash
<1>10. \A r \in Resources : CreateResource(r) \/ TimePasses(r) => UNCHANGED scan
  BY DEF CreateResource, TimePasses
<1>11. CASE \E v \in Schedulers : SchedulerStep(v)
  <2>1. PICK v \in Schedulers : SchedulerStep(v)
    BY <1>11
  <2>2. CASE StartScan(v)
    BY <1>3, <2>2
  <2>3. CASE \E r \in Resources : SkipResource(v, r)
    BY <1>5, <1>6, <2>3
  <2>4. CASE \E r \in Resources, n \in Runs : EnqueueDue(v, r, n)
    BY <1>5, <1>7, <2>4
  <2>5. CASE CommitScan(v) \/ ScanRollback(v)
    BY <1>4, <2>5
  <2> QED BY <2>1, <2>2, <2>3, <2>4, <2>5 DEF SchedulerStep
<1> QED BY <1>2, <1>8, <1>9, <1>10, <1>11 DEF Next, vars

\* Initially no scheduler has a plan; every step keeps PlannedRows.
LEMMA PlannedRowsInv == ASSUME NoAmbiguousEnqueue PROVE Spec => []PlannedRows
<1>1. Init => PlannedRows
  BY DEF Init, PlannedRows
<1>2. ASSUME IInv, PlannedRows, [Next]_vars PROVE PlannedRows'
  <2> SUFFICES ASSUME NEW s \in Schedulers, NEW x \in Resources
               PROVE  /\ scan'[s].plan[x] # "none" => Schedulable(x)'
                      /\ scan'[s].plan[x] \in {"queued", "failed"} => rows'[x].freq = "interval"
    BY DEF PlannedRows
  <2>1. CASE scan'[s].plan[x] = "none"
    BY <2>1
  <2>2. CASE StartScan(s) /\ Schedulable(x) /\ scan'[s].plan[x] = "todo"
    BY <2>2 DEF StartScan, Schedulable, Present, Inactive
  <2>3. CASE /\ scan[s].plan[x] # "none" /\ ~CommitScan(s)
             /\ \/ scan'[s].plan[x] = scan[s].plan[x]
                \/ scan'[s].plan[x] \in {"skip", "later"}
                \/ rows[x].freq = "interval"
    <3>1. rows'[x] = rows[x]
      BY <1>2, <2>3, PlannedRowKept
    <3>2. Schedulable(x) /\ (scan[s].plan[x] \in {"queued", "failed"} => rows[x].freq = "interval")
      BY <1>2, <2>3 DEF PlannedRows
    <3> QED BY <2>3, <3>1, <3>2 DEF Schedulable, Present, Inactive
  <2> QED BY <1>2, <2>1, <2>2, <2>3, PlanOrigin
<1> QED BY <1>1, <1>2, Invariance, PTL DEF Spec

\* A run that leaves "flushed" for "queued" does so in the commit of a pass.
LEMMA QueuedByCommit ==
  ASSUME IInv, [Next]_vars, NEW n \in Runs,
         runs[n].status = "flushed", runs'[n].status = "queued"
  PROVE  \E s \in Schedulers : CommitScan(s) /\ Flushed(s, n)
<1> USE DEF IInv
<1>1. runs \in [Runs -> Run] /\ runs[n] \in Run /\ runs' # runs
  BY DEF TypeOK
<1>2. \A q \in Requests, r \in Resources, m \in Runs : ~UploadFolderBundle(q, r, m)
  BY <1>1 DEF UploadFolderBundle
<1>3. \A q \in Requests : ~ClaimRefresh(q)
  BY <1>1 DEF ClaimRefresh
<1>15. \A m, status : SetRun(m, status) => runs'[n].status \in {runs[n].status, status}
  BY <1>1 DEF SetRun, Run
<1>4. \A q \in Requests : ~ConfirmEnqueued(q)
  BY <1>1 DEF ConfirmEnqueued, SetRun, Visible
<1>5. \A q \in Requests : ~AbortRefresh(q) /\ ~AbortUpload(q)
  BY <1>1, <1>15 DEF AbortRefresh, AbortUpload
<1>6. \A q \in Requests : ~PurgeResource(q)
  <2> SUFFICES ASSUME NEW q \in Requests, PurgeResource(q) PROVE FALSE
    OBVIOUS
  <2>1. runs'[n] \in {runs[n], [runs[n] EXCEPT !.status = "gone"]}
    BY DEF PurgeResource
  <2> QED BY <1>1, <2>1 DEF Run
<1>7. \A w \in Workers : ~BeginRun(w) /\ ~CommitRun(w) /\ ~RecordFailure(w)
  <2>1. \A w \in Workers : BeginRun(w) =>
          SetRun(job[w].run, "running") \/ UNCHANGED runs
    BY DEF BeginRun
  <2>2. \A w \in Workers : CommitRun(w) => SetRun(job[w].run, "succeeded")
    BY DEF CommitRun
  <2>3. \A w \in Workers : RecordFailure(w) =>
          SetRun(job[w].run, "failed") \/ UNCHANGED runs
    BY DEF RecordFailure
  <2>4. \A m : ~SetRun(m, "running") /\ ~SetRun(m, "succeeded") /\ ~SetRun(m, "failed")
    <3>1. \A m, status : SetRun(m, status) => "queued" \in {"flushed", status}
      BY <1>15
    <3> QED BY <3>1
  <2> QED BY <1>1, <2>1, <2>2, <2>3, <2>4
<1>8. \A s \in Schedulers : ~ScanRollback(s)
  <2> SUFFICES ASSUME NEW s \in Schedulers, ScanRollback(s) PROVE FALSE
    OBVIOUS
  <2>1. runs'[n] \in {runs[n], [runs[n] EXCEPT !.status = "gone"]}
    BY DEF ScanRollback
  <2> QED BY <1>1, <2>1 DEF Run
<1>9. \A s \in Schedulers, r \in Resources, m \in Runs : ~EnqueueDue(s, r, m)
  BY <1>1 DEF EnqueueDue
<1>10. \A s \in Schedulers : CommitScan(s) => Flushed(s, n)
  BY <1>1 DEF CommitScan
<1>11. \A q \in Requests : ~CallStep(q)
  BY <1>1, <1>2, <1>3, <1>4, <1>5, <1>6 DEF CallStep, ResolveForRefresh, Enqueue, CallCrash,
     ResolveLifecycle, WriteLifecycle
<1>12. \A w \in Workers : ~WorkerStep(w)
  BY <1>1, <1>7 DEF WorkerStep, TakeJob, LockResource, RunRaises, WorkerCrash
<1>13. \A s \in Schedulers : SchedulerStep(s) => CommitScan(s)
  BY <1>1, <1>8, <1>9 DEF SchedulerStep, StartScan, SkipResource
<1>14. \A r \in Resources : ~CreateResource(r) /\ ~TimePasses(r)
  BY <1>1 DEF CreateResource, TimePasses
<1> QED BY <1>1, <1>10, <1>11, <1>12, <1>13, <1>14 DEF Next, vars

\* enqueue_due_refreshes queues a run only for a resource that is, at the commit of
\* its pass, live, with retrieval enabled and an interval: nothing that archives,
\* deletes or disables the resource slips in between the query and the commit.
THEOREM ScheduledRunsAreLive ==
  ASSUME NoAmbiguousEnqueue PROVE Spec => ScheduledOnlyWhileLive
<1>1. ASSUME IInv, PlannedRows, [Next]_vars PROVE ScheduledWhileLive
  <2> SUFFICES ASSUME NEW n \in Runs, runs[n].status = "flushed", runs'[n].status = "queued"
               PROVE  LET row == rows'[runs[n].res] IN
                      ~row.archived /\ ~row.deleted /\ row.retrieval /\ row.freq = "interval"
    BY DEF ScheduledWhileLive
  <2> DEFINE r == runs[n].res
  <2>1. PICK s \in Schedulers : CommitScan(s) /\ Flushed(s, n)
    BY <1>1, QueuedByCommit
  <2>2. lock[r] = s /\ r \in Resources /\ scan[s].plan[r] \in {"queued", "failed"}
    BY <1>1, <2>1, ScanFacts DEF Flushed
  <2>3. Schedulable(r) /\ rows[r].freq = "interval"
    BY <1>1, <2>2 DEF PlannedRows
  <2>4. runs'[n].status = scan[s].plan[r]
    BY <1>1, <2>1 DEF CommitScan, IInv, TypeOK, Run
  <2>5. rows'[r] = [rows[r] EXCEPT !.next = "future"]
    BY <2>1, <2>2, <2>4 DEF CommitScan
  <2>6. rows[r] \in Row
    BY <1>1, <2>2 DEF IInv, TypeOK
  <2>7. /\ rows'[r].archived = rows[r].archived /\ rows'[r].deleted = rows[r].deleted
        /\ rows'[r].retrieval = rows[r].retrieval /\ rows'[r].freq = rows[r].freq
    BY <2>5, <2>6 DEF Row
  <2> QED BY <2>3, <2>7 DEF Schedulable, Inactive
<1>2. IInv /\ PlannedRows /\ [Next]_vars => [ScheduledWhileLive]_vars
  BY <1>1
<1> QED BY <1>2, Invariance, PlannedRowsInv, PTL DEF Spec, ScheduledOnlyWhileLive

-----------------------------------------------------------------------------
(* Refinement of RefreshSlots *)

\* A step that makes no run live and uses no fresh run.
NoNewHolder ==
    /\ \A n \in Runs : runs'[n].status \in Live =>
         runs[n].status \in Live /\ runs'[n].res = runs[n].res
    /\ \A n \in Runs : runs'[n].status = "none" <=> runs[n].status = "none"

\* The holder of a resource's slot is exactly its live run (OneLiveRun makes the
\* CHOOSE of Holder unique).
LEMMA HolderFacts == IInv => HoldersAreLive
<1> SUFFICES ASSUME IInv, NEW r \in Resources
             PROVE  /\ Holder(r) \in Runs \cup {NoRun}
                    /\ \A n \in Runs :
                         (runs[n].res = r /\ runs[n].status \in Live) <=> Holder(r) = n
  BY DEF HoldersAreLive
<1> DEFINE P(n) == runs[n].res = r /\ runs[n].status \in Live
<1>1. CASE \E n \in Runs : P(n)
  <2>1. Holder(r) \in Runs /\ P(Holder(r))
    BY <1>1 DEF Holder
  <2>2. \A n \in Runs : P(n) => n = Holder(r)
    BY <2>1 DEF IInv, OneLiveRun
  <2> QED BY <2>1, <2>2
<1>2. CASE ~\E n \in Runs : P(n)
  <2>1. Holder(r) = NoRun
    BY <1>2 DEF Holder
  <2> QED BY <1>2, <2>1, ConstantsAssumption
<1> QED BY <1>1, <1>2

\* A step that makes no run live and moves no snapshot frees some slots (maybe none).
LEMMA FreeStep ==
  ASSUME IInv, IInv',
         \A n \in Runs : runs'[n].status \in Live =>
             runs[n].status \in Live /\ runs'[n].res = runs[n].res,
         \A n \in Runs : runs'[n].status = "none" <=> runs[n].status = "none",
         \A r \in Resources : rows'[r].snap = rows[r].snap
  PROVE  \E S \in SUBSET Resources : Slots!Free(S)
<1> DEFINE S == {r \in Resources : (Holder(r))' # Holder(r)}
<1>1. HoldersAreLive /\ HoldersAreLive'
  BY HolderFacts, PTL
<1>2. \A r \in Resources : (Holder(r))' # Holder(r) => (Holder(r))' = NoRun
  BY <1>1 DEF HoldersAreLive
<1>3. Slots!Free(S)
  BY <1>2 DEF Slots!Free
<1> QED BY <1>3

\* A step that makes a fresh run of r live, where r has no live run, claims r's slot.
LEMMA ClaimStep ==
  ASSUME IInv, IInv', NEW r \in Resources, NEW n \in Runs,
         runs[n].status = "none", runs'[n].status \in Live, runs'[n].res = r,
         \A m \in Runs : m # n => runs'[m] = runs[m],
         \A m \in Runs : runs[m].res = r => runs[m].status \notin Live,
         \A x \in Resources : rows'[x].snap = rows[x].snap
  PROVE  Slots!Claim(r, n)
<1>1. HoldersAreLive /\ HoldersAreLive'
  BY HolderFacts, PTL
<1>2. runs[n].status \notin Live
  BY DEF Live, Active
<1>3. Holder(r) = NoRun /\ (Holder(r))' = n
  BY <1>1 DEF HoldersAreLive
<1>4. \A x \in Resources : x # r => (Holder(x))' = Holder(x)
  <2> SUFFICES ASSUME NEW x \in Resources, x # r PROVE (Holder(x))' = Holder(x)
    OBVIOUS
  <2>1. \A m \in Runs : (Holder(x))' = m <=> Holder(x) = m
    BY <1>1, <1>2 DEF HoldersAreLive
  <2> QED BY <1>1, <2>1 DEF HoldersAreLive
<1>5. {m \in Runs : runs'[m].status # "none"} = {m \in Runs : runs[m].status # "none"} \cup {n}
  BY DEF Live, Active
<1> QED BY <1>3, <1>4, <1>5 DEF Slots!Claim

\* A step that ends r's live run and points r's snapshot at it advances r.
LEMMA AdvanceStep ==
  ASSUME IInv, IInv', NEW r \in Resources, NEW n \in Runs,
         runs[n].status \in Live, runs[n].res = r, runs'[n].status \notin Live \cup {"none"},
         \A m \in Runs : m # n => runs'[m] = runs[m],
         rows'[r].snap = n,
         \A x \in Resources : x # r => rows'[x].snap = rows[x].snap
  PROVE  Slots!Advance(r)
<1>1. HoldersAreLive /\ HoldersAreLive'
  BY HolderFacts, PTL
<1>2. Holder(r) = n /\ n # NoRun
  BY <1>1, ConstantsAssumption DEF HoldersAreLive
<1>3. (Holder(r))' = NoRun
  BY <1>1, <1>2 DEF HoldersAreLive
<1>4. \A x \in Resources : x # r => (Holder(x))' = Holder(x)
  <2> SUFFICES ASSUME NEW x \in Resources, x # r PROVE (Holder(x))' = Holder(x)
    OBVIOUS
  <2>1. \A m \in Runs : (Holder(x))' = m <=> Holder(x) = m
    BY <1>1 DEF HoldersAreLive
  <2> QED BY <1>1, <2>1 DEF HoldersAreLive
<1>5. {m \in Runs : runs'[m].status # "none"} = {m \in Runs : runs[m].status # "none"}
  BY DEF Live, Active
<1> QED BY <1>2, <1>3, <1>4, <1>5 DEF Slots!Advance

\* A step that ends every run of r and clears its snapshot purges r.
LEMMA PurgeStep ==
  ASSUME IInv, IInv', NEW r \in Resources,
         \A m \in Runs : runs'[m].status = "none" <=> runs[m].status = "none",
         \A m \in Runs : runs'[m].res = runs[m].res,
         \A m \in Runs : runs[m].res = r => runs'[m].status \notin Live,
         \A m \in Runs : runs[m].res # r => runs'[m] = runs[m],
         rows'[r].snap = NoRun,
         \A x \in Resources : x # r => rows'[x].snap = rows[x].snap
  PROVE  Slots!Purge(r)
<1>1. HoldersAreLive /\ HoldersAreLive'
  BY HolderFacts, PTL
<1>3. (Holder(r))' = NoRun
  BY <1>1 DEF HoldersAreLive
<1>4. \A x \in Resources : x # r => (Holder(x))' = Holder(x)
  <2> SUFFICES ASSUME NEW x \in Resources, x # r PROVE (Holder(x))' = Holder(x)
    OBVIOUS
  <2>1. \A m \in Runs : (Holder(x))' = m <=> Holder(x) = m
    BY <1>1 DEF HoldersAreLive
  <2> QED BY <1>1, <2>1 DEF HoldersAreLive
<1> QED BY <1>3, <1>4 DEF Slots!Purge

\* Rewriting the status of a used run gives nobody a slot unless the run had it.
LEMMA SetRunHolders ==
  ASSUME IInv, NEW n \in Runs, NEW status \in RunStatus \ {"none"}, SetRun(n, status),
         runs[n].status # "none", status \in Live => runs[n].status \in Live
  PROVE  NoNewHolder
<1>1. /\ runs'[n].res = runs[n].res /\ runs'[n].status = status
      /\ \A m \in Runs : m # n => runs'[m] = runs[m]
  BY SetRunFacts DEF IInv
<1> QED BY <1>1 DEF NoNewHolder

\* Confirming or aborting an enqueue gives nobody a slot (refresh_resource writes
\* WHERE status = 'enqueueing').
LEMMA CallHolders ==
  ASSUME IInv, NoUploadCalls, NEW q \in Requests,
         ConfirmEnqueued(q) \/ AbortRefresh(q)
  PROVE  NoNewHolder
<1>1. CASE UNCHANGED runs
  BY <1>1 DEF NoNewHolder
<1>2. call[q].pc \in {"confirm", "abort"}
  BY DEF ConfirmEnqueued, AbortRefresh
<1>3. call[q].run \in Runs /\ runs[call[q].run].status # "none"
  BY <1>2 DEF IInv, References
<1>4. CASE ~UNCHANGED runs
  <2>1. /\ runs[call[q].run].status = "enqueueing"
        /\ \E status \in {"queued", "failed"} : SetRun(call[q].run, status)
    BY <1>4 DEF ConfirmEnqueued, AbortRefresh, NoUploadCalls
  <2>2. runs[call[q].run].status \in Live
    BY <2>1 DEF Live, Active
  <2> QED BY <1>3, <2>1, <2>2, SetRunHolders DEF RunStatus, Active
<1> QED BY <1>1, <1>4

\* No transaction of run_index gives a slot to a run that did not have it.
LEMMA WorkerHolders ==
  ASSUME IInv, NEW w \in Workers,
         BeginRun(w) \/ CommitRun(w) \/ RecordFailure(w)
  PROVE  NoNewHolder
<1> DEFINE n == job[w].run
<1>1. n \in Runs /\ runs[n].status \notin {"none", "flushed"}
  BY DEF BeginRun, CommitRun, RecordFailure, IInv, References
<1>2. CASE UNCHANGED runs
  BY <1>2 DEF NoNewHolder
<1>3. CASE BeginRun(w) /\ ~UNCHANGED runs
  <2>1. SetRun(n, "running") /\ runs[n].status \in {"enqueueing", "queued"}
    BY <1>3 DEF BeginRun, Visible, IInv, Progress
  <2> QED BY <1>1, <2>1, SetRunHolders DEF RunStatus, Live, Active
<1>4. CASE (CommitRun(w) \/ RecordFailure(w)) /\ ~UNCHANGED runs
  <2>1. \E status \in {"succeeded", "failed"} : SetRun(n, status)
    BY <1>4 DEF CommitRun, RecordFailure
  <2> QED BY <1>1, <2>1, SetRunHolders DEF RunStatus, Live, Active
<1> QED BY <1>2, <1>3, <1>4

\* The end of a scheduler pass keeps or gives up the slots of its flushed runs.
LEMMA ScanHolders ==
  ASSUME IInv, NEW s \in Schedulers, CommitScan(s) \/ ScanRollback(s)
  PROVE  NoNewHolder
<1> SUFFICES ASSUME NEW n \in Runs
             PROVE  /\ runs'[n].status \in Live =>
                          runs[n].status \in Live /\ runs'[n].res = runs[n].res
                    /\ runs'[n].status = "none" <=> runs[n].status = "none"
  BY DEF NoNewHolder
<1>1. runs[n] \in Run
  BY DEF IInv, TypeOK
<1>2. CASE runs'[n] = runs[n]
  BY <1>2
<1>3. CASE runs'[n] # runs[n]
  <2>1. Flushed(s, n)
    BY <1>3 DEF CommitScan, ScanRollback
  <2>2. runs[n].status = "flushed" /\ scan[s].plan[runs[n].res] \in {"queued", "failed"}
    BY <2>1 DEF Flushed, IInv, Locking
  <2>3. \E status \in {"queued", "failed", "gone"} : runs'[n] = [runs[n] EXCEPT !.status = status]
    BY <1>3, <2>1, <2>2 DEF CommitScan, ScanRollback
  <2> QED BY <1>1, <2>2, <2>3 DEF Run, Live, Active
<1> QED BY <1>2, <1>3

\* The two places that insert a run, refresh_resource under the row lock and the
\* scheduler under its batch locks, claim a free slot.
LEMMA ClaimingSteps ==
  ASSUME NoUploads, IInv, IInv', NEW n \in Runs, NEW r \in Resources,
         \/ \E q \in Requests : ClaimRefresh(q) /\ call[q].res = r /\ runs' # runs
         \/ \E s \in Schedulers : EnqueueDue(s, r, n)
  PROVE  \E m \in Runs : Slots!Claim(r, m)
<1>1. CASE \E q \in Requests : ClaimRefresh(q) /\ call[q].res = r /\ runs' # runs
  <2>1. PICK q \in Requests : ClaimRefresh(q) /\ call[q].res = r /\ runs' # runs
    BY <1>1
  <2>2. PICK m \in Runs :
          /\ runs[m].status = "none"
          /\ runs' = [runs EXCEPT ![m] =
                        [status |-> "enqueueing", res |-> r, trigger |-> "manual"]]
    BY <2>1 DEF ClaimRefresh
  <2>3. ~HasActiveRun(r) /\ lock[r] = Nobody /\ UNCHANGED rows
    BY <2>1, <2>2 DEF ClaimRefresh
  <2>4. \A k \in Runs : runs[k].res = r => runs[k].status \notin Live
    BY <2>3, ConstantsAssumption DEF HasActiveRun, Live, IInv, Locking
  <2>5. runs'[m].status \in Live /\ runs'[m].res = r /\ \A k \in Runs : k # m => runs'[k] = runs[k]
    BY <2>2 DEF Live, Active, IInv, TypeOK
  <2> QED BY <2>2, <2>3, <2>4, <2>5, ClaimStep
<1>2. CASE \E s \in Schedulers : EnqueueDue(s, r, n)
  <2>1. PICK s \in Schedulers : EnqueueDue(s, r, n)
    BY <1>2
  <2>2. /\ runs[n].status = "none" /\ scan[s].plan[r] = "todo" /\ ~HasActiveRun(r)
        /\ runs' = [runs EXCEPT ![n] =
                      [status |-> "flushed", res |-> r, trigger |-> "scheduled"]]
        /\ UNCHANGED rows
    BY <2>1 DEF EnqueueDue
  <2>3. lock[r] = s
    BY <2>2 DEF IInv, Locking
  <2>4. \A k \in Runs : runs[k].res = r => runs[k].status \notin Live
    BY <2>2, <2>3 DEF HasActiveRun, Live, IInv, Locking
  <2>5. runs'[n].status \in Live /\ runs'[n].res = r /\ \A k \in Runs : k # n => runs'[k] = runs[k]
    BY <2>2 DEF Live, Active, IInv, TypeOK
  <2> QED BY <2>2, <2>4, <2>5, ClaimStep
<1> QED BY <1>1, <1>2

\* run_index's last commit advances the resource, or (a Git source found unchanged)
\* gives the slot back.
LEMMA CommitRunSlots ==
  ASSUME IInv, IInv', NEW w \in Workers, CommitRun(w)
  PROVE  (\E r \in Resources : Slots!Advance(r)) \/ (\E S \in SUBSET Resources : Slots!Free(S))
<1>0. job[w].pc = "ingesting" /\ job[w].run \in Runs /\ runs[job[w].run].res \in Resources
  BY DEF CommitRun, IInv, References
<1>1. PICK n \in Runs, r \in Resources : n = job[w].run /\ r = runs[n].res
  BY <1>0
<1>2. runs[n].status \in Live
  BY <1>0, <1>1 DEF IInv, Locking, Live
<1>3. /\ runs'[n].status = "succeeded"
      /\ \A m \in Runs : m # n => runs'[m] = runs[m]
  <2>1. SetRun(n, "succeeded")
    BY <1>1 DEF CommitRun
  <2> QED BY <2>1, SetRunFacts DEF RunStatus, IInv
<1>4. PICK snap \in {n, rows[r].snap} :
        rows' = [rows EXCEPT ![r].status = "active", ![r].snap = snap,
                             ![r].next = NextAfterRefresh(rows[r].freq)]
  BY <1>1 DEF CommitRun
<1>5. rows'[r].snap = snap /\ \A x \in Resources : x # r => rows'[x] = rows[x]
  <2> DEFINE next == NextAfterRefresh(rows[r].freq)
             new == [rows[r] EXCEPT !.status = "active", !.snap = snap, !.next = next]
  <2>1. rows \in [Resources -> Row] /\ rows[r] \in Row
    BY <1>1 DEF IInv, TypeOK
  <2>2. new.snap = snap
    BY <2>1 DEF Row
  <2>3. rows' = [rows EXCEPT ![r] = new]
    BY <1>4, <2>1
  <2> HIDE DEF new
  <2> QED BY <1>1, <2>1, <2>2, <2>3
<1>6. CASE snap = n
  <2>1. Slots!Advance(r)
    BY <1>1, <1>2, <1>3, <1>5, <1>6, AdvanceStep DEF Live, Active
  <2> QED BY <1>1, <2>1
<1>7. CASE snap = rows[r].snap
  <2>1. \A x \in Resources : rows'[x].snap = rows[x].snap
    BY <1>5, <1>7
  <2> QED BY <2>1, WorkerHolders, FreeStep DEF NoNewHolder
<1> QED BY <1>4, <1>6, <1>7

\* purge_resource_artifacts frees the slot and clears the snapshot.
LEMMA PurgeSlots ==
  ASSUME IInv, IInv', NEW q \in Requests, PurgeResource(q)
  PROVE  \E r \in Resources : Slots!Purge(r)
<1>1. PICK r \in Resources : r = call[q].res /\ lock[r] = Nobody
  BY DEF PurgeResource, IInv, References
<1>2. rows'[r].snap = NoRun /\ \A x \in Resources : x # r => rows'[x].snap = rows[x].snap
  BY <1>1 DEF PurgeResource, IInv, TypeOK, EmptyRow
<1>3. \A m \in Runs :
        /\ runs'[m].res = runs[m].res
        /\ IF runs[m].res = r /\ Visible(m) THEN runs'[m].status = "gone"
                                            ELSE runs'[m] = runs[m]
  BY <1>1 DEF PurgeResource, IInv, TypeOK, Run
<1>4. \A m \in Runs : runs[m].res = r => runs[m].status # "flushed"
  BY <1>1, ConstantsAssumption DEF IInv, Locking
<1>5. \A m \in Runs : runs[m].res = r => runs'[m].status \notin Live
  BY <1>3, <1>4 DEF Visible, Live, Active
<1>6. \A m \in Runs : runs[m].res # r => runs'[m] = runs[m]
  BY <1>3
<1>7. \A m \in Runs : runs'[m].status = "none" <=> runs[m].status = "none"
  BY <1>3 DEF Visible
<1>8. Slots!Purge(r)
  BY <1>1, <1>2, <1>3, <1>5, <1>6, <1>7, PurgeStep
<1> QED BY <1>1, <1>8

\* Every step of IndexRuns is a step of RefreshSlots or changes none of its variables.
LEMMA SlotsStep ==
  ASSUME NoUploads, NoUploadCalls, IInv, IInv', [Next]_vars
  PROVE  [Slots!Next]_(Slots!slots)
<1>1. CASE \E w \in Workers : CommitRun(w)
  BY <1>1, CommitRunSlots DEF Slots!Next
<1>2. CASE \E q \in Requests : PurgeResource(q)
  BY <1>2, PurgeSlots DEF Slots!Next
<1>3. CASE (\E q \in Requests : ClaimRefresh(q) /\ runs' # runs)
           \/ (\E s \in Schedulers, r \in Resources, n \in Runs : EnqueueDue(s, r, n))
  <2>1. \A q \in Requests : ClaimRefresh(q) => call[q].res \in Resources
    BY DEF ClaimRefresh, IInv, References
  <2>2. Runs # {}
    BY <1>3 DEF ClaimRefresh
  <2> QED BY <1>3, <2>1, <2>2, ClaimingSteps DEF Slots!Next
<1>4. CASE /\ ~\E w \in Workers : CommitRun(w)
           /\ ~\E q \in Requests : PurgeResource(q)
           /\ ~\E q \in Requests : ClaimRefresh(q) /\ runs' # runs
           /\ ~\E s \in Schedulers, r \in Resources, n \in Runs : EnqueueDue(s, r, n)
  <2>1. \A x \in Resources : rows'[x].snap = rows[x].snap
    BY <1>4, SnapshotKept
  <2>2. UNCHANGED runs => NoNewHolder
    BY DEF NoNewHolder
  <2>3. ASSUME ~UNCHANGED runs PROVE NoNewHolder
    <3>1. ASSUME NEW q \in Requests, CallStep(q)
          PROVE  ConfirmEnqueued(q) \/ AbortRefresh(q)
      <4>1. ~AbortUpload(q) /\ ~PurgeResource(q) /\ ~ClaimRefresh(q)
        BY <1>4, <2>3 DEF AbortUpload, NoUploadCalls
      <4>2. \A r \in Resources, n \in Runs : ~UploadFolderBundle(q, r, n)
        BY DEF UploadFolderBundle, NoUploads
      <4> QED BY <2>3, <3>1, <4>1, <4>2 DEF CallStep, ResolveForRefresh, Enqueue, CallCrash,
              ResolveLifecycle, WriteLifecycle
    <3>2. \A w \in Workers : WorkerStep(w) => BeginRun(w) \/ RecordFailure(w)
      BY <1>4, <2>3 DEF WorkerStep, TakeJob, LockResource, RunRaises, WorkerCrash
    <3>3. \A s \in Schedulers : SchedulerStep(s) => CommitScan(s) \/ ScanRollback(s)
      BY <1>4, <2>3 DEF SchedulerStep, StartScan, SkipResource
    <3>4. \A r \in Resources : ~CreateResource(r) /\ ~TimePasses(r)
      BY <2>3 DEF CreateResource, TimePasses
    <3>5. \/ \E q \in Requests : ConfirmEnqueued(q) \/ AbortRefresh(q)
          \/ \E w \in Workers : BeginRun(w) \/ RecordFailure(w)
          \/ \E s \in Schedulers : CommitScan(s) \/ ScanRollback(s)
      BY <2>3, <3>1, <3>2, <3>3, <3>4 DEF Next, vars
    <3> QED BY <3>5, CallHolders, WorkerHolders, ScanHolders
  <2>4. NoNewHolder
    BY <2>2, <2>3
  <2>5. \E S \in SUBSET Resources : Slots!Free(S)
    BY <2>1, <2>4, FreeStep DEF NoNewHolder
  <2> QED BY <2>5 DEF Slots!Next
<1> QED BY <1>1, <1>2, <1>3, <1>4

\* Without the upload operation no call is ever an upload.
LEMMA NoUploadCallsInv == ASSUME NoAmbiguousEnqueue, NoUploads PROVE Spec => []NoUploadCalls
<1>1. Init => NoUploadCalls
  BY DEF Init, NoUploadCalls, Blank
<1>2. ASSUME NoUploadCalls, TypeOK, [Next]_vars PROVE NoUploadCalls'
  <2>1. CASE UNCHANGED call
    BY <1>2, <2>1 DEF NoUploadCalls
  <2>2. ASSUME NEW q \in Requests, CallStep(q), ~UNCHANGED call PROVE NoUploadCalls'
    <3>1. call \in [Requests -> Call]
      BY <1>2 DEF TypeOK
    <3>2. \A p \in Requests : p # q => call'[p] = call[p]
      BY <2>2, <3>1 DEF CallStep, ResolveForRefresh, UploadFolderBundle, ClaimRefresh, Enqueue,
         ConfirmEnqueued, AbortRefresh, AbortUpload, CallCrash, ResolveLifecycle, WriteLifecycle,
         PurgeResource, Finish
    <3>3. call'[q].op # "upload"
      <4>1. CASE Finish(q)
        BY <3>1, <4>1 DEF Finish, Blank
      <4>2. CASE ClaimRefresh(q) \/ Enqueue(q)
        BY <1>2, <3>1, <4>2 DEF ClaimRefresh, Enqueue, Finish, Blank, NoUploadCalls, Call
      <4>3. CASE \E r \in Resources : ResolveForRefresh(q, r)
        BY <3>1, <4>3 DEF ResolveForRefresh, Call
      <4>4. CASE \E op \in Lifecycle, r \in Resources, want \in Want :
                    ResolveLifecycle(q, op, r, want)
        BY <3>1, <4>4 DEF ResolveLifecycle, Lifecycle
      <4> QED BY <2>2, <4>1, <4>2, <4>3, <4>4 DEF CallStep, UploadFolderBundle, NoUploads,
              ConfirmEnqueued, AbortRefresh, AbortUpload, CallCrash, WriteLifecycle, PurgeResource
    <3> QED BY <1>2, <3>2, <3>3 DEF NoUploadCalls
  <2>3. \A w \in Workers : WorkerStep(w) => UNCHANGED call
    BY DEF WorkerStep, TakeJob, BeginRun, LockResource, CommitRun, RunRaises, RecordFailure,
       WorkerCrash
  <2>4. \A s \in Schedulers : SchedulerStep(s) => UNCHANGED call
    BY DEF SchedulerStep, StartScan, SkipResource, EnqueueDue, CommitScan, ScanRollback
  <2>5. \A r \in Resources : CreateResource(r) \/ TimePasses(r) => UNCHANGED call
    BY DEF CreateResource, TimePasses
  <2> QED BY <1>2, <2>1, <2>2, <2>3, <2>4, <2>5 DEF Next, vars
<1>3. NoUploadCalls /\ TypeOK /\ [Next]_vars => NoUploadCalls'
  BY <1>2
<1> QED BY <1>1, <1>3, TypeCorrect, PTL DEF Spec

\* The initial tables are an initial state of RefreshSlots.
LEMMA SlotsInit == Init => Slots!Init
<1> SUFFICES ASSUME Init PROVE Slots!Init
  OBVIOUS
<1>1. \A n \in Runs : runs[n].status = "none" /\ runs[n].res = NoResource
  BY DEF Init
<1>2. \A r \in Resources : Holder(r) = NoRun
  BY <1>1 DEF Holder, Live, Active
<1>3. \A r \in Resources : rows[r].snap = NoRun
  BY DEF Init, EmptyRow
<1> QED BY <1>1, <1>2, <1>3 DEF Slots!Init

\* Requests, schedulers, workers, the queue and the locks together implement
\* RefreshSlots: a slot per resource, claimed only when free, whose snapshot advances
\* only to its holder.  Uploads are left out: the upload handler writes "queued" over
\* whatever its run's status has become (resource_core.py), which claims no slot.
THEOREM SlotsRefinement ==
  ASSUME NoAmbiguousEnqueue, NoUploads PROVE Spec => ImplementsSlots
<1>1. Init => Slots!Init
  BY SlotsInit
<1>2. IInv /\ IInv' /\ NoUploadCalls /\ [Next]_vars => [Slots!Next]_(Slots!slots)
  BY SlotsStep
<1> QED BY <1>1, <1>2, Invariance, NoUploadCallsInv, PTL DEF Spec, ImplementsSlots, Slots!Spec

-----------------------------------------------------------------------------
(* A run's status moves forward *)

\* One run's share of a step of RunsMoveForward.
Forward(n) ==
    /\ StatusRank(runs'[n].status) >= StatusRank(runs[n].status)
    /\ runs[n].status \in {"succeeded", "failed"} =>
         runs'[n].status \in {runs[n].status, "gone"}

\* StatusRank, value by value.
LEMMA StatusRanks ==
  /\ StatusRank("none") = 0 /\ StatusRank("flushed") = 1 /\ StatusRank("enqueueing") = 2
  /\ StatusRank("queued") = 3 /\ StatusRank("running") = 4 /\ StatusRank("succeeded") = 5
  /\ StatusRank("failed") = 5 /\ StatusRank("gone") = 6
BY DEF StatusRank

\* A run whose status a step leaves alone has moved forward.
LEMMA StayForward ==
  ASSUME IInv, NEW n \in Runs, runs'[n].status = runs[n].status
  PROVE  Forward(n)
<1>1. runs[n].status \in RunStatus
  BY DEF IInv, TypeOK, Run
<1> QED BY <1>1, StatusRanks DEF Forward, RunStatus, Active

\* The four status writes of the code move the written run forward and no other.
LEMMA SetRunForward ==
  ASSUME IInv, NEW m \in Runs, NEW status \in RunStatus, SetRun(m, status),
         \/ status = "queued" /\ runs[m].status = "enqueueing"
         \/ status = "running" /\ runs[m].status \in {"enqueueing", "queued"}
         \/ status = "succeeded" /\ runs[m].status \in Active
         \/ status = "failed" /\ runs[m].status \in Active \cup {"failed"},
         NEW n \in Runs
  PROVE  Forward(n)
<1>1. /\ runs'[m].status = status
      /\ \A x \in Runs : x # m => runs'[x] = runs[x]
  BY SetRunFacts DEF IInv
<1>2. CASE n # m
  BY <1>1, <1>2, StayForward
<1>3. CASE n = m
  BY <1>1, <1>3, StatusRanks DEF Forward, Active
<1> QED BY <1>2, <1>3

\* No API transaction moves a run backwards.
LEMMA CallForward ==
  ASSUME IInv, NoUploads, NoUploadCalls, NEW q \in Requests, CallStep(q), NEW n \in Runs
  PROVE  Forward(n)
<1>1. CASE UNCHANGED runs
  BY <1>1, StayForward
<1>2. CASE ClaimRefresh(q) /\ ~UNCHANGED runs
  <2>1. PICK m \in Runs :
          /\ runs[m].status = "none"
          /\ runs' = [runs EXCEPT ![m] =
                       [status |-> "enqueueing", res |-> call[q].res, trigger |-> "manual"]]
    BY <1>2 DEF ClaimRefresh
  <2>2. CASE n = m
    <3>1. runs'[n].status = "enqueueing"
      BY <2>1, <2>2 DEF IInv, TypeOK
    <3> QED BY <2>1, <2>2, <3>1, StatusRanks DEF Forward
  <2>3. CASE n # m
    BY <2>1, <2>3, StayForward DEF IInv, TypeOK
  <2> QED BY <2>2, <2>3
<1>3. CASE ConfirmEnqueued(q) /\ ~UNCHANGED runs
  <2>1. /\ runs[call[q].run].status = "enqueueing" /\ SetRun(call[q].run, "queued")
        /\ call[q].run \in Runs
    BY <1>3 DEF ConfirmEnqueued, NoUploadCalls, IInv, References
  <2> QED BY <2>1, SetRunForward DEF RunStatus, Active
<1>4. CASE AbortRefresh(q) /\ ~UNCHANGED runs
  <2>1. /\ runs[call[q].run].status = "enqueueing" /\ SetRun(call[q].run, "failed")
        /\ call[q].run \in Runs
    BY <1>4 DEF AbortRefresh, IInv, References
  <2> QED BY <2>1, SetRunForward DEF RunStatus, Active
<1>5. CASE PurgeResource(q)
  <2>1. runs[n] \in Run
    BY DEF IInv, TypeOK
  <2>2. runs'[n] \in {runs[n], [runs[n] EXCEPT !.status = "gone"]}
    BY <1>5 DEF PurgeResource
  <2>3. runs'[n].status \in {runs[n].status, "gone"}
    BY <2>1, <2>2 DEF Run
  <2>4. CASE runs'[n].status = "gone"
    BY <2>1, <2>4, StatusRanks DEF Forward, Run, RunStatus, Active
  <2> QED BY <2>3, <2>4, StayForward
<1>6. ~AbortUpload(q) /\ \A r \in Resources, m \in Runs : ~UploadFolderBundle(q, r, m)
  BY DEF AbortUpload, NoUploadCalls, UploadFolderBundle, NoUploads
<1> QED BY <1>1, <1>2, <1>3, <1>4, <1>5, <1>6 DEF CallStep, ResolveForRefresh, Enqueue,
        CallCrash, ResolveLifecycle, WriteLifecycle

\* No transaction of run_index moves a run backwards: the except block never finds a
\* succeeded run (FailingRuns).
LEMMA WorkerForward ==
  ASSUME IInv, FailingRuns, NEW w \in Workers, WorkerStep(w), NEW n \in Runs
  PROVE  Forward(n)
<1> DEFINE m == job[w].run
<1>1. CASE UNCHANGED runs
  BY <1>1, StayForward
<1>2. job[w].pc # "idle" => m \in Runs /\ runs[m].status \in RunStatus \ {"none", "flushed"}
  BY DEF IInv, References, TypeOK, Run
<1>3. CASE BeginRun(w) /\ ~UNCHANGED runs
  <2>1. SetRun(m, "running") /\ runs[m].status \in {"enqueueing", "queued"} /\ m \in Runs
    BY <1>2, <1>3 DEF BeginRun, Visible, IInv, Progress
  <2> QED BY <2>1, SetRunForward DEF RunStatus, Active
<1>4. CASE CommitRun(w)
  <2>1. SetRun(m, "succeeded") /\ runs[m].status \in Active /\ m \in Runs
    BY <1>2, <1>4 DEF CommitRun, IInv, Locking
  <2> QED BY <2>1, SetRunForward DEF RunStatus, Active
<1>5. CASE RecordFailure(w) /\ ~UNCHANGED runs
  <2>1. SetRun(m, "failed") /\ runs[m].status \in Active \cup {"failed"} /\ m \in Runs
    BY <1>2, <1>5 DEF RecordFailure, FailingRuns, Visible, RunStatus
  <2> QED BY <2>1, SetRunForward DEF RunStatus, Active
<1> QED BY <1>1, <1>3, <1>4, <1>5 DEF WorkerStep, TakeJob, LockResource, RunRaises, WorkerCrash

\* A scheduler moves its own flushed runs forward and touches no other.
LEMMA SchedulerForward ==
  ASSUME IInv, NEW s \in Schedulers, SchedulerStep(s), NEW n \in Runs
  PROVE  Forward(n)
<1>0. runs[n] \in Run
  BY DEF IInv, TypeOK
<1>1. CASE UNCHANGED runs
  BY <1>1, StayForward
<1>2. ASSUME NEW r \in Resources, NEW m \in Runs, EnqueueDue(s, r, m) PROVE Forward(n)
  <2>1. CASE n = m
    <3>1. runs'[n].status = "flushed" /\ runs[n].status = "none"
      BY <1>2, <2>1 DEF EnqueueDue, IInv, TypeOK
    <3> QED BY <3>1, StatusRanks DEF Forward
  <2>2. CASE n # m
    <3>1. runs'[n] = runs[n]
      BY <1>2, <2>2 DEF EnqueueDue, IInv, TypeOK
    <3> QED BY <3>1, StayForward
  <2> QED BY <2>1, <2>2
<1>3. CASE CommitScan(s) \/ ScanRollback(s)
  <2>1. CASE runs'[n] = runs[n]
    BY <2>1, StayForward
  <2>2. CASE runs'[n] # runs[n]
    <3>1. Flushed(s, n)
      BY <1>3, <2>2 DEF CommitScan, ScanRollback
    <3>2. runs[n].status = "flushed" /\ scan[s].plan[runs[n].res] \in {"queued", "failed"}
      BY <3>1 DEF Flushed, IInv, Locking
    <3>3. \E status \in {"queued", "failed", "gone"} : runs'[n] = [runs[n] EXCEPT !.status = status]
      BY <1>3, <2>2, <3>1, <3>2 DEF CommitScan, ScanRollback
    <3>4. runs'[n].status \in {"queued", "failed", "gone"}
      BY <1>0, <3>3 DEF Run
    <3> QED BY <3>2, <3>4, StatusRanks DEF Forward
  <2> QED BY <2>1, <2>2
<1> QED BY <1>1, <1>2, <1>3 DEF SchedulerStep, StartScan, SkipResource

\* Only run_index's last commit makes a run succeeded.
LEMMA SucceededByCommit ==
  ASSUME IInv, NoUploads, NoUploadCalls, [Next]_vars, NEW n \in Runs,
         runs'[n].status = "succeeded", runs[n].status # "succeeded"
  PROVE  \E w \in Workers : CommitRun(w) /\ job[w].run = n
<1>1. runs \in [Runs -> Run] /\ runs[n] \in Run /\ runs' # runs
  BY DEF IInv, TypeOK
<1>2. \A m, status : SetRun(m, status) => runs'[n].status \in {runs[n].status, status}
  BY <1>1 DEF SetRun, Run
<1>3. \A q \in Requests : ~CallStep(q)
  <2> SUFFICES ASSUME NEW q \in Requests, CallStep(q) PROVE FALSE
    OBVIOUS
  <2>1. ~AbortUpload(q) /\ \A r \in Resources, m \in Runs : ~UploadFolderBundle(q, r, m)
    BY DEF AbortUpload, NoUploadCalls, UploadFolderBundle, NoUploads
  <2>2. ~ClaimRefresh(q)
    BY <1>1 DEF ClaimRefresh
  <2>3. ~ConfirmEnqueued(q) /\ ~AbortRefresh(q)
    BY <1>1, <1>2 DEF ConfirmEnqueued, AbortRefresh
  <2>4. ~PurgeResource(q)
    <3> SUFFICES ASSUME PurgeResource(q) PROVE FALSE
      OBVIOUS
    <3>1. runs'[n] \in {runs[n], [runs[n] EXCEPT !.status = "gone"]}
      BY DEF PurgeResource
    <3> QED BY <1>1, <3>1 DEF Run
  <2> QED BY <1>1, <2>1, <2>2, <2>3, <2>4 DEF CallStep, ResolveForRefresh, Enqueue, CallCrash,
          ResolveLifecycle, WriteLifecycle
<1>4. \A s \in Schedulers : ~SchedulerStep(s)
  <2> SUFFICES ASSUME NEW s \in Schedulers, SchedulerStep(s) PROVE FALSE
    OBVIOUS
  <2>1. \A r \in Resources, m \in Runs : ~EnqueueDue(s, r, m)
    BY <1>1 DEF EnqueueDue
  <2>2. ~CommitScan(s) /\ ~ScanRollback(s)
    <3> SUFFICES ASSUME CommitScan(s) \/ ScanRollback(s) PROVE FALSE
      OBVIOUS
    <3>1. Flushed(s, n)
      BY DEF CommitScan, ScanRollback
    <3>2. scan[s].plan[runs[n].res] \in {"queued", "failed"}
      BY <3>1 DEF Flushed, IInv, Locking
    <3>3. \E status \in {"queued", "failed", "gone"} : runs'[n] = [runs[n] EXCEPT !.status = status]
      BY <3>1, <3>2 DEF CommitScan, ScanRollback
    <3> QED BY <1>1, <3>3 DEF Run
  <2> QED BY <1>1, <2>1, <2>2 DEF SchedulerStep, StartScan, SkipResource
<1>5. ASSUME NEW w \in Workers, WorkerStep(w)
      PROVE  CommitRun(w) /\ job[w].run = n
  <2>1. ~BeginRun(w) /\ ~RecordFailure(w)
    <3>1. ASSUME BeginRun(w) PROVE FALSE
      <4>0. runs' # runs
        BY <1>1
      <4>1. SetRun(job[w].run, "running")
        <5>1. SetRun(job[w].run, "running") \/ UNCHANGED runs
          BY <3>1 DEF BeginRun
        <5> QED BY <4>0, <5>1
      <4>2. runs'[n].status \in {runs[n].status, "running"}
        BY <1>2, <4>1
      <4> QED BY <4>2
    <3>2. ASSUME RecordFailure(w) PROVE FALSE
      <4>0. runs' # runs
        BY <1>1
      <4>1. SetRun(job[w].run, "failed")
        <5>1. SetRun(job[w].run, "failed") \/ UNCHANGED runs
          BY <3>2 DEF RecordFailure
        <5> QED BY <4>0, <5>1
      <4>2. runs'[n].status \in {runs[n].status, "failed"}
        BY <1>2, <4>1
      <4> QED BY <4>2
    <3> QED BY <3>1, <3>2
  <2>2. CommitRun(w)
    BY <1>1, <1>5, <2>1 DEF WorkerStep, TakeJob, LockResource, RunRaises, WorkerCrash
  <2>3. job[w].run = n
    BY <1>1, <2>2 DEF CommitRun, SetRun
  <2> QED BY <2>2, <2>3
<1>6. \A r \in Resources : ~CreateResource(r) /\ ~TimePasses(r)
  BY <1>1 DEF CreateResource, TimePasses
<1> QED BY <1>1, <1>3, <1>4, <1>5, <1>6 DEF Next, vars

\* A worker that enters the except block holds a run that has not succeeded, unless
\* the alarm fires after its last commit.
LEMMA FailingWorker ==
  ASSUME NoLateTimeout, IInv, NEW w \in Workers, WorkerStep(w), job'[w].pc = "failing",
         job[w].pc # "failing"
  PROVE  job'[w].run = job[w].run /\ UNCHANGED runs /\ runs[job[w].run].status # "succeeded"
<1>0. job \in [Workers -> Job] /\ job[w] \in Job
  BY DEF IInv, TypeOK
<1>1. CASE BeginRun(w)
  BY <1>0, <1>1 DEF BeginRun, Visible, Job
<1>2. CASE LockResource(w)
  BY <1>0, <1>2 DEF LockResource, IInv, Progress, Job
<1>3. CASE RunRaises(w)
  <2>1. job'[w].run = job[w].run /\ UNCHANGED runs /\ job[w].pc \in {"loaded", "begun", "ingesting"}
    BY <1>0, <1>3 DEF RunRaises, Job
  <2>2. runs[job[w].run].status # "succeeded"
    BY <2>1 DEF IInv, Progress, Locking, Active
  <2> QED BY <2>1, <2>2
<1>4. ASSUME job' = [job EXCEPT ![w] = [pc |-> "idle", run |-> NoRun]] PROVE FALSE
  BY <1>0, <1>4
<1>5. ~CommitRun(w) /\ ~RecordFailure(w) /\ ~WorkerCrash(w)
  BY <1>4 DEF CommitRun, RecordFailure, WorkerCrash, NoLateTimeout
<1>6. \A n \in Runs : ~TakeJob(w, n)
  BY <1>0 DEF TakeJob
<1> QED BY <1>1, <1>2, <1>3, <1>5, <1>6 DEF WorkerStep

\* A worker's progress changes only in its own steps.
LEMMA JobStep ==
  ASSUME IInv, [Next]_vars, NEW w \in Workers, job'[w] # job[w]
  PROVE  WorkerStep(w)
<1>0. job \in [Workers -> Job]
  BY DEF IInv, TypeOK
<1>1. ASSUME NEW q \in Requests, CallStep(q) PROVE UNCHANGED job
  BY <1>1 DEF CallStep, ResolveForRefresh, UploadFolderBundle, ClaimRefresh, Enqueue,
         ConfirmEnqueued, AbortRefresh, AbortUpload, CallCrash, ResolveLifecycle, WriteLifecycle,
         PurgeResource
<1>2. \A s \in Schedulers : SchedulerStep(s) => UNCHANGED job
  BY DEF SchedulerStep, StartScan, SkipResource, EnqueueDue, CommitScan, ScanRollback
<1>3. \A r \in Resources : CreateResource(r) \/ TimePasses(r) => UNCHANGED job
  BY DEF CreateResource, TimePasses
<1>4. PICK v \in Workers : WorkerStep(v)
  BY <1>1, <1>2, <1>3 DEF Next, vars
<1>5. \A x \in Workers : x # v => job'[x] = job[x]
  BY <1>0, <1>4 DEF WorkerStep, TakeJob, BeginRun, LockResource, CommitRun, RunRaises,
         RecordFailure, WorkerCrash
<1> QED BY <1>4, <1>5

\* Every step keeps FailingRuns.
LEMMA FailingRunsStep ==
  ASSUME NoUploads, NoLateTimeout, NoUploadCalls, IInv, FailingRuns, [Next]_vars
  PROVE  FailingRuns'
<1> SUFFICES ASSUME NEW w \in Workers, job'[w].pc = "failing"
             PROVE  runs'[job'[w].run].status # "succeeded"
  BY DEF FailingRuns
<1>1. CASE job[w].pc # "failing"
  BY <1>1, JobStep, FailingWorker
<1>2. CASE job[w].pc = "failing"
  <2>1. job'[w].run = job[w].run
    <3>1. CASE job'[w] = job[w]
      BY <3>1
    <3>2. CASE job'[w] # job[w]
      <4>1. RecordFailure(w) \/ WorkerCrash(w)
        BY <1>2, <3>2, JobStep DEF WorkerStep, TakeJob, BeginRun, LockResource, CommitRun, RunRaises
      <4>2. job'[w].pc = "idle"
        BY <4>1 DEF RecordFailure, WorkerCrash, IInv, TypeOK
      <4> QED BY <4>2
    <3> QED BY <3>1, <3>2
  <2>2. PICK n \in Runs : n = job[w].run /\ runs[n].status # "succeeded"
    BY <1>2 DEF IInv, References, FailingRuns
  <2>3. ASSUME runs'[n].status = "succeeded" PROVE FALSE
    <3>1. PICK v \in Workers : CommitRun(v) /\ job[v].run = n
      BY <2>2, <2>3, SucceededByCommit
    <3>2. job[v].pc = "ingesting"
      BY <3>1 DEF CommitRun
    <3> QED BY <1>2, <2>2, <3>1, <3>2 DEF IInv, Carriers
  <2> QED BY <2>1, <2>2, <2>3
<1> QED BY <1>1, <1>2

\* Without late timeouts the except block never holds a succeeded run.
LEMMA FailingRunsInv ==
  ASSUME NoAmbiguousEnqueue, NoUploads, NoLateTimeout PROVE Spec => []FailingRuns
<1>1. Init => FailingRuns
  BY DEF Init, FailingRuns
<1>2. IInv /\ NoUploadCalls /\ FailingRuns /\ [Next]_vars => FailingRuns'
  BY FailingRunsStep
<1> QED BY <1>1, <1>2, Invariance, NoUploadCallsInv, PTL DEF Spec

\* Every step moves every run forward or leaves it.
LEMMA ForwardStep ==
  ASSUME NoUploads, NoUploadCalls, IInv, FailingRuns, [Next]_vars, NEW n \in Runs
  PROVE  Forward(n)
<1>1. ASSUME NEW r \in Resources, CreateResource(r) \/ TimePasses(r) PROVE Forward(n)
  BY <1>1, StayForward DEF CreateResource, TimePasses
<1>2. CASE UNCHANGED vars
  BY <1>2, StayForward DEF vars
<1> QED BY <1>1, <1>2, CallForward, WorkerForward, SchedulerForward DEF Next

\* index_runs.status only moves forward, and a succeeded or failed run stays so until
\* it is purged, with crashes and schedulers allowed.  An upload's unconditional
\* "queued" and an alarm that fires after run_index's last commit are the two ways back,
\* so both are excluded.
THEOREM StatusMovesForward ==
  ASSUME NoAmbiguousEnqueue, NoUploads, NoLateTimeout PROVE Spec => RunsMoveForward
<1>1. IInv /\ NoUploadCalls /\ FailingRuns /\ [Next]_vars =>
        [\A n \in Runs : /\ StatusRank(runs'[n].status) >= StatusRank(runs[n].status)
                         /\ runs[n].status \in {"succeeded", "failed"} =>
                              runs'[n].status \in {runs[n].status, "gone"}]_vars
  BY ForwardStep DEF Forward
<1> QED BY <1>1, Invariance, NoUploadCallsInv, FailingRunsInv, PTL DEF Spec, RunsMoveForward

-----------------------------------------------------------------------------
(* No run is stranded *)

\* A step that keeps every carrier of a run keeps it carried.
LEMMA CarriedOn ==
  ASSUME NEW n \in Runs, Carried(n),
         n \in queue => n \in queue',
         \A w \in Workers : job[w].pc # "idle" /\ job[w].run = n =>
            job'[w].pc # "idle" /\ job'[w].run = n,
         \A q \in Requests : call[q].pc \in {"enqueue", "abort"} /\ call[q].run = n =>
            call'[q].pc \in {"enqueue", "abort"} /\ call'[q].run = n
  PROVE  Carried(n)'
BY DEF Carried

\* A step that changes no carrier keeps a run carried.
LEMMA CarriedBySame ==
  ASSUME NEW n \in Runs, Carried(n), UNCHANGED <<queue, job, call>>
  PROVE  Carried(n)'
BY DEF Carried

\* After a step of a call an active run is carried: the call claims it, passes it to
\* the queue, or was not its carrier.
LEMMA CallCarries ==
  ASSUME NoCrash, NoUploads, NoUploadCalls, IInv, NoStrandedRun, NEW q \in Requests, CallStep(q),
         NEW n \in Runs, runs'[n].status \in Active
  PROVE  Carried(n)'
<1>0. call \in [Requests -> Call] /\ runs \in [Runs -> Run]
  BY DEF IInv, TypeOK
<1>1. UNCHANGED job
  BY DEF CallStep, ResolveForRefresh, UploadFolderBundle, ClaimRefresh, Enqueue,
         ConfirmEnqueued, AbortRefresh, AbortUpload, CallCrash, ResolveLifecycle, WriteLifecycle,
         PurgeResource
<1>2. \A p \in Requests : p # q => call'[p] = call[p]
  BY <1>0 DEF CallStep, ResolveForRefresh, UploadFolderBundle, ClaimRefresh, Enqueue,
         ConfirmEnqueued, AbortRefresh, AbortUpload, CallCrash, ResolveLifecycle, WriteLifecycle,
         PurgeResource, Finish
<1>3. ASSUME runs[n].status \in Active, UNCHANGED queue, call[q].pc \notin {"enqueue", "abort"}
      PROVE  Carried(n)'
  BY <1>1, <1>2, <1>3, CarriedOn DEF NoStrandedRun
<1>4. CASE \E r \in Resources : ResolveForRefresh(q, r)
  BY <1>3, <1>4 DEF ResolveForRefresh
<1>5. CASE \E op \in Lifecycle, r \in Resources, want \in Want : ResolveLifecycle(q, op, r, want)
  BY <1>3, <1>5 DEF ResolveLifecycle
<1>6. CASE WriteLifecycle(q)
  BY <1>3, <1>6 DEF WriteLifecycle
<1>7. CASE PurgeResource(q)
  <2>1. runs'[n] \in {runs[n], [runs[n] EXCEPT !.status = "gone"]}
    BY <1>7 DEF PurgeResource
  <2>2. runs[n].status \in Active
    BY <1>0, <2>1 DEF Run, Active
  <2> QED BY <1>3, <1>7, <2>2 DEF PurgeResource
<1>8. CASE ClaimRefresh(q)
  <2>1. CASE Finish(q) /\ UNCHANGED runs
    BY <1>3, <1>8, <2>1 DEF ClaimRefresh
  <2>2. CASE ~(Finish(q) /\ UNCHANGED runs)
    <3>1. PICK m \in Runs :
            /\ runs' = [runs EXCEPT ![m] =
                         [status |-> "enqueueing", res |-> call[q].res, trigger |-> "manual"]]
            /\ call' = [call EXCEPT ![q].pc = "enqueue", ![q].run = m]
      BY <1>8, <2>2 DEF ClaimRefresh
    <3>2. CASE n = m
      <4>1. call'[q].pc = "enqueue" /\ call'[q].run = n
        BY <1>0, <3>1, <3>2 DEF Call
      <4> QED BY <4>1 DEF Carried
    <3>3. CASE n # m
      BY <1>0, <1>3, <1>8, <3>1, <3>3 DEF ClaimRefresh
    <3> QED BY <3>2, <3>3
  <2> QED BY <2>1, <2>2
<1>9. CASE Enqueue(q)
  <2>1. UNCHANGED runs /\ call[q].pc = "enqueue" /\ queue \subseteq queue'
    BY <1>9 DEF Enqueue
  <2>2. Carried(n)
    BY <2>1 DEF NoStrandedRun
  <2>3. CASE call[q].run = n
    <3>1. n \in queue' \/ call' = [call EXCEPT ![q].pc = "abort"]
      BY <1>9, <2>3 DEF Enqueue
    <3>2. call' = [call EXCEPT ![q].pc = "abort"] => call'[q].pc = "abort" /\ call'[q].run = n
      BY <1>0, <2>3 DEF Call
    <3> QED BY <3>1, <3>2 DEF Carried
  <2>4. CASE call[q].run # n
    BY <1>1, <1>2, <2>1, <2>2, <2>4, CarriedOn
  <2> QED BY <2>3, <2>4
<1>10. CASE ConfirmEnqueued(q)
  <2>1. runs[n].status \in Active
    <3>1. CASE UNCHANGED runs
      BY <3>1
    <3>2. CASE ~UNCHANGED runs
      <4>1. runs[call[q].run].status = "enqueueing" /\ SetRun(call[q].run, "queued")
        BY <1>10, <3>2 DEF ConfirmEnqueued, NoUploadCalls
      <4>2. n # call[q].run => runs'[n] = runs[n]
        BY <1>0, <4>1 DEF SetRun
      <4> QED BY <4>1, <4>2 DEF Active
    <3> QED BY <3>1, <3>2
  <2> QED BY <1>3, <1>10, <2>1 DEF ConfirmEnqueued
<1>11. CASE AbortRefresh(q)
  <2> DEFINE m == call[q].run
  <2>1. m \in Runs /\ runs[m].status \in {"enqueueing", "gone"} /\ call[q].pc = "abort"
    BY <1>11 DEF AbortRefresh, IInv, References, Progress
  <2>2. runs' = runs \/ runs' = [runs EXCEPT ![m].status = "failed"]
    BY <1>11 DEF AbortRefresh, SetRun
  <2>3. runs[m].status = "enqueueing" => SetRun(m, "failed")
    BY <1>11 DEF AbortRefresh
  <2>4. n # m
    BY <1>0, <2>1, <2>2, <2>3 DEF SetRun, Run, Active
  <2>5. runs[n].status \in Active
    BY <1>0, <2>2, <2>4
  <2>6. UNCHANGED queue
    BY <1>11 DEF AbortRefresh
  <2> QED BY <1>1, <1>2, <2>4, <2>5, <2>6, CarriedOn DEF NoStrandedRun
<1>12. ~AbortUpload(q) /\ ~CallCrash(q) /\ \A r \in Resources, m \in Runs : ~UploadFolderBundle(q, r, m)
  BY DEF AbortUpload, CallCrash, NoUploadCalls, UploadFolderBundle, NoUploads, NoCrash
<1> QED BY <1>4, <1>5, <1>6, <1>7, <1>8, <1>9, <1>10, <1>11, <1>12 DEF CallStep

\* After a step of a worker an active run is carried: the worker takes it, keeps it,
\* ends it, or was not its carrier.
LEMMA WorkerCarries ==
  ASSUME NoCrash, IInv, NoStrandedRun, NEW w \in Workers, WorkerStep(w),
         NEW n \in Runs, runs'[n].status \in Active
  PROVE  Carried(n)'
<1>0. job \in [Workers -> Job] /\ job[w] \in Job /\ runs \in [Runs -> Run]
  BY DEF IInv, TypeOK
<1>1. \A v \in Workers : v # w => job'[v] = job[v]
  BY <1>0 DEF WorkerStep, TakeJob, BeginRun, LockResource, CommitRun, RunRaises,
         RecordFailure, WorkerCrash
<1>2. UNCHANGED call
  BY DEF WorkerStep, TakeJob, BeginRun, LockResource, CommitRun, RunRaises, RecordFailure,
         WorkerCrash
<1>3. ASSUME NEW pc \in {"begun", "failing", "ingesting"}, job' = [job EXCEPT ![w].pc = pc],
             UNCHANGED queue, runs[n].status \in Active
      PROVE  Carried(n)'
  <2>1. job'[w].run = job[w].run /\ job'[w].pc # "idle"
    BY <1>0, <1>3 DEF Job
  <2> QED BY <1>1, <1>2, <1>3, <2>1, CarriedOn DEF NoStrandedRun
<1>4. ASSUME NEW m \in Runs, TakeJob(w, m) PROVE Carried(n)'
  <2>1. /\ job[w].pc = "idle" /\ queue' = queue \ {m} /\ UNCHANGED runs
        /\ job' = IF Visible(m) THEN [job EXCEPT ![w] = [pc |-> "loaded", run |-> m]] ELSE job
    BY <1>4 DEF TakeJob
  <2>2. CASE n = m
    <3>1. Visible(m)
      BY <2>1, <2>2 DEF Visible, Active
    <3>2. job'[w].pc = "loaded" /\ job'[w].run = n
      BY <1>0, <2>1, <2>2, <3>1
    <3> QED BY <3>2 DEF Carried
  <2>3. CASE n # m
    BY <1>1, <1>2, <2>1, <2>3, CarriedOn DEF NoStrandedRun
  <2> QED BY <2>2, <2>3
<1>5. CASE BeginRun(w)
  <2>1. runs[n].status \in Active
    <3>1. CASE UNCHANGED runs
      BY <3>1
    <3>2. CASE ~UNCHANGED runs
      <4>1. SetRun(job[w].run, "running") /\ Visible(job[w].run) /\ job[w].pc = "loaded"
        BY <1>5, <3>2 DEF BeginRun
      <4>2. n # job[w].run => runs'[n] = runs[n]
        BY <1>0, <4>1 DEF SetRun
      <4> QED BY <4>1, <4>2 DEF IInv, Progress, Visible, Active
    <3> QED BY <3>1, <3>2
  <2> QED BY <1>3, <1>5, <2>1 DEF BeginRun
<1>6. CASE LockResource(w)
  BY <1>3, <1>6 DEF LockResource
<1>7. CASE RunRaises(w)
  BY <1>3, <1>7 DEF RunRaises
<1>8. ASSUME job[w].pc # "idle", UNCHANGED queue,
             SetRun(job[w].run, "succeeded") \/ SetRun(job[w].run, "failed")
             \/ (UNCHANGED runs /\ ~Visible(job[w].run))
      PROVE  Carried(n)'
  <2>1. job[w].run \in Runs
    BY <1>8 DEF IInv, References
  <2>2. n # job[w].run /\ runs'[n] = runs[n]
    BY <1>0, <1>8, <2>1 DEF SetRun, Visible, Active, Run
  <2> QED BY <1>1, <1>2, <1>8, <2>2, CarriedOn DEF NoStrandedRun
<1>9. CASE CommitRun(w)
  <2>1. job[w].pc # "idle" /\ UNCHANGED queue /\ SetRun(job[w].run, "succeeded")
    BY <1>9 DEF CommitRun
  <2> QED BY <1>8, <2>1
<1>10. CASE RecordFailure(w)
  <2>1. /\ job[w].pc # "idle" /\ UNCHANGED queue
        /\ (SetRun(job[w].run, "failed") \/ (UNCHANGED runs /\ ~Visible(job[w].run)))
    BY <1>10 DEF RecordFailure
  <2> QED BY <1>8, <2>1
<1> QED BY <1>4, <1>5, <1>6, <1>7, <1>9, <1>10 DEF WorkerStep, WorkerCrash, NoCrash

\* An active run always has a carrier (its call, the queue or a worker), when no process
\* crashes, no upload overwrites a status and no scheduler enqueues a job before it
\* commits its run: those are the three ways the code can strand one.
THEOREM NobodyIsStranded ==
  ASSUME NoAmbiguousEnqueue, NoUploads, NoCrash, NoScheduling
  PROVE  Spec => []NoStrandedRun
<1>1. Init => NoStrandedRun
  BY DEF Init, NoStrandedRun, Active
<1>2. ASSUME IInv, NoUploadCalls, NoStrandedRun, [Next]_vars PROVE NoStrandedRun'
  <2> SUFFICES ASSUME NEW n \in Runs, runs'[n].status \in Active PROVE Carried(n)'
    BY DEF NoStrandedRun
  <2>1. CASE UNCHANGED <<runs, queue, job, call>>
    BY <1>2, <2>1, CarriedBySame DEF NoStrandedRun
  <2>2. UNCHANGED vars => UNCHANGED <<runs, queue, job, call>>
    BY DEF vars
  <2>3. \A r \in Resources : CreateResource(r) \/ TimePasses(r) => UNCHANGED <<runs, queue, job, call>>
    BY DEF CreateResource, TimePasses
  <2> QED BY <1>2, <2>1, <2>2, <2>3, CallCarries, WorkerCarries DEF Next, NoScheduling
<1>3. IInv /\ NoUploadCalls /\ NoStrandedRun /\ [Next]_vars => NoStrandedRun'
  BY <1>2
<1> QED BY <1>1, <1>3, Invariance, NoUploadCallsInv, PTL DEF Spec
=============================================================================
