------------------------- MODULE IndexRunsInvariant -------------------------
(***************************************************************************)
(* The inductive invariant behind the safety properties of IndexRuns.      *)
(*                                                                         *)
(* OneActiveRunPerResource is not inductive by itself: BeginRun sets       *)
(* whatever run a worker holds to "running", so it must be known that the  *)
(* run was still active, which holds because a run has exactly one carrier *)
(* at a time (its request, the queue, one worker); and CommitScan turns    *)
(* flushed runs into queued ones, so flushed runs must count as live and   *)
(* be covered by their scheduler's lock.                                   *)
(***************************************************************************)
EXTENDS IndexRuns

\* References between the tables and the processes are real.
References ==
    /\ \A n \in Runs : runs[n].status # "none" => runs[n].res \in Resources
    /\ \A q \in Requests :
         call[q].pc \in {"enqueue", "confirm", "abort"} =>
            LET n == call[q].run IN
            /\ n \in Runs /\ runs[n].status # "none" /\ runs[n].res = call[q].res
            /\ (call[q].op = "upload") <=> (call[q].res \in Bundles)
    /\ \A q \in Requests : call[q].pc \notin {"new", "done"} => call[q].res \in Resources
    /\ \A q \in Requests : call[q].pc = "claim" => call[q].op = "refresh"
    /\ \A w \in Workers : job[w].pc # "idle" =>
         /\ job[w].run \in Runs
         /\ runs[job[w].run].status \notin {"none", "flushed"}
    /\ \A r \in Resources : rows[r].status = "absent" =>
         rows[r].snap = NoRun /\ \A n \in Runs : runs[n].status # "none" => runs[n].res # r

\* What a row lock protects: the scheduler's batch and the worker's resource.
Locking ==
    /\ \A s \in Schedulers, r \in Resources : scan[s].plan[r] # "none" =>
         lock[r] = s /\ r \notin Bundles /\ Present(r)
    /\ \A s \in Schedulers, r \in Resources :
         scan[s].plan[r] # "none" => scan[s].pc = "scanning"
    /\ \A n \in Runs : runs[n].status = "flushed" =>
         LET s == lock[runs[n].res] IN
         s \in Schedulers /\ scan[s].plan[runs[n].res] \in {"queued", "failed"}
    /\ \A w \in Workers : job[w].pc = "ingesting" =>
         LET n == job[w].run
             r == runs[n].res
         IN  /\ lock[r] = w /\ runs[n].status \in Active
             /\ Present(r) /\ ~Inactive(rows[r])

\* A run has one carrier at a time.
Carriers ==
    /\ \A w \in Workers : job[w].pc # "idle" => job[w].run \notin queue
    /\ \A v, w \in Workers :
         job[v].pc # "idle" /\ job[w].pc # "idle" /\ job[v].run = job[w].run => v = w
    /\ \A q \in Requests : call[q].pc \in {"enqueue", "abort"} =>
         /\ call[q].run \notin queue
         /\ \A w \in Workers : job[w].pc # "idle" => job[w].run # call[q].run
    /\ \A p, q \in Requests :
         /\ call[p].pc \in {"enqueue", "confirm", "abort"}
         /\ call[q].pc \in {"enqueue", "confirm", "abort"}
         /\ call[p].run = call[q].run
         => p = q

\* How far a run can be while somebody carries it.
Progress ==
    /\ \A n \in Runs : n \in queue =>
         /\ runs[n].status \in {"flushed", "enqueueing", "queued", "gone"}
         /\ runs[n].status = "flushed" =>
              scan[lock[runs[n].res]].plan[runs[n].res] = "queued"
    /\ \A w \in Workers : job[w].pc = "loaded" =>
         runs[job[w].run].status \in {"enqueueing", "queued", "gone"}
    /\ \A w \in Workers : job[w].pc = "begun" =>
         runs[job[w].run].status \in {"running", "queued", "gone"}
    /\ \A q \in Requests : call[q].pc \in {"enqueue", "abort"} =>
         runs[call[q].run].status \in {"enqueueing", "gone"}

\* A run that disappears between its worker's first commit and the row lock was
\* deleted by a purge of its resource.
LostToPurge ==
    \A w \in Workers :
        job[w].pc = "begun" /\ runs[job[w].run].status = "gone" =>
            rows[runs[job[w].run].res].status = "purged"

\* A bundle is uploaded once.
OneRunPerBundle ==
    \A a, b \in Runs : /\ runs[a].status # "none" /\ runs[b].status # "none"
                       /\ runs[a].res = runs[b].res /\ runs[a].res \in Bundles
                       => a = b

\* The runs of a purged resource are gone.
PurgedRuns ==
    \A n \in Runs :
        runs[n].status # "none" /\ rows[runs[n].res].status = "purged" =>
            runs[n].status = "gone"

\* OneActiveRunPerResource, with the runs a scheduler has not committed yet.
OneLiveRun ==
    \A a, b \in Runs : /\ runs[a].status \in Live /\ runs[b].status \in Live
                       /\ runs[a].res = runs[b].res
                       => a = b

\* The inductive invariant (when no enqueue is ambiguous).
IInv ==
    /\ TypeOK
    /\ References
    /\ Locking
    /\ Carriers
    /\ Progress
    /\ LostToPurge
    /\ OneRunPerBundle
    /\ PurgedRuns
    /\ OneLiveRun

\* While a scheduler works on a row, the row stays as its query found it.
PlannedRows ==
    \A s \in Schedulers, r \in Resources :
        /\ scan[s].plan[r] # "none" => Schedulable(r)
        /\ scan[s].plan[r] \in {"queued", "failed"} => rows[r].freq = "interval"

NoAmbiguousEnqueue == "enqueue_ambiguous" \notin Faults

-----------------------------------------------------------------------------
(* What single theorems need besides IInv: restrictions of an instance to   *)
(* the operations and faults they hold under, and invariants of their own.  *)

NoUploads == "upload" \notin Ops
NoLateTimeout == "late_timeout" \notin Faults
NoCrash == "crash" \notin Faults
NoScheduling == Schedulers = {}

NoUploadCalls == \A q \in Requests : call[q].op # "upload"

\* The except block of run_index never holds a succeeded run (without late
\* timeouts): its "failed" undoes nothing.
FailingRuns ==
    \A w \in Workers : job[w].pc = "failing" => runs[job[w].run].status # "succeeded"

\* The holder of a resource's slot is its one live run.
HoldersAreLive ==
    \A r \in Resources :
        /\ Holder(r) \in Runs \cup {NoRun}
        /\ \A n \in Runs :
             (runs[n].res = r /\ runs[n].status \in Live) <=> Holder(r) = n
=============================================================================
