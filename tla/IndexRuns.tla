------------------------------ MODULE IndexRuns ------------------------------
(***************************************************************************)
(* Resource rows, index runs and the work queue of SourceBrief: the API    *)
(* handlers that create, refresh, upload, archive, delete, restore, update *)
(* and purge a resource, the maintenance scheduler that enqueues due       *)
(* refreshes, and the RQ workers that execute run_index.                   *)
(*                                                                         *)
(* One action is one database transaction (or one Redis call) of a         *)
(* handler.  Postgres runs at READ COMMITTED: a step reads committed rows, *)
(* and a transaction that keeps a row lock across several steps owns       *)
(* lock[r] until it commits or rolls back.  Timestamps are abstracted to   *)
(* what the code compares: next_refresh_at is unset, in the future or due; *)
(* archived_at and deleted_at are flags.                                   *)
(***************************************************************************)
EXTENDS Naturals, FiniteSets

CONSTANTS
    Resources,   \* ids of resource rows
    Bundles,     \* those of type folder_bundle: uploaded, never refreshed
    Runs,        \* ids of index_runs rows (bounds the number of runs)
    Requests,    \* API calls, each made once (bounds the calls in flight on a resource)
    Workers,     \* RQ worker processes
    Schedulers,  \* callers of enqueue_due_refreshes
    Ops,         \* the API calls this instance makes
    Faults,      \* the faults this instance suffers
    Frequencies, \* the update frequencies this instance uses
    ScanLimit,   \* the scheduler's batch limit
    NoResource, NoRun, Nobody

AllOps == {"create", "upload", "refresh", "archive", "delete", "restore",
           "purge", "update", "review"}

\* enqueue_error: Redis refuses the job.  enqueue_ambiguous: the client raises
\* though Redis kept the job.  crash: a process dies between two steps.
\* late_timeout: the job's 600 s alarm fires after the last commit.
AllFaults == {"enqueue_error", "enqueue_ambiguous", "crash", "late_timeout"}

\* update_frequency is any string.  "off" stands for every value other than
\* "manual" that parse_update_frequency turns into None ("none", "disabled",
\* "off", "never", a typing error).
AllFrequencies == {"manual", "off", "interval"}

ASSUME ConstantsAssumption ==
    /\ Bundles \subseteq Resources
    /\ Ops \subseteq AllOps
    /\ Faults \subseteq AllFaults
    /\ Frequencies \subseteq AllFrequencies /\ "manual" \in Frequencies
    /\ ScanLimit \in Nat \ {0}
    /\ Workers \cap Schedulers = {}
    /\ Nobody \notin Workers \cup Schedulers
    /\ NoRun \notin Runs
    /\ NoResource \notin Resources

VARIABLES
    rows,   \* the resources table, committed
    runs,   \* the index_runs table; "flushed" rows are visible only to their scheduler
    queue,  \* job arguments waiting in the RQ "default" queue
    lock,   \* holder of each resource row's FOR UPDATE lock
    call,   \* progress of each API call
    job,    \* progress of each worker
    scan    \* progress of each scheduler pass

vars == <<rows, runs, queue, lock, call, job, scan>>

-----------------------------------------------------------------------------
(* Types *)

Active == {"enqueueing", "queued", "running"}

RunStatus == {"none", "flushed", "succeeded", "failed", "gone"} \cup Active

Run == [status : RunStatus,
        res : Resources \cup {NoResource},
        trigger : {"none", "manual", "upload", "scheduled"}]

Row == [status : {"absent", "active", "failed", "error", "archived", "deleted", "purged"},
        archived : BOOLEAN,
        deleted : BOOLEAN,
        retrieval : BOOLEAN,
        freq : AllFrequencies,
        next : {"unset", "future", "due"},
        snap : Runs \cup {NoRun}]     \* the run that wrote current_snapshot_id

EmptyRow(status) ==
    [status |-> status, archived |-> FALSE, deleted |-> FALSE, retrieval |-> TRUE,
     freq |-> "manual", next |-> "unset", snap |-> NoRun]

\* What a PATCH, a git-env PUT or a review asks for: keep, or the new value.
\* "same" is a new source_config with the frequency kept: it recomputes
\* next_refresh_at as a new frequency does.
Want == [retrieval : {"keep", "on", "off"}, freq : {"keep", "same"} \cup Frequencies]
NoWant == [retrieval |-> "keep", freq |-> "keep"]

Call == [pc : {"new", "claim", "enqueue", "confirm", "abort", "write", "done"},
         op : AllOps \cup {"none"},
         res : Resources \cup {NoResource},
         run : Runs \cup {NoRun},
         seen : Row,                  \* the row as resolve_resource loaded it
         want : Want]

Blank(pc) == [pc |-> pc, op |-> "none", res |-> NoResource, run |-> NoRun,
              seen |-> EmptyRow("absent"), want |-> NoWant]

Job == [pc : {"idle", "loaded", "begun", "ingesting", "failing"},
        run : Runs \cup {NoRun}]

Plan == {"none", "todo", "skip", "later", "queued", "failed"}

Scan == [pc : {"idle", "scanning"}, plan : [Resources -> Plan]]

TypeOK ==
    /\ rows \in [Resources -> Row]
    /\ runs \in [Runs -> Run]
    /\ queue \subseteq Runs
    /\ lock \in [Resources -> Workers \cup Schedulers \cup {Nobody}]
    /\ call \in [Requests -> Call]
    /\ job \in [Workers -> Job]
    /\ scan \in [Schedulers -> Scan]

Init ==
    /\ rows = [r \in Resources |-> EmptyRow("absent")]
    /\ runs = [n \in Runs |-> [status |-> "none", res |-> NoResource, trigger |-> "none"]]
    /\ queue = {}
    /\ lock = [r \in Resources |-> Nobody]
    /\ call = [q \in Requests |-> Blank("new")]
    /\ job = [w \in Workers |-> [pc |-> "idle", run |-> NoRun]]
    /\ scan = [s \in Schedulers |-> [pc |-> "idle", plan |-> [r \in Resources |-> "none"]]]

-----------------------------------------------------------------------------
(* Reading the tables *)

Present(r) == rows[r].status \notin {"absent", "purged"}

Visible(n) == runs[n].status \notin {"none", "flushed", "gone"}

\* Variant: "enqueueing" left out of ACTIVE_INDEX_STATUSES.
HasActiveRunStarted(r) ==
    \E n \in Runs : runs[n].res = r /\ runs[n].status \in {"queued", "running"}

HasActiveRun(r) == \E n \in Runs : runs[n].res = r /\ runs[n].status \in Active

\* Variant: archived_at is not looked at.
InactiveDeletedOnly(row) == row.deleted \/ row.status = "deleted"

Inactive(row) == row.deleted \/ row.archived \/ row.status \in {"deleted", "archived"}

\* compute_next_refresh_at: None for a manual resource, else last refresh plus
\* the interval, or now when that has passed.
NextOf(freq) == IF freq = "interval" THEN {"future", "due"} ELSE {"unset"}

\* The same straight after a refresh: a whole interval lies ahead.
NextAfterRefresh(freq) == IF freq = "interval" THEN "future" ELSE "unset"

\* A session flush writes a column only when its value changed since it was
\* loaded; the concurrent value of any other column survives.
Changed(loaded, wanted, stored) == IF wanted # loaded THEN wanted ELSE stored

\* A fresh timestamp always differs from the loaded one; None may not.
ChangedNext(loaded, wanted, stored) ==
    IF wanted = "unset" THEN Changed(loaded, wanted, stored) ELSE wanted

SetRun(n, status) == runs' = [runs EXCEPT ![n].status = status]

Finish(q) == call' = [call EXCEPT ![q] = Blank("done")]

-----------------------------------------------------------------------------
(* API: creating resources and runs *)

CreateResource(r) ==
    /\ "create" \in Ops
    /\ r \notin Bundles /\ rows[r].status = "absent"
    /\ \E freq \in Frequencies :
         rows' = [rows EXCEPT ![r] = [EmptyRow("active") EXCEPT
                                        !.freq = freq, !.next = NextAfterRefresh(freq)]]
    /\ UNCHANGED <<runs, queue, lock, call, job, scan>>

\* The resource row and its run are committed together, before the enqueue.
UploadFolderBundle(q, r, n) ==
    /\ "upload" \in Ops /\ call[q].pc = "new"
    /\ r \in Bundles /\ rows[r].status = "absent"
    /\ runs[n].status = "none"
    /\ rows' = [rows EXCEPT ![r] = EmptyRow("active")]
    /\ runs' = [runs EXCEPT ![n] = [status |-> "enqueueing", res |-> r, trigger |-> "upload"]]
    /\ call' = [call EXCEPT ![q].pc = "enqueue", ![q].op = "upload",
                            ![q].res = r, ![q].run = n]
    /\ UNCHANGED <<queue, lock, job, scan>>

\* resolve_resource: an unlocked read, never repeated.
ResolveForRefresh(q, r) ==
    /\ "refresh" \in Ops /\ call[q].pc = "new"
    /\ Present(r) /\ ~rows[r].deleted
    /\ call' = [call EXCEPT ![q].pc = "claim", ![q].op = "refresh", ![q].res = r]
    /\ UNCHANGED <<rows, runs, queue, lock, job, scan>>

\* Under the row lock: return the active run, refuse a bundle, or insert a run.
ClaimRefresh(q) ==
    LET r == call[q].res IN
    /\ call[q].pc = "claim" /\ lock[r] = Nobody
    /\ \/ /\ ~Present(r) \/ HasActiveRun(r) \/ r \in Bundles
          /\ Finish(q)
          /\ UNCHANGED runs
       \/ /\ Present(r) /\ ~HasActiveRun(r) /\ r \notin Bundles
          /\ \E n \in Runs :
               /\ runs[n].status = "none"
               /\ runs' = [runs EXCEPT ![n] =
                            [status |-> "enqueueing", res |-> r, trigger |-> "manual"]]
               /\ call' = [call EXCEPT ![q].pc = "enqueue", ![q].run = n]
    /\ UNCHANGED <<rows, queue, lock, job, scan>>

Enqueue(q) ==
    /\ call[q].pc = "enqueue"
    /\ \/ /\ queue' = queue \cup {call[q].run}
          /\ call' = [call EXCEPT ![q].pc = "confirm"]
       \/ /\ "enqueue_error" \in Faults
          /\ call' = [call EXCEPT ![q].pc = "abort"]
          /\ UNCHANGED queue
       \/ /\ "enqueue_ambiguous" \in Faults
          /\ queue' = queue \cup {call[q].run}
          /\ call' = [call EXCEPT ![q].pc = "abort"]
    /\ UNCHANGED <<rows, runs, lock, job, scan>>

\* Variant: the refresh handler also writes "queued" whatever the status is.
ConfirmUnconditionally(q) ==
    /\ call[q].pc = "confirm"
    /\ IF Visible(call[q].run) THEN SetRun(call[q].run, "queued") ELSE UNCHANGED runs
    /\ Finish(q)
    /\ UNCHANGED <<rows, queue, lock, job, scan>>

\* refresh_resource updates WHERE status = 'enqueueing'; the upload handler
\* writes the row it holds, whatever its status has become.
ConfirmEnqueued(q) ==
    LET n == call[q].run IN
    /\ call[q].pc = "confirm"
    /\ IF runs[n].status = "enqueueing" \/ (call[q].op = "upload" /\ Visible(n))
         THEN SetRun(n, "queued")
         ELSE UNCHANGED runs
    /\ Finish(q)
    /\ UNCHANGED <<rows, queue, lock, job, scan>>

\* Variant: a failed enqueue answers 503 and leaves the run.
AbortRefreshSilently(q) ==
    /\ call[q].pc = "abort" /\ call[q].op = "refresh"
    /\ Finish(q)
    /\ UNCHANGED <<rows, runs, queue, lock, job, scan>>

AbortRefresh(q) ==
    LET n == call[q].run IN
    /\ call[q].pc = "abort" /\ call[q].op = "refresh"
    /\ IF runs[n].status = "enqueueing" THEN SetRun(n, "failed") ELSE UNCHANGED runs
    /\ Finish(q)
    /\ UNCHANGED <<rows, queue, lock, job, scan>>

\* The failed upload hides the resource; retrieval_enabled is left as it was.
AbortUpload(q) ==
    LET n == call[q].run
        r == call[q].res
    IN
    /\ call[q].pc = "abort" /\ call[q].op = "upload" /\ lock[r] = Nobody
    /\ IF Present(r)
         THEN /\ rows' = [rows EXCEPT ![r].status = "error", ![r].deleted = TRUE]
              /\ SetRun(n, "failed")
         ELSE UNCHANGED <<rows, runs>>
    /\ Finish(q)
    /\ UNCHANGED <<queue, lock, job, scan>>

\* The API process dies while a call is in flight.
CallCrash(q) ==
    /\ "crash" \in Faults
    /\ call[q].pc \notin {"new", "done"}
    /\ Finish(q)
    /\ UNCHANGED <<rows, runs, queue, lock, job, scan>>

-----------------------------------------------------------------------------
(* API: lifecycle calls.  Each loads the row without a lock, checks it, and *)
(* later flushes its changed columns, waiting for the row lock.             *)

Lifecycle == {"archive", "delete", "restore", "purge", "update", "review"}

\* What each handler checks on the row it loaded.
Accepts(op, row, want) ==
    CASE op = "restore" -> Inactive(row)
      [] op = "purge"   -> row.deleted \/ row.status = "deleted"
      [] op \in {"update", "review"} ->
           ~row.deleted /\ ~(row.archived /\ want.retrieval = "on")
      [] OTHER -> ~row.deleted

ResolveLifecycle(q, op, r, want) ==
    /\ op \in Ops \cap Lifecycle /\ call[q].pc = "new"
    /\ Present(r) /\ Accepts(op, rows[r], want)
    /\ op = "purge" => ~HasActiveRun(r)
    /\ op = "update" \/ want.freq = "keep"
    /\ op \in {"update", "review"} \/ want.retrieval = "keep"
    /\ r \in Bundles => want.freq \in {"keep", "same", "manual"}
    /\ call' = [call EXCEPT ![q] = [pc |-> "write", op |-> op, res |-> r, run |-> NoRun,
                                    seen |-> rows[r], want |-> want]]
    /\ UNCHANGED <<rows, runs, queue, lock, job, scan>>

Archived(row, seen) ==
    [row EXCEPT !.archived = TRUE,
                !.status = Changed(seen.status, "archived", @),
                !.retrieval = Changed(seen.retrieval, FALSE, @),
                !.next = Changed(seen.next, "unset", @)]

Deleted(row, seen) ==
    [row EXCEPT !.deleted = TRUE,
                !.archived = Changed(seen.archived, TRUE, @),
                !.status = Changed(seen.status, "deleted", @),
                !.retrieval = Changed(seen.retrieval, FALSE, @),
                !.next = Changed(seen.next, "unset", @)]

Restored(row, seen, next) ==
    [row EXCEPT !.deleted = Changed(seen.deleted, FALSE, @),
                !.archived = Changed(seen.archived, FALSE, @),
                !.status = Changed(seen.status, "active", @),
                !.retrieval = Changed(seen.retrieval, TRUE, @),
                !.next = ChangedNext(seen.next, next, @)]

Updated(row, seen, want, next) ==
    [row EXCEPT
        !.retrieval = IF want.retrieval = "keep" THEN @
                      ELSE Changed(seen.retrieval, want.retrieval = "on", @),
        !.freq = IF want.freq \in Frequencies THEN Changed(seen.freq, want.freq, @) ELSE @,
        !.next = IF want.freq = "keep" THEN @ ELSE ChangedNext(seen.next, next, @)]

\* The row as each lifecycle handler leaves it (a set: next_refresh_at depends
\* on times the model does not keep).
Rewritten(c, row) ==
    CASE c.op = "archive" -> {Archived(row, c.seen)}
      [] c.op = "delete"  -> {Deleted(row, c.seen)}
      [] c.op = "restore" -> {Restored(row, c.seen, next) : next \in NextOf(c.seen.freq)}
      [] OTHER -> {Updated(row, c.seen, c.want, next) :
                     next \in NextOf(IF c.want.freq \in Frequencies THEN c.want.freq
                                                                    ELSE c.seen.freq)}

WriteLifecycle(q) ==
    LET r == call[q].res IN
    /\ call[q].pc = "write" /\ call[q].op # "purge" /\ lock[r] = Nobody
    /\ IF Present(r)
         THEN \E row \in Rewritten(call[q], rows[r]) : rows' = [rows EXCEPT ![r] = row]
         ELSE UNCHANGED rows
    /\ Finish(q)
    /\ UNCHANGED <<runs, queue, lock, job, scan>>

\* Variant: only the run of the current snapshot is deleted.
PurgeSnapshotRun(q) ==
    LET r == call[q].res IN
    /\ call[q].pc = "write" /\ call[q].op = "purge" /\ lock[r] = Nobody
    /\ rows' = [rows EXCEPT ![r] = EmptyRow("purged")]
    /\ runs' = [n \in Runs |-> IF n = rows[r].snap THEN [runs[n] EXCEPT !.status = "gone"]
                                                  ELSE runs[n]]
    /\ Finish(q)
    /\ UNCHANGED <<queue, lock, job, scan>>

\* purge_resource_artifacts deletes by resource id: no check is repeated here.
PurgeResource(q) ==
    LET r == call[q].res IN
    /\ call[q].pc = "write" /\ call[q].op = "purge" /\ lock[r] = Nobody
    /\ rows' = [rows EXCEPT ![r] = EmptyRow("purged")]
    /\ runs' = [n \in Runs |-> IF runs[n].res = r /\ Visible(n)
                                 THEN [runs[n] EXCEPT !.status = "gone"]
                                 ELSE runs[n]]
    /\ Finish(q)
    /\ UNCHANGED <<queue, lock, job, scan>>

-----------------------------------------------------------------------------
(* Worker: run_index *)

Release(p) == [r \in Resources |-> IF lock[r] = p THEN Nobody ELSE lock[r]]

\* Variant: the job stays in the queue until somebody acknowledges it.
TakeJobKeeping(w, n) ==
    /\ job[w].pc = "idle" /\ n \in queue /\ Visible(n)
    /\ job' = [job EXCEPT ![w] = [pc |-> "loaded", run |-> n]]
    /\ UNCHANGED <<rows, runs, queue, lock, call, scan>>

\* A job whose run row is not (or no longer) visible raises and is not retried.
TakeJob(w, n) ==
    /\ job[w].pc = "idle" /\ n \in queue
    /\ queue' = queue \ {n}
    /\ job' = IF Visible(n) THEN [job EXCEPT ![w] = [pc |-> "loaded", run |-> n]] ELSE job
    /\ UNCHANGED <<rows, runs, lock, call, scan>>

BeginRun(w) ==
    LET n == job[w].run IN
    /\ job[w].pc = "loaded" /\ lock[runs[n].res] = Nobody
    /\ IF Visible(n)
         THEN /\ SetRun(n, "running")
              /\ job' = [job EXCEPT ![w].pc = "begun"]
         ELSE /\ job' = [job EXCEPT ![w].pc = "failing"]
              /\ UNCHANGED runs
    /\ UNCHANGED <<rows, queue, lock, call, scan>>

\* Variant: a plain SELECT.
LockResourceNot(w) ==
    LET r == runs[job[w].run].res IN
    /\ job[w].pc = "begun" /\ lock[r] = Nobody
    /\ job' = [job EXCEPT ![w].pc = IF ~Present(r) \/ Inactive(rows[r]) THEN "failing"
                                                                       ELSE "ingesting"]
    /\ UNCHANGED <<rows, runs, queue, lock, call, scan>>

\* SELECT ... FOR UPDATE with populate_existing, then the lifecycle check.
LockResource(w) ==
    LET r == runs[job[w].run].res IN
    /\ job[w].pc = "begun" /\ lock[r] = Nobody
    /\ IF ~Present(r) \/ Inactive(rows[r])
         THEN /\ job' = [job EXCEPT ![w].pc = "failing"]
              /\ UNCHANGED lock
         ELSE /\ job' = [job EXCEPT ![w].pc = "ingesting"]
              /\ lock' = [lock EXCEPT ![r] = w]
    /\ UNCHANGED <<rows, runs, queue, call, scan>>

\* The commit of snapshot, resource and run.  A scheduled Git run that finds the
\* source unchanged keeps the current snapshot.  With a late timeout the
\* exception handler runs although the commit is done.
CommitRun(w) ==
    LET n == job[w].run
        r == runs[n].res
    IN
    /\ job[w].pc = "ingesting"
    /\ \E snap \in {n} \cup (IF runs[n].trigger = "scheduled" /\ rows[r].snap # NoRun
                               THEN {rows[r].snap} ELSE {}) :
         rows' = [rows EXCEPT ![r].status = "active", ![r].snap = snap,
                              ![r].next = NextAfterRefresh(rows[r].freq)]
    /\ SetRun(n, "succeeded")
    /\ lock' = Release(w)
    /\ \/ job' = [job EXCEPT ![w] = [pc |-> "idle", run |-> NoRun]]
       \/ "late_timeout" \in Faults /\ job' = [job EXCEPT ![w].pc = "failing"]
    /\ UNCHANGED <<queue, call, scan>>

\* Any exception, the job timeout included: the open transaction rolls back.
RunRaises(w) ==
    /\ job[w].pc \in {"loaded", "begun", "ingesting"}
    /\ job' = [job EXCEPT ![w].pc = "failing"]
    /\ lock' = Release(w)
    /\ UNCHANGED <<rows, runs, queue, call, scan>>

\* Variant: the failure is recorded on the resource only.
RecordFailureOnRow(w) ==
    LET r == runs[job[w].run].res IN
    /\ job[w].pc = "failing" /\ lock[r] = Nobody
    /\ IF Present(r) THEN rows' = [rows EXCEPT ![r].status = "failed"] ELSE UNCHANGED rows
    /\ job' = [job EXCEPT ![w] = [pc |-> "idle", run |-> NoRun]]
    /\ UNCHANGED <<runs, queue, lock, call, scan>>

\* The except block: a second transaction, without the lifecycle check.
RecordFailure(w) ==
    LET n == job[w].run
        r == runs[n].res
    IN
    /\ job[w].pc = "failing" /\ lock[r] = Nobody
    /\ IF Visible(n)
         THEN /\ SetRun(n, "failed")
              /\ rows' = [rows EXCEPT ![r].status = "failed",
                                      ![r].next = IF runs[n].trigger = "scheduled"
                                                    THEN "future" ELSE @]
         ELSE UNCHANGED <<rows, runs>>
    /\ job' = [job EXCEPT ![w] = [pc |-> "idle", run |-> NoRun]]
    /\ UNCHANGED <<queue, lock, call, scan>>

WorkerCrash(w) ==
    /\ "crash" \in Faults /\ job[w].pc # "idle"
    /\ job' = [job EXCEPT ![w] = [pc |-> "idle", run |-> NoRun]]
    /\ lock' = Release(w)
    /\ UNCHANGED <<rows, runs, queue, call, scan>>

-----------------------------------------------------------------------------
(* Scheduler: enqueue_due_refreshes, one transaction for the whole batch *)

\* Variant: retrieval_enabled is not looked at.
SchedulableDisabled(r) ==
    Present(r) /\ ~Inactive(rows[r]) /\ rows[r].freq # "manual" /\ r \notin Bundles

\* Variant: a failed resource is not scanned again.
SchedulableHealthy(r) ==
    /\ Present(r) /\ rows[r].status = "active"
    /\ rows[r].retrieval /\ rows[r].freq # "manual" /\ r \notin Bundles

Schedulable(r) ==
    /\ Present(r) /\ ~Inactive(rows[r])
    /\ rows[r].retrieval /\ rows[r].freq # "manual" /\ r \notin Bundles

\* ORDER BY next_refresh_at ASC NULLS FIRST
ScanRank(r) == CASE rows[r].next = "unset" -> 0
                 [] rows[r].next = "due" -> 1
                 [] OTHER -> 2

\* FOR UPDATE SKIP LOCKED LIMIT n: a full batch, earliest rows first.
StartScan(s) ==
    LET found == {r \in Resources : Schedulable(r) /\ lock[r] = Nobody} IN
    /\ scan[s].pc = "idle"
    /\ \E batch \in SUBSET found :
         /\ batch # {}
         /\ \/ batch = found /\ Cardinality(found) <= ScanLimit
            \/ Cardinality(batch) = ScanLimit
         /\ \A r \in batch, x \in found \ batch : ScanRank(r) <= ScanRank(x)
         /\ lock' = [r \in Resources |-> IF r \in batch THEN s ELSE lock[r]]
         /\ scan' = [scan EXCEPT ![s] =
                       [pc |-> "scanning",
                        plan |-> [r \in Resources |-> IF r \in batch THEN "todo" ELSE "none"]]]
    /\ UNCHANGED <<rows, runs, queue, call, job>>

Decide(s, r, decision) == scan' = [scan EXCEPT ![s].plan[r] = decision]

\* Not due yet, or due with a run still active.  (A model whose Runs are used
\* up skips as well: a bound of the model, not a decision of the code.)
SkipResource(s, r) ==
    /\ scan[s].pc = "scanning" /\ scan[s].plan[r] = "todo"
    /\ \/ /\ rows[r].next = "future" \/ rows[r].freq = "off"
          /\ Decide(s, r, "skip")
       \/ rows[r].next = "unset" /\ rows[r].freq = "interval" /\ Decide(s, r, "later")
       \/ /\ rows[r].next # "future" /\ rows[r].freq = "interval"
          /\ HasActiveRun(r) \/ \A n \in Runs : runs[n].status # "none"
          /\ Decide(s, r, "skip")
    /\ UNCHANGED <<rows, runs, queue, lock, call, job>>

\* The run is flushed and its job enqueued while the transaction is still open.
EnqueueDue(s, r, n) ==
    /\ scan[s].pc = "scanning" /\ scan[s].plan[r] = "todo"
    /\ rows[r].next # "future" /\ rows[r].freq = "interval" /\ ~HasActiveRun(r)
    /\ runs[n].status = "none"
    /\ runs' = [runs EXCEPT ![n] = [status |-> "flushed", res |-> r, trigger |-> "scheduled"]]
    /\ \/ queue' = queue \cup {n} /\ Decide(s, r, "queued")
       \/ "enqueue_error" \in Faults /\ UNCHANGED queue /\ Decide(s, r, "failed")
       \/ "enqueue_ambiguous" \in Faults /\ queue' = queue \cup {n} /\ Decide(s, r, "failed")
    /\ UNCHANGED <<rows, lock, call, job>>

\* The fate of a run flushed in scheduler s's transaction.
Flushed(s, n) == runs[n].status = "flushed" /\ lock[runs[n].res] = s

CommitScan(s) ==
    /\ scan[s].pc = "scanning"
    /\ \A r \in Resources : scan[s].plan[r] # "todo"
    /\ \E due \in SUBSET Resources :
         rows' = [r \in Resources |->
                    CASE scan[s].plan[r] \in {"later", "queued"} ->
                           [rows[r] EXCEPT !.next = "future"]
                      [] scan[s].plan[r] = "failed" ->
                           [rows[r] EXCEPT !.status = "failed",
                                           !.next = IF r \in due THEN "due" ELSE "future"]
                      [] OTHER -> rows[r]]
    /\ runs' = [n \in Runs |-> IF Flushed(s, n)
                                 THEN [runs[n] EXCEPT !.status = scan[s].plan[runs[n].res]]
                                 ELSE runs[n]]
    /\ lock' = Release(s)
    /\ scan' = [scan EXCEPT ![s] = [pc |-> "idle", plan |-> [r \in Resources |-> "none"]]]
    /\ UNCHANGED <<queue, call, job>>

\* The process dies, or the batch raises: the whole transaction rolls back,
\* the jobs already enqueued stay.
ScanRollback(s) ==
    /\ "crash" \in Faults /\ scan[s].pc = "scanning"
    /\ runs' = [n \in Runs |-> IF Flushed(s, n) THEN [runs[n] EXCEPT !.status = "gone"]
                                                ELSE runs[n]]
    /\ lock' = Release(s)
    /\ scan' = [scan EXCEPT ![s] = [pc |-> "idle", plan |-> [r \in Resources |-> "none"]]]
    /\ UNCHANGED <<rows, queue, call, job>>

-----------------------------------------------------------------------------

\* A scheduled refresh time arrives.
TimePasses(r) ==
    /\ Present(r) /\ rows[r].next = "future" /\ lock[r] = Nobody
    /\ rows' = [rows EXCEPT ![r].next = "due"]
    /\ UNCHANGED <<runs, queue, lock, call, job, scan>>

CallStep(q) ==
    \/ \E r \in Resources :
         ResolveForRefresh(q, r) \/ \E n \in Runs : UploadFolderBundle(q, r, n)
    \/ ClaimRefresh(q) \/ Enqueue(q) \/ ConfirmEnqueued(q)
    \/ AbortRefresh(q) \/ AbortUpload(q) \/ CallCrash(q)
    \/ \E op \in Lifecycle, r \in Resources, want \in Want : ResolveLifecycle(q, op, r, want)
    \/ WriteLifecycle(q) \/ PurgeResource(q)

WorkerStep(w) ==
    \/ \E n \in Runs : TakeJob(w, n)
    \/ BeginRun(w) \/ LockResource(w) \/ CommitRun(w)
    \/ RunRaises(w) \/ RecordFailure(w) \/ WorkerCrash(w)

SchedulerStep(s) ==
    \/ StartScan(s)
    \/ \E r \in Resources : SkipResource(s, r)
    \/ \E r \in Resources, n \in Runs : EnqueueDue(s, r, n)
    \/ CommitScan(s) \/ ScanRollback(s)

Next ==
    \/ \E q \in Requests : CallStep(q)
    \/ \E w \in Workers : WorkerStep(w)
    \/ \E s \in Schedulers : SchedulerStep(s)
    \/ \E r \in Resources : CreateResource(r) \/ TimePasses(r)

Spec == Init /\ [][Next]_vars

-----------------------------------------------------------------------------
(* Fairness.  API processes, workers and schedulers keep running.  A step   *)
(* that waits for a row lock gets strong fairness: Postgres queues waiters  *)
(* on the row, while the scheduler only takes rows that nobody holds.       *)

\* One step of a scheduler that has begun a pass.
ScanProgress(s) ==
    \/ \E r \in Resources : SkipResource(s, r) \/ \E n \in Runs : EnqueueDue(s, r, n)
    \/ CommitScan(s)

Fairness ==
    /\ \A q \in Requests :
         /\ WF_vars(Enqueue(q)) /\ WF_vars(ConfirmEnqueued(q)) /\ WF_vars(AbortRefresh(q))
         /\ SF_vars(AbortUpload(q))
    /\ \A w \in Workers :
         /\ WF_vars(\E n \in Runs : TakeJob(w, n))
         /\ SF_vars(BeginRun(w)) /\ SF_vars(LockResource(w)) /\ SF_vars(RecordFailure(w))
         /\ WF_vars(CommitRun(w) \/ RunRaises(w))
    /\ \A s \in Schedulers : WF_vars(StartScan(s)) /\ WF_vars(ScanProgress(s))

FairSpec == Spec /\ Fairness

-----------------------------------------------------------------------------
(* Safety *)

\* However manual refreshes, scheduler passes, uploads, workers and lifecycle
\* calls interleave, a resource never has two runs enqueueing, queued or running
\* (refresh_resource's row lock, the scheduler's _has_active_index_run; SPEC.md
\* "only one running index_run per resource").
OneActiveRunPerResource ==
    \A a, b \in Runs : /\ runs[a].status \in Active
                       /\ runs[b].status \in Active
                       /\ runs[a].res = runs[b].res
                       => a = b

\* The step of SnapshotAdvance.
AdvancedByActiveRun ==
    \A r \in Resources :
        rows'[r].snap # rows[r].snap /\ rows'[r].status # "purged" =>
            LET n == rows'[r].snap IN
            /\ n # NoRun /\ runs[n].res = r
            /\ runs[n].status \in Active /\ runs'[n].status = "succeeded"
            /\ \A row \in {rows[r], rows'[r]} : ~row.archived /\ ~row.deleted

\* current_snapshot_id moves only in the transaction that ends an active run of
\* that resource as succeeded, on a row nobody archived or deleted meanwhile:
\* run_index keeps the row locked from its check to its commit.
SnapshotAdvance == [][AdvancedByActiveRun]_vars

\* The step of ScheduledOnlyWhileLive.
ScheduledWhileLive ==
    \A n \in Runs : runs[n].status = "flushed" /\ runs'[n].status = "queued" =>
        LET row == rows'[runs[n].res] IN
        ~row.archived /\ ~row.deleted /\ row.retrieval /\ row.freq = "interval"

\* A scheduled run becomes queued only on a row that is, at that commit, neither
\* archived nor deleted and has retrieval enabled, although the scan read it
\* several steps before (enqueue_due_refreshes holds its rows FOR UPDATE).
ScheduledOnlyWhileLive == [][ScheduledWhileLive]_vars

\* After a purge commits no index_runs row of the resource is left or appears,
\* and no worker ingests it, whatever calls, scans and jobs were under way.
PurgedLeavesNothing ==
    \A r \in Resources : rows[r].status = "purged" =>
        /\ ~\E n \in Runs : runs[n].res = r /\ (Visible(n) \/ runs[n].status = "flushed")
        /\ ~\E w \in Workers : job[w].pc = "ingesting" /\ runs[job[w].run].res = r

Carried(n) ==
    \/ n \in queue
    \/ \E w \in Workers : job[w].pc # "idle" /\ job[w].run = n
    \/ \E q \in Requests : call[q].pc \in {"enqueue", "abort"} /\ call[q].run = n

\* An active run is always on its way: its request has still to enqueue it, its
\* job waits, or a worker has it.  A run nobody carries would block every later
\* refresh and the purge of its resource for ever.
NoStrandedRun == \A n \in Runs : runs[n].status \in Active => Carried(n)

\* The order of a run's life.
StatusRank(status) ==
    CASE status = "none" -> 0
      [] status = "flushed" -> 1
      [] status = "enqueueing" -> 2
      [] status = "queued" -> 3
      [] status = "running" -> 4
      [] status \in {"succeeded", "failed"} -> 5
      [] status = "gone" -> 6

\* index_runs.status moves forward only (MILESTONE-1: queued -> running ->
\* succeeded/failed), although request, worker and scheduler all write it.
RunsMoveForward ==
    [][\A n \in Runs : /\ StatusRank(runs'[n].status) >= StatusRank(runs[n].status)
                       /\ runs[n].status \in {"succeeded", "failed"} =>
                            runs'[n].status \in {runs[n].status, "gone"}]_vars

-----------------------------------------------------------------------------
(* Liveness *)

\* Every run that is claimed, queued or running ends.
ActiveRunsEnd ==
    \A n \in Runs : runs[n].status \in Active ~> runs[n].status \notin Active

Due(r) ==
    /\ Present(r) /\ ~rows[r].archived /\ ~rows[r].deleted /\ rows[r].retrieval
    /\ r \notin Bundles /\ rows[r].freq = "interval" /\ rows[r].next = "due"
    /\ ~HasActiveRun(r) /\ \E n \in Runs : runs[n].status = "none"

\* A due resource does not stay due: the scheduler gives it a run (or somebody
\* else does, or it stops being due).
DueIsScheduled == \A r \in Resources : Due(r) ~> ~Due(r)

-----------------------------------------------------------------------------
(* Refinement *)

Live == Active \cup {"flushed"}

Holder(r) ==
    IF \E n \in Runs : runs[n].res = r /\ runs[n].status \in Live
      THEN CHOOSE n \in Runs : runs[n].res = r /\ runs[n].status \in Live
      ELSE NoRun

Slots == INSTANCE RefreshSlots WITH
            holder <- [r \in Resources |-> Holder(r)],
            current <- [r \in Resources |-> rows[r].snap],
            used <- {n \in Runs : runs[n].status # "none"}

\* Requests, schedulers, workers, the queue and the locks together keep the
\* promise of RefreshSlots.
ImplementsSlots == Slots!Spec
=============================================================================
