---------------------------- MODULE UploadStaging ----------------------------
(***************************************************************************)
(* The directory of uploaded zips.  An upload writes under a name of its   *)
(* own, renames, commits a run and enqueues it; the worker of the run      *)
(* unpacks the zip and removes it.  Uploads and workers alike remove what  *)
(* is older than a day, whoever it belongs to.                             *)
(***************************************************************************)
EXTENDS Naturals, FiniteSets

CONSTANTS
    Uploads,    \* uploads, each with a zip of its own
    DayOld      \* the age, in steps of the clock, at which a zip is stale

ASSUME StagingConstants == DayOld \in Nat \ {0}

VARIABLES
    zips,       \* what is on disk: nothing, the incoming file, or the staged zip
    ages,       \* since the last write, up to DayOld
    uploads,    \* where the handler of an upload stands
    runs        \* the index run of an upload, and whether it missed its zip

stagingVars == <<zips, ages, uploads, runs>>

StagingTypeOK ==
    /\ zips \in [Uploads -> {"none", "incoming", "staged"}]
    /\ ages \in [Uploads -> 0..DayOld]
    /\ uploads \in [Uploads -> {"new", "writing", "staged", "committed", "done", "refused", "dead"}]
    /\ runs \in [Uploads -> {"none", "enqueueing", "queued", "running", "succeeded", "failed", "missed"}]

StagingInit ==
    /\ zips = [u \in Uploads |-> "none"] /\ ages = [u \in Uploads |-> 0]
    /\ uploads = [u \in Uploads |-> "new"] /\ runs = [u \in Uploads |-> "none"]

-----------------------------------------------------------------------------
(* cleanup_stale_uploads *)

\* Mutant: the age is not looked at.
StaleAnyAge(u) == zips[u] = "staged"

Stale(u) == zips[u] # "none" /\ ages[u] = DayOld

Cleaned == [u \in Uploads |-> IF Stale(u) THEN "none" ELSE zips[u]]

\* The clock moves for all files; the age of one that is written starts anew.
Tick ==
    /\ \E u \in Uploads : zips[u] # "none" /\ ages[u] < DayOld
    /\ ages' = [u \in Uploads |-> IF zips[u] # "none" /\ ages[u] < DayOld THEN ages[u] + 1 ELSE ages[u]]
    /\ UNCHANGED <<zips, uploads, runs>>

-----------------------------------------------------------------------------
(* upload_folder_bundle *)

StartUpload(u) ==
    /\ uploads[u] = "new"
    /\ zips' = [Cleaned EXCEPT ![u] = "incoming"]
    /\ ages' = [ages EXCEPT ![u] = 0]
    /\ uploads' = [uploads EXCEPT ![u] = "writing"]
    /\ UNCHANGED runs

\* Each part of the body is a write; a client that pauses lets the file age.
WritePart(u) ==
    /\ uploads[u] = "writing" /\ zips[u] = "incoming" /\ ages[u] > 0
    /\ ages' = [ages EXCEPT ![u] = 0]
    /\ UNCHANGED <<zips, uploads, runs>>

\* The rename fails when the incoming file is gone: the request ends in an error.
StageUpload(u) ==
    /\ uploads[u] = "writing"
    /\ IF zips[u] = "incoming"
       THEN zips' = [zips EXCEPT ![u] = "staged"] /\ uploads' = [uploads EXCEPT ![u] = "staged"]
       ELSE uploads' = [uploads EXCEPT ![u] = "dead"] /\ UNCHANGED zips
    /\ UNCHANGED <<ages, runs>>

\* A zip that is empty, too large or unsafe is unlinked again.
RefuseUpload(u) ==
    /\ uploads[u] = "writing"
    /\ zips' = [zips EXCEPT ![u] = "none"]
    /\ uploads' = [uploads EXCEPT ![u] = "refused"]
    /\ UNCHANGED <<ages, runs>>

CommitUpload(u) ==
    /\ uploads[u] = "staged"
    /\ uploads' = [uploads EXCEPT ![u] = "committed"]
    /\ runs' = [runs EXCEPT ![u] = "enqueueing"]
    /\ UNCHANGED <<zips, ages>>

EnqueueUpload(u) ==
    /\ uploads[u] = "committed"
    /\ \/ runs' = [runs EXCEPT ![u] = "queued"] /\ UNCHANGED zips
       \/ runs' = [runs EXCEPT ![u] = "failed"] /\ zips' = [zips EXCEPT ![u] = "none"]
    /\ uploads' = [uploads EXCEPT ![u] = "done"]
    /\ UNCHANGED ages

\* The API process dies: what it wrote stays, without a run or with one not queued.
CrashUpload(u) ==
    /\ uploads[u] \in {"writing", "staged", "committed"}
    /\ uploads' = [uploads EXCEPT ![u] = "dead"]
    /\ UNCHANGED <<zips, ages, runs>>

-----------------------------------------------------------------------------
(* run_index *)


\* Every worker begins with the clean-up, its own zip not excepted.
BeginBundle(u) ==
    /\ runs[u] = "queued"
    /\ zips' = Cleaned
    /\ runs' = [runs EXCEPT ![u] = "running"]
    /\ UNCHANGED <<ages, uploads>>

\* _collect_folder_bundle removes the zip whether or not it could be unpacked.
ExtractBundle(u) ==
    /\ runs[u] = "running"
    /\ \E outcome \in (IF zips[u] = "staged" THEN {"succeeded", "failed"} ELSE {"missed"}) :
        runs' = [runs EXCEPT ![u] = outcome]
    /\ zips' = [zips EXCEPT ![u] = "none"]
    /\ UNCHANGED <<ages, uploads>>

StagingNext ==
    \/ Tick
    \/ \E u \in Uploads :
        \/ StartUpload(u) \/ WritePart(u) \/ StageUpload(u) \/ RefuseUpload(u)
        \/ CommitUpload(u) \/ EnqueueUpload(u) \/ CrashUpload(u)
        \/ BeginBundle(u) \/ ExtractBundle(u)

StagingSpec == StagingInit /\ [][StagingNext]_stagingVars

-----------------------------------------------------------------------------
(* Properties *)

\* A run that misses its zip waited a day for its worker: neither the clean-up of
\* another run or upload nor an upload that failed takes a zip before
\* (cleanup_stale_uploads).
MissedAfterADay == \A u \in Uploads : runs[u] = "missed" => ages[u] = DayOld

\* The file an upload is writing is there until it pauses for a day.
WrittenStays == \A u \in Uploads : uploads[u] = "writing" /\ ages[u] < DayOld => zips[u] = "incoming"

\* What an upload left that died before it had a run to unpack it is removed by the
\* first worker that begins a day later (cleanup_stale_uploads).
CrashesAreCleared ==
    [][\A u, v \in Uploads :
        BeginBundle(v) /\ uploads[u] = "dead" /\ ages[u] = DayOld => zips'[u] = "none"]_stagingVars

\* A staged zip waits for its worker a day, and no longer than that when nobody will
\* come for it.  (cleanup_stale_uploads)
StagingIsSafe == [](StagingTypeOK /\ MissedAfterADay /\ WrittenStays) /\ CrashesAreCleared

=============================================================================
