--------------------------- MODULE PipelineProofs ---------------------------
(***************************************************************************)
(* Proofs about the staging of uploads (UploadStaging), the archives,      *)
(* sections and differences of bundles (Bundles), the evidence of a Gate A *)
(* campaign (GateEvidence), the access of its agents and its verdict       *)
(* (GateScoring), what an index takes from a source (Ingestion) and what a *)
(* packet cites of it (Retrieval): what a file or a receipt still shows    *)
(* when it is looked at, long after the step that wrote it, what the       *)
(* verdict is of, and what is read, cut, found and left out. The unpacking *)
(* of an archive, the matching of a path, a walk, a chain of redirects, the *)
(* windows of a text, the budgets, the promotion and placing of candidates *)
(* are recursive tables: the lemmas give the table that solves each        *)
(* equation, and what holds all along it.                                  *)
(***************************************************************************)
EXTENDS UploadStaging, Bundles, GateEvidence, GateScoring, Ingestion, Retrieval, NumberFacts, FiniteSetTheorems, TLAPS

-----------------------------------------------------------------------------
(* Uploads *)

\* The handler or the run of an upload still needs its file.
Needed(u) == uploads[u] \in {"writing", "staged", "committed"} \/ runs[u] \in {"queued", "running"}

\* Which file is there while the handler, and after it the run, is at a step.
ZipOfStep ==
    \A u \in Uploads :
        /\ uploads[u] = "writing" => zips[u] \in {"none", "incoming"}
        /\ uploads[u] \in {"staged", "committed"} \/ runs[u] \in {"queued", "running"} =>
             zips[u] \in {"none", "staged"}

\* How far the run is while the handler is at a step.
RunOfUpload ==
    \A u \in Uploads :
        /\ uploads[u] \in {"new", "writing", "staged", "refused"} => runs[u] = "none"
        /\ uploads[u] = "committed" => runs[u] = "enqueueing"
        /\ runs[u] \in {"queued", "running", "missed"} => uploads[u] = "done"

\* A file that is gone while it is needed, or when its run looked for it, was a day old.
TakenAfterADay ==
    \A u \in Uploads : (Needed(u) /\ zips[u] = "none") \/ runs[u] = "missed" => ages[u] = DayOld

\* The inductive invariant of UploadStaging: which file is there at each step of the handler
\* and of the run, and why one that is gone was taken.
StagingIInv == StagingTypeOK /\ ZipOfStep /\ RunOfUpload /\ TakenAfterADay

\* Before the first upload nothing is staged and nothing is needed.
LEMMA StagingInitially == StagingInit => StagingIInv
BY StagingConstants DEF StagingInit, StagingIInv, StagingTypeOK, ZipOfStep, RunOfUpload, TakenAfterADay,
   Needed

\* cleanup_stale_upload_staging keeps a file as it is or deletes it, and it deletes every
\* one, and only one, that is a day old.
LEMMA CleanedFacts ==
  ASSUME StagingTypeOK
  PROVE  /\ Cleaned \in [Uploads -> {"none", "incoming", "staged"}]
         /\ \A u \in Uploads : \/ Cleaned[u] = zips[u]
                               \/ Cleaned[u] = "none" /\ ages[u] = DayOld
         /\ \A u \in Uploads : ages[u] = DayOld => Cleaned[u] = "none"
BY DEF Cleaned, Stale, StagingTypeOK

\* Every step of the upload handlers and of the bundle runs keeps the inductive invariant.
LEMMA StagingStep == StagingIInv /\ [StagingNext]_stagingVars => StagingIInv'
<1> SUFFICES ASSUME StagingIInv, [StagingNext]_stagingVars PROVE StagingIInv'
  OBVIOUS
<1> USE DEF StagingIInv
<1>1. CASE Tick
  <2>1. /\ ages' \in [Uploads -> 0..DayOld]
        /\ \A u \in Uploads : ages[u] = DayOld => ages'[u] = DayOld
    BY <1>1, StagingConstants DEF Tick, StagingTypeOK
  <2>2. UNCHANGED <<zips, uploads, runs>>
    BY <1>1 DEF Tick
  <2> QED BY <2>1, <2>2 DEF StagingTypeOK, ZipOfStep, RunOfUpload, TakenAfterADay, Needed
<1>2. ASSUME NEW u \in Uploads, StartUpload(u) PROVE StagingIInv'
  BY <1>2, CleanedFacts, StagingConstants DEF StartUpload, StagingTypeOK, ZipOfStep, RunOfUpload, TakenAfterADay, Needed
<1>3. ASSUME NEW u \in Uploads, WritePart(u) PROVE StagingIInv'
  BY <1>3, StagingConstants DEF WritePart, StagingTypeOK, ZipOfStep, RunOfUpload, TakenAfterADay, Needed
<1>4. ASSUME NEW u \in Uploads, StageUpload(u) PROVE StagingIInv'
  BY <1>4 DEF StageUpload, StagingTypeOK, ZipOfStep, RunOfUpload, TakenAfterADay, Needed
<1>5. ASSUME NEW u \in Uploads, RefuseUpload(u) PROVE StagingIInv'
  BY <1>5 DEF RefuseUpload, StagingTypeOK, ZipOfStep, RunOfUpload, TakenAfterADay, Needed
<1>6. ASSUME NEW u \in Uploads, CommitUpload(u) PROVE StagingIInv'
  BY <1>6 DEF CommitUpload, StagingTypeOK, ZipOfStep, RunOfUpload, TakenAfterADay, Needed
<1>7. ASSUME NEW u \in Uploads, EnqueueUpload(u) PROVE StagingIInv'
  BY <1>7 DEF EnqueueUpload, StagingTypeOK, ZipOfStep, RunOfUpload, TakenAfterADay, Needed
<1>8. ASSUME NEW u \in Uploads, CrashUpload(u) PROVE StagingIInv'
  BY <1>8 DEF CrashUpload, StagingTypeOK, ZipOfStep, RunOfUpload, TakenAfterADay, Needed
<1>9. ASSUME NEW u \in Uploads, BeginBundle(u) PROVE StagingIInv'
  BY <1>9, CleanedFacts DEF BeginBundle, StagingTypeOK, ZipOfStep, RunOfUpload, TakenAfterADay, Needed
<1>10. ASSUME NEW u \in Uploads, ExtractBundle(u) PROVE StagingIInv'
  BY <1>10 DEF ExtractBundle, StagingTypeOK, ZipOfStep, RunOfUpload, TakenAfterADay, Needed
<1>11. CASE UNCHANGED stagingVars
  BY <1>11 DEF stagingVars, StagingTypeOK, ZipOfStep, RunOfUpload, TakenAfterADay, Needed
<1> QED BY <1>1, <1>2, <1>3, <1>4, <1>5, <1>6, <1>7, <1>8, <1>9, <1>10, <1>11 DEF StagingNext

\* A bundle run that misses its zip waited a day for its worker, a file being written is
\* there until its upload pauses for a day, and what an upload left that died is removed by
\* the first worker that begins a day later: for any number of uploads and any length of the
\* day.
THEOREM StagingSafe == StagingSpec => StagingIsSafe
<1>1. StagingIInv => StagingTypeOK /\ MissedAfterADay /\ WrittenStays
  BY StagingConstants DEF StagingIInv, StagingTypeOK, MissedAfterADay, WrittenStays, ZipOfStep,
     TakenAfterADay, Needed
<1>2. StagingIInv /\ [StagingNext]_stagingVars =>
        [\A u, v \in Uploads :
            BeginBundle(v) /\ uploads[u] = "dead" /\ ages[u] = DayOld => zips'[u] = "none"]_stagingVars
  BY CleanedFacts DEF StagingIInv, BeginBundle
<1> QED BY <1>1, <1>2, StagingInitially, StagingStep, PTL DEF StagingSpec, StagingIsSafe, CrashesAreCleared

-----------------------------------------------------------------------------
(* Gate A evidence *)

\* The types of the campaign, of its clock and of the ghost that records what really
\* happened.
EvidenceTypes ==
    /\ day \in Nat \ {0} /\ built \in Nat
    /\ plan \in Timelines
    /\ stamp \in [approved : Nat, expires : Nat, review : Nat, reviewed : Nat,
                  released : Nat, started : Nat, finished : Nat, cycle : 1..2]
    /\ compiles \in [Compilations -> [begun : Nat, ended : Nat, pack : Nat]]
    /\ freezes \in [Arms -> [at : Nat, pack : Nat]]
    /\ current \in [Arms -> Nat] /\ mounted \in [Arms -> Nat]
    /\ ghost \in [late : BOOLEAN, overlapped : BOOLEAN, builtAtRelease : Nat, builtAtStart : Nat]

\* No receipt is stamped with a day to come.
ReceiptsArePast ==
    /\ stamp.released <= day
    /\ \A n \in Compilations : compiles[n].begun <= day /\ compiles[n].ended <= day

\* The packs the arms hold, froze and mounted are packs that were built by then.
PacksWereBuilt ==
    /\ \A arm \in Arms : /\ current[arm] <= built /\ freezes[arm].pack <= built
                         /\ mounted[arm] <= ghost.builtAtStart
    /\ \A arm \in Arms :
         (stamp.released # Never /\ freezes[arm].at # Never /\ freezes[arm].at < stamp.released)
             => freezes[arm].pack <= ghost.builtAtRelease

\* Work on a pack after the release leaves a receipt that is not before the release.
LateWorkShows ==
    ghost.late =>
        /\ stamp.released # Never
        /\ \/ \E n \in Compilations : compiles[n].begun >= stamp.released
                                      \/ compiles[n].ended >= stamp.released
           \/ stamp.review >= stamp.released \/ stamp.reviewed >= stamp.released
           \/ \E arm \in Arms : freezes[arm].at >= stamp.released

\* The attempt n ran at the end of the day d.
RanThrough(n, d) ==
    /\ compiles[n].begun # Never /\ compiles[n].begun <= d
    /\ compiles[n].ended = Never \/ compiles[n].ended > d

\* Two attempts that ran at once both ran through some day that is over.
OverlapShows ==
    ghost.overlapped =>
        \E m, n \in Compilations : m # n /\ \E d \in Nat :
            d < day /\ RanThrough(m, d) /\ RanThrough(n, d)

\* The verdicts are those of the receipts as they are.
JudgedAsIs ==
    /\ judged.gate = "open" => judged.internal = "open"
    /\ judged.gate = "accepted" => GateAccepts
    /\ judged.internal = "accepted" => InternalAccepts

\* The inductive invariant of GateEvidence: receipts are of past days, packs that are held
\* were built, and what really happened shows in the receipts or has been judged.
EvidenceIInv ==
    /\ EvidenceTypes /\ ReceiptsArePast /\ PacksWereBuilt
    /\ LateWorkShows /\ OverlapShows /\ JudgedAsIs

\* The first day, with no receipt.
LEMMA EvidenceInitially == EvidenceInit => EvidenceIInv
<1> SUFFICES ASSUME EvidenceInit
             PROVE  EvidenceIInv
  OBVIOUS
<1>1. EvidenceTypes
  BY EvidenceConstants DEF EvidenceInit, EvidenceTypes, Never
<1>2. ReceiptsArePast /\ PacksWereBuilt /\ LateWorkShows /\ OverlapShows /\ JudgedAsIs
  BY <1>1 DEF EvidenceTypes, EvidenceInit, Never, ReceiptsArePast, PacksWereBuilt, LateWorkShows,
              OverlapShows, JudgedAsIs
<1> QED BY <1>1, <1>2 DEF EvidenceIInv

\* Until the gate is judged nothing was decided.
LEMMA Unjudged ==
  ASSUME JudgedAsIs, judged.gate = "open", UNCHANGED judged
  PROVE  JudgedAsIs'
BY DEF JudgedAsIs

\* A day that passes leaves every receipt where it is.
LEMMA DayPassesStep ==
  ASSUME EvidenceIInv, judged.gate = "open", DayPasses
  PROVE  EvidenceIInv'
<1> USE DEF EvidenceIInv
<1>1. /\ day' = day + 1
      /\ UNCHANGED <<plan, stamp, compiles, freezes, current, mounted, built, judged>>
  BY DEF DayPasses
<1>2. /\ ghost'.late = ghost.late /\ ghost'.builtAtRelease = ghost.builtAtRelease
      /\ ghost'.builtAtStart = ghost.builtAtStart
      /\ ghost'.overlapped => ghost.overlapped \/ \E m, n \in Compilations : m # n /\ Running(m) /\ Running(n)
      /\ ghost' \in [late : BOOLEAN, overlapped : BOOLEAN, builtAtRelease : Nat, builtAtStart : Nat]
  BY DEF DayPasses, EvidenceTypes
<1>3. EvidenceTypes'
  BY <1>1, <1>2 DEF EvidenceTypes
<1>4. ReceiptsArePast'
  BY <1>1 DEF EvidenceTypes, ReceiptsArePast
<1>5. PacksWereBuilt' /\ LateWorkShows'
  BY <1>1, <1>2 DEF PacksWereBuilt, LateWorkShows
<1>6. OverlapShows'
  <2>1. ASSUME ghost.overlapped
        PROVE  OverlapShows'
    BY <1>1, <2>1 DEF OverlapShows, EvidenceTypes, RanThrough
  <2>2. ASSUME NEW m \in Compilations, NEW n \in Compilations, m # n, Running(m), Running(n)
        PROVE  OverlapShows'
    <3>1. RanThrough(m, day) /\ RanThrough(n, day)
      BY <2>2 DEF RanThrough, Running, ReceiptsArePast
    <3>2. RanThrough(m, day)' /\ RanThrough(n, day)' /\ day < day' /\ day \in Nat
      BY <1>1, <2>2, <3>1 DEF RanThrough, Running, EvidenceTypes, ReceiptsArePast, Never
    <3> QED BY <1>1, <2>2, <3>1, <3>2 DEF OverlapShows, RanThrough
  <2> QED BY <1>2, <2>1, <2>2 DEF OverlapShows
<1> QED BY <1>1, <1>3, <1>4, <1>5, <1>6, Unjudged

\* What Touch does to the history.
LEMMA TouchFacts ==
  ASSUME EvidenceTypes, Touch
  PROVE  /\ ghost' \in [late : BOOLEAN, overlapped : BOOLEAN, builtAtRelease : Nat, builtAtStart : Nat]
         /\ ghost'.late => ghost.late \/ stamp.released # Never
         /\ ghost'.overlapped = ghost.overlapped
         /\ ghost'.builtAtRelease = ghost.builtAtRelease
         /\ ghost'.builtAtStart = ghost.builtAtStart
<1>1. ghost \in [late : BOOLEAN, overlapped : BOOLEAN, builtAtRelease : Nat, builtAtStart : Nat]
  BY DEF EvidenceTypes
<1>2. ghost' = [ghost EXCEPT !.late = ghost.late \/ stamp.released # Never]
  BY DEF Touch
<1> QED BY <1>1, <1>2

\* The experiment is approved once, on the day it is.
LEMMA ApproveStep ==
  ASSUME EvidenceIInv, judged.gate = "open", NEW expires \in Nat, Approve(expires)
  PROVE  EvidenceIInv'
<1> USE DEF EvidenceIInv
<1>1. /\ stamp' = [stamp EXCEPT !.approved = day, !.expires = expires]
      /\ UNCHANGED <<day, plan, compiles, freezes, current, mounted, built, ghost, judged>>
  BY DEF Approve
<1>2. /\ stamp' \in [approved : Nat, expires : Nat, review : Nat, reviewed : Nat,
                     released : Nat, started : Nat, finished : Nat, cycle : 1..2]
      /\ stamp'.released = stamp.released /\ stamp'.review = stamp.review
      /\ stamp'.reviewed = stamp.reviewed
  BY <1>1 DEF EvidenceTypes
<1>3. EvidenceTypes'
  BY <1>1, <1>2 DEF EvidenceTypes
<1>4. ReceiptsArePast' /\ PacksWereBuilt' /\ LateWorkShows' /\ OverlapShows'
  BY <1>1, <1>2 DEF ReceiptsArePast, PacksWereBuilt, LateWorkShows, OverlapShows, RanThrough
<1> QED BY <1>1, <1>3, <1>4, Unjudged

\* The campaign ends once, after it started.
LEMMA FinishStep ==
  ASSUME EvidenceIInv, judged.gate = "open", NEW cycle \in 1..2, Finish(cycle)
  PROVE  EvidenceIInv'
<1> USE DEF EvidenceIInv
<1>1. /\ stamp' = [stamp EXCEPT !.finished = day, !.cycle = cycle]
      /\ UNCHANGED <<day, plan, compiles, freezes, current, mounted, built, ghost, judged>>
  BY DEF Finish
<1>2. /\ stamp' \in [approved : Nat, expires : Nat, review : Nat, reviewed : Nat,
                     released : Nat, started : Nat, finished : Nat, cycle : 1..2]
      /\ stamp'.released = stamp.released /\ stamp'.review = stamp.review
      /\ stamp'.reviewed = stamp.reviewed
  BY <1>1 DEF EvidenceTypes
<1>3. EvidenceTypes'
  BY <1>1, <1>2 DEF EvidenceTypes
<1>4. ReceiptsArePast' /\ PacksWereBuilt' /\ LateWorkShows' /\ OverlapShows'
  BY <1>1, <1>2 DEF ReceiptsArePast, PacksWereBuilt, LateWorkShows, OverlapShows, RanThrough
<1> QED BY <1>1, <1>3, <1>4, Unjudged

\* An attempt that begins after the release begins on the release's day or later, which its
\* receipt shows.
LEMMA BeginCompileStep ==
  ASSUME EvidenceIInv, judged.gate = "open", NEW n \in Compilations, BeginCompile(n)
  PROVE  EvidenceIInv'
<1> USE DEF EvidenceIInv
<1>1. /\ compiles' = [compiles EXCEPT ![n].begun = day] /\ compiles[n].begun = Never
      /\ UNCHANGED <<day, plan, stamp, freezes, current, mounted, built, judged>>
      /\ Touch
  BY DEF BeginCompile
<1>2. /\ compiles' \in [Compilations -> [begun : Nat, ended : Nat, pack : Nat]]
      /\ compiles'[n].begun = day /\ compiles'[n].ended = compiles[n].ended
      /\ \A k \in Compilations : k # n => compiles'[k] = compiles[k]
  BY <1>1 DEF EvidenceTypes
<1>3. EvidenceTypes'
  BY <1>1, <1>2, TouchFacts DEF EvidenceTypes
<1>4. ReceiptsArePast'
  BY <1>1, <1>2 DEF ReceiptsArePast, EvidenceTypes
<1>5. PacksWereBuilt'
  BY <1>1, TouchFacts DEF PacksWereBuilt
<1>6. LateWorkShows'
  <2> SUFFICES ASSUME ghost'.late
               PROVE  /\ stamp.released # Never
                      /\ \/ \E k \in Compilations : compiles'[k].begun >= stamp.released
                                                    \/ compiles'[k].ended >= stamp.released
                         \/ stamp.review >= stamp.released \/ stamp.reviewed >= stamp.released
                         \/ \E arm \in Arms : freezes[arm].at >= stamp.released
    BY <1>1 DEF LateWorkShows
  <2>1. stamp.released # Never
    BY <1>1, TouchFacts DEF LateWorkShows
  <2>2. compiles'[n].begun >= stamp.released
    BY <1>2 DEF ReceiptsArePast, EvidenceTypes
  <2> QED BY <2>1, <2>2
<1>7. OverlapShows'
  <2>1. ASSUME NEW k \in Compilations, NEW d \in Nat, d < day, RanThrough(k, d)
        PROVE  RanThrough(k, d)'
    BY <1>1, <1>2, <2>1 DEF RanThrough
  <2> QED BY <1>1, <2>1, TouchFacts DEF OverlapShows
<1> QED BY <1>1, <1>3, <1>4, <1>5, <1>6, <1>7, Unjudged

\* A pack that is built becomes the newest there is.
LEMMA NewPack ==
  ASSUME EvidenceTypes, PacksWereBuilt, NEW arm \in Arms, built' = built + 1,
         current' = [current EXCEPT ![arm] = built + 1]
  PROVE  /\ current' \in [Arms -> Nat] /\ built' \in Nat
         /\ \A a \in Arms : current'[a] <= built' /\ freezes[a].pack <= built'
BY DEF EvidenceTypes, PacksWereBuilt

\* An attempt that ends yields a pack with a number no pack had.
LEMMA EndCompileStep ==
  ASSUME EvidenceIInv, judged.gate = "open", NEW n \in Compilations, NEW pick \in BOOLEAN,
         EndCompile(n, pick)
  PROVE  EvidenceIInv'
<1> USE DEF EvidenceIInv
<1>1. /\ compiles' = [compiles EXCEPT ![n].ended = day, ![n].pack = built + 1]
      /\ compiles[n].begun # Never /\ compiles[n].ended = Never
      /\ built' = built + 1
      /\ current' = IF pick THEN [current EXCEPT !["ai_compiled"] = built + 1] ELSE current
      /\ UNCHANGED <<day, plan, stamp, freezes, mounted, judged>>
      /\ Touch
  BY DEF EndCompile, Running
<1>2. /\ compiles' \in [Compilations -> [begun : Nat, ended : Nat, pack : Nat]]
      /\ compiles'[n].ended = day /\ compiles'[n].begun = compiles[n].begun
      /\ \A k \in Compilations : k # n => compiles'[k] = compiles[k]
  <2> DEFINE c == [compiles[n] EXCEPT !.ended = day, !.pack = built + 1]
  <2>1. compiles' = [compiles EXCEPT ![n] = c]
    BY <1>1 DEF EvidenceTypes
  <2>2. compiles[n] \in [begun : Nat, ended : Nat, pack : Nat] /\ built + 1 \in Nat /\ day \in Nat
    BY DEF EvidenceTypes
  <2>3. c \in [begun : Nat, ended : Nat, pack : Nat] /\ c.ended = day /\ c.begun = compiles[n].begun
    BY <2>2
  <2> HIDE DEF c
  <2> QED BY <2>1, <2>3 DEF EvidenceTypes
<1>3. /\ current' \in [Arms -> Nat] /\ built' \in Nat
      /\ \A arm \in Arms : current'[arm] <= built' /\ freezes[arm].pack <= built'
  <2>1. CASE pick
    <3>1. "ai_compiled" \in Arms
      BY DEF Arms
    <3> QED BY <1>1, <2>1, <3>1, NewPack
  <2>2. CASE ~pick
    BY <1>1, <2>2 DEF EvidenceTypes, PacksWereBuilt
  <2> QED BY <2>1, <2>2
<1>4. EvidenceTypes'
  BY <1>1, <1>2, <1>3, TouchFacts DEF EvidenceTypes
<1>5. ReceiptsArePast'
  BY <1>1, <1>2 DEF ReceiptsArePast, EvidenceTypes
<1>6. PacksWereBuilt'
  BY <1>1, <1>3, TouchFacts DEF PacksWereBuilt
<1>7. LateWorkShows'
  <2> SUFFICES ASSUME ghost'.late
               PROVE  /\ stamp.released # Never
                      /\ \/ \E k \in Compilations : compiles'[k].begun >= stamp.released
                                                    \/ compiles'[k].ended >= stamp.released
                         \/ stamp.review >= stamp.released \/ stamp.reviewed >= stamp.released
                         \/ \E arm \in Arms : freezes[arm].at >= stamp.released
    BY <1>1 DEF LateWorkShows
  <2>1. stamp.released # Never
    BY <1>1, TouchFacts DEF LateWorkShows
  <2>2. compiles'[n].ended >= stamp.released
    BY <1>2 DEF ReceiptsArePast, EvidenceTypes
  <2> QED BY <2>1, <2>2
<1>8. OverlapShows'
  <2>1. ASSUME NEW k \in Compilations, NEW d \in Nat, d < day, RanThrough(k, d)
        PROVE  RanThrough(k, d)'
    BY <1>1, <1>2, <2>1 DEF RanThrough, EvidenceTypes
  <2> QED BY <1>1, <2>1, TouchFacts DEF OverlapShows
<1> QED BY <1>1, <1>4, <1>5, <1>6, <1>7, <1>8, Unjudged

\* A review begins.
LEMMA BeginReviewStep ==
  ASSUME EvidenceIInv, judged.gate = "open", BeginReview
  PROVE  EvidenceIInv'
<1> USE DEF EvidenceIInv
<1>1. /\ stamp' = [stamp EXCEPT !.review = day] /\ Touch
      /\ UNCHANGED <<day, plan, compiles, freezes, current, mounted, built, judged>>
  BY DEF BeginReview
<1>2. /\ stamp' \in [approved : Nat, expires : Nat, review : Nat, reviewed : Nat,
                     released : Nat, started : Nat, finished : Nat, cycle : 1..2]
      /\ stamp'.released = stamp.released /\ stamp'.review = day
      /\ stamp.released <= day
  BY <1>1 DEF EvidenceTypes, ReceiptsArePast
<1>3. EvidenceTypes'
  BY <1>1, <1>2, TouchFacts DEF EvidenceTypes
<1>4. ReceiptsArePast' /\ PacksWereBuilt' /\ OverlapShows'
  BY <1>1, <1>2, TouchFacts DEF ReceiptsArePast, PacksWereBuilt, OverlapShows, RanThrough
<1>5. LateWorkShows'
  BY <1>1, <1>2, TouchFacts DEF LateWorkShows, EvidenceTypes
<1> QED BY <1>1, <1>3, <1>4, <1>5, Unjudged

\* A review ends with the human pack and the day in its receipt.
LEMMA EndReviewStep ==
  ASSUME EvidenceIInv, judged.gate = "open", EndReview
  PROVE  EvidenceIInv'
<1> USE DEF EvidenceIInv
<1>1. /\ stamp' = [stamp EXCEPT !.reviewed = day] /\ Touch /\ built' = built + 1
      /\ current' = [current EXCEPT !["human_authored"] = built + 1]
      /\ UNCHANGED <<day, plan, compiles, freezes, mounted, judged>>
  BY DEF EndReview
<1>2. /\ stamp' \in [approved : Nat, expires : Nat, review : Nat, reviewed : Nat,
                     released : Nat, started : Nat, finished : Nat, cycle : 1..2]
      /\ stamp'.released = stamp.released /\ stamp'.reviewed = day
      /\ stamp.released <= day
  BY <1>1 DEF EvidenceTypes, ReceiptsArePast
<1>3. /\ current' \in [Arms -> Nat] /\ built' \in Nat
      /\ \A arm \in Arms : current'[arm] <= built' /\ freezes[arm].pack <= built'
  <2>1. "human_authored" \in Arms
    BY DEF Arms
  <2> QED BY <1>1, <2>1, NewPack
<1>4. EvidenceTypes'
  BY <1>1, <1>2, <1>3, TouchFacts DEF EvidenceTypes
<1>5. ReceiptsArePast' /\ OverlapShows'
  BY <1>1, <1>2, TouchFacts DEF ReceiptsArePast, OverlapShows, RanThrough
<1>6. PacksWereBuilt'
  BY <1>1, <1>2, <1>3, TouchFacts DEF PacksWereBuilt
<1>7. LateWorkShows'
  BY <1>1, <1>2, TouchFacts DEF LateWorkShows, EvidenceTypes
<1> QED BY <1>1, <1>4, <1>5, <1>6, <1>7, Unjudged

\* An arm freezes the pack it holds, with the day in its receipt.
LEMMA FreezeStep ==
  ASSUME EvidenceIInv, judged.gate = "open", NEW arm \in Arms, Freeze(arm)
  PROVE  EvidenceIInv'
<1> USE DEF EvidenceIInv
<1>1. /\ freezes' = [freezes EXCEPT ![arm] = [at |-> day, pack |-> current[arm]]] /\ Touch
      /\ UNCHANGED <<day, plan, stamp, compiles, current, mounted, built, judged>>
      /\ freezes[arm].at = Never
  BY DEF Freeze
<1>2. /\ freezes' \in [Arms -> [at : Nat, pack : Nat]]
      /\ freezes'[arm].at = day /\ freezes'[arm].pack = current[arm]
      /\ \A a \in Arms : a # arm => freezes'[a] = freezes[a]
      /\ stamp.released <= day
  BY <1>1 DEF EvidenceTypes, ReceiptsArePast
<1>3. EvidenceTypes'
  BY <1>1, <1>2, TouchFacts DEF EvidenceTypes
<1>4. ReceiptsArePast' /\ OverlapShows'
  BY <1>1, <1>2, TouchFacts DEF ReceiptsArePast, OverlapShows, RanThrough
<1>5. PacksWereBuilt'
  <2>1. ~(day < stamp.released)
    BY <1>2 DEF EvidenceTypes
  <2> QED BY <1>1, <1>2, <2>1, TouchFacts DEF PacksWereBuilt
<1>6. LateWorkShows'
  <2> SUFFICES ASSUME ghost'.late
               PROVE  stamp'.released # Never /\ \E a \in Arms : freezes'[a].at >= stamp'.released
    BY DEF LateWorkShows
  <2> QED BY <1>1, <1>2, TouchFacts DEF LateWorkShows, EvidenceTypes
<1> QED BY <1>1, <1>3, <1>4, <1>5, <1>6, Unjudged

\* A pack that is built anew is held by its arm; a frozen or mounted one stays what it was.
LEMMA RebuildStep ==
  ASSUME EvidenceIInv, judged.gate = "open", NEW arm \in Arms, Rebuild(arm)
  PROVE  EvidenceIInv'
<1> USE DEF EvidenceIInv
<1>1. /\ current' = [current EXCEPT ![arm] = built + 1] /\ built' = built + 1
      /\ UNCHANGED <<day, plan, stamp, compiles, freezes, mounted, ghost, judged>>
  BY DEF Rebuild
<1>2. /\ current' \in [Arms -> Nat] /\ built' \in Nat
      /\ \A a \in Arms : current'[a] <= built' /\ freezes[a].pack <= built'
  BY <1>1, NewPack
<1>3. EvidenceTypes' /\ ReceiptsArePast' /\ OverlapShows' /\ LateWorkShows'
  BY <1>1, <1>2 DEF EvidenceTypes, ReceiptsArePast, OverlapShows, LateWorkShows, RanThrough
<1>4. PacksWereBuilt'
  BY <1>1, <1>2 DEF PacksWereBuilt
<1> QED BY <1>1, <1>3, <1>4, Unjudged

\* The ghost remembers how many packs there are at the release of the protected tasks.
LEMMA ReleaseStep ==
  ASSUME EvidenceIInv, judged.gate = "open", Release
  PROVE  EvidenceIInv'
<1> USE DEF EvidenceIInv
<1>1. /\ stamp' = [stamp EXCEPT !.released = day] /\ stamp.released = Never
      /\ ghost' = [ghost EXCEPT !.builtAtRelease = built]
      /\ UNCHANGED <<day, plan, compiles, freezes, current, mounted, built, judged>>
  BY DEF Release
<1>2. /\ stamp' \in [approved : Nat, expires : Nat, review : Nat, reviewed : Nat,
                     released : Nat, started : Nat, finished : Nat, cycle : 1..2]
      /\ stamp'.released = day
  BY <1>1 DEF EvidenceTypes
<1>3. /\ ghost' \in [late : BOOLEAN, overlapped : BOOLEAN, builtAtRelease : Nat, builtAtStart : Nat]
      /\ ghost'.late = ghost.late /\ ghost'.overlapped = ghost.overlapped
      /\ ghost'.builtAtRelease = built /\ ghost'.builtAtStart = ghost.builtAtStart
  BY <1>1 DEF EvidenceTypes
<1>4. EvidenceTypes'
  BY <1>1, <1>2, <1>3 DEF EvidenceTypes
<1>5. ReceiptsArePast' /\ OverlapShows'
  BY <1>1, <1>2, <1>3 DEF EvidenceTypes, ReceiptsArePast, OverlapShows, RanThrough
<1>6. PacksWereBuilt'
  BY <1>1, <1>2, <1>3 DEF PacksWereBuilt
<1>7. LateWorkShows'
  BY <1>1, <1>3 DEF LateWorkShows
<1> QED BY <1>1, <1>4, <1>5, <1>6, <1>7, Unjudged

\* The sandboxes mount what their arms hold, and the ghost remembers how many packs there
\* are.
LEMMA StartStep ==
  ASSUME EvidenceIInv, judged.gate = "open", Start
  PROVE  EvidenceIInv'
<1> USE DEF EvidenceIInv
<1>1. /\ stamp' = [stamp EXCEPT !.started = day] /\ mounted' = current
      /\ ghost' = [ghost EXCEPT !.builtAtStart = built]
      /\ UNCHANGED <<day, plan, compiles, freezes, current, built, judged>>
  BY DEF Start
<1>2. /\ stamp' \in [approved : Nat, expires : Nat, review : Nat, reviewed : Nat,
                     released : Nat, started : Nat, finished : Nat, cycle : 1..2]
      /\ stamp'.released = stamp.released /\ stamp'.review = stamp.review
      /\ stamp'.reviewed = stamp.reviewed
  BY <1>1 DEF EvidenceTypes
<1>3. /\ ghost' \in [late : BOOLEAN, overlapped : BOOLEAN, builtAtRelease : Nat, builtAtStart : Nat]
      /\ ghost'.late = ghost.late /\ ghost'.overlapped = ghost.overlapped
      /\ ghost'.builtAtRelease = ghost.builtAtRelease /\ ghost'.builtAtStart = built
  BY <1>1 DEF EvidenceTypes
<1>4. EvidenceTypes'
  BY <1>1, <1>2, <1>3 DEF EvidenceTypes
<1>5. ReceiptsArePast' /\ OverlapShows' /\ LateWorkShows'
  BY <1>1, <1>2, <1>3 DEF ReceiptsArePast, OverlapShows, LateWorkShows, RanThrough
<1>6. PacksWereBuilt'
  BY <1>1, <1>2, <1>3 DEF PacksWereBuilt
<1> QED BY <1>1, <1>4, <1>5, <1>6, Unjudged

\* Both verdicts are taken from the receipts as they stand, and nothing moves after them.
LEMMA JudgeStep ==
  ASSUME EvidenceIInv, Judge
  PROVE  EvidenceIInv'
<1> USE DEF EvidenceIInv
<1>1. UNCHANGED <<day, plan, stamp, compiles, freezes, current, mounted, built, slips, ghost>>
  BY DEF Judge
<1>2. EvidenceTypes' /\ ReceiptsArePast' /\ OverlapShows' /\ LateWorkShows' /\ PacksWereBuilt'
  BY <1>1 DEF EvidenceTypes, ReceiptsArePast, OverlapShows, LateWorkShows, PacksWereBuilt, RanThrough
<1>3. (GateAccepts' <=> GateAccepts) /\ (InternalAccepts' <=> InternalAccepts)
  BY <1>1 DEF GateAccepts, InternalAccepts, TimelineHolds, ApprovalHolds, RunInWindow,
              CompilesHold, ReviewHolds, FreezesHold, PacksHold
<1>4. JudgedAsIs'
  BY <1>3 DEF Judge, JudgedAsIs
<1> QED BY <1>2, <1>4

\* The inductive invariant holds in every state of the campaign, for any arms, timelines and
\* number of compilations.
THEOREM EvidenceInvariance == EvidenceSpec => []EvidenceIInv
<1>1. EvidenceIInv /\ [EvidenceNext]_evidenceVars => EvidenceIInv'
  <2> SUFFICES ASSUME EvidenceIInv, [EvidenceNext]_evidenceVars
               PROVE  EvidenceIInv'
    OBVIOUS
  <2>1. CASE Judge
    BY <2>1, JudgeStep
  <2>2. CASE UNCHANGED evidenceVars
    <3>1. (GateAccepts' <=> GateAccepts) /\ (InternalAccepts' <=> InternalAccepts)
      BY <2>2 DEF evidenceVars, GateAccepts, InternalAccepts, TimelineHolds, ApprovalHolds,
                  RunInWindow, CompilesHold, ReviewHolds, FreezesHold, PacksHold
    <3> QED BY <2>2, <3>1 DEF evidenceVars, EvidenceIInv, EvidenceTypes, ReceiptsArePast,
                PacksWereBuilt, LateWorkShows, OverlapShows, RanThrough, JudgedAsIs
  <2>3. CASE judged.gate = "open" /\ DayPasses
    BY <2>3, DayPassesStep
  <2>4. ASSUME judged.gate = "open", NEW e \in {plan.d0 + 1, plan.absolute}, Approve(e)
        PROVE  EvidenceIInv'
    <3>1. e \in Nat
      BY EvidenceConstants DEF EvidenceIInv, EvidenceTypes
    <3> QED BY <2>4, <3>1, ApproveStep
  <2>5. ASSUME judged.gate = "open", NEW n \in Compilations,
               BeginCompile(n) \/ \E pick \in BOOLEAN : EndCompile(n, pick)
        PROVE  EvidenceIInv'
    BY <2>5, BeginCompileStep, EndCompileStep
  <2>6. CASE judged.gate = "open" /\ (BeginReview \/ EndReview)
    BY <2>6, BeginReviewStep, EndReviewStep
  <2>7. ASSUME judged.gate = "open", NEW arm \in Arms, Freeze(arm) \/ Rebuild(arm)
        PROVE  EvidenceIInv'
    BY <2>7, FreezeStep, RebuildStep
  <2>8. CASE judged.gate = "open" /\ (Release \/ Start \/ \E c \in 1..2 : Finish(c))
    BY <2>8, ReleaseStep, StartStep, FinishStep
  <2> QED BY <2>1, <2>2, <2>3, <2>4, <2>5, <2>6, <2>7, <2>8 DEF EvidenceNext
<1> QED BY <1>1, EvidenceInitially, PTL DEF EvidenceSpec

\* In an accepted campaign an attempt ends before any later one begins.
LEMMA AttemptsInOrder ==
  ASSUME EvidenceTypes, CompilesHold, NEW m \in Compilations, NEW n \in Compilations, m < n
  PROVE  compiles[m].ended <= compiles[n].begun
<1> DEFINE S == {k \in Compilations : m < k /\ ~(compiles[m].ended <= compiles[k].begun)}
<1>0. Repetitions \in Nat /\ Compilations = 1..Repetitions
  BY EvidenceConstants DEF Compilations
<1>1. CASE S = {}
  BY <1>1
<1>2. CASE S # {}
  <2>1. S \in SUBSET Nat
    BY <1>0
  <2>2. PICK k \in S : \A j \in S : k <= j
    BY <1>2, <2>1, SmallestOf
  <2>3. /\ k \in Compilations \ {1} /\ k - 1 \in Compilations /\ m <= k - 1
        /\ m < k /\ ~(compiles[m].ended <= compiles[k].begun)
    BY <1>0, <2>2
  <2>4. compiles[k - 1].ended <= compiles[k].begun
    BY <2>3 DEF CompilesHold
  <2>5. CASE m = k - 1
    BY <2>3, <2>4, <2>5
  <2>6. CASE m # k - 1
    <3>1. k - 1 \notin S
      BY <1>0, <2>2, <2>3
    <3>2. m < k - 1
      BY <1>0, <2>3, <2>6
    <3>3. compiles[m].ended <= compiles[k - 1].begun
      BY <2>3, <3>1, <3>2
    <3>4. compiles[k - 1].begun < compiles[k - 1].ended
      BY <2>3 DEF CompilesHold
    <3>5. /\ compiles[m] \in [begun : Nat, ended : Nat, pack : Nat]
          /\ compiles[k] \in [begun : Nat, ended : Nat, pack : Nat]
          /\ compiles[k - 1] \in [begun : Nat, ended : Nat, pack : Nat]
      BY <2>3 DEF EvidenceTypes
    <3> QED BY <2>3, <2>4, <3>3, <3>4, <3>5
  <2> QED BY <2>5, <2>6
<1> QED BY <1>1, <1>2

\* A later end means no fewer working days.
LEMMA WorkingDaysGrow ==
  ASSUME NEW from \in Nat, NEW to \in Nat, NEW later \in Nat, to <= later
  PROVE  WorkingDays(from, to) <= WorkingDays(from, later)
<1>1. IsFiniteSet(from..later)
  BY FS_Interval
<1>2. {d \in from..later : d % 7 < 5} \in SUBSET (from..later)
  OBVIOUS
<1>3. IsFiniteSet({d \in from..later : d % 7 < 5})
  BY <1>1, <1>2, FS_Subset
<1>4. {d \in from..to : d % 7 < 5} \in SUBSET {d \in from..later : d % 7 < 5}
  OBVIOUS
<1> QED BY <1>3, <1>4, FS_Subset DEF WorkingDays

\* Working days between two days are a number.
LEMMA WorkingDaysCount ==
  ASSUME NEW from \in Nat, NEW to \in Nat
  PROVE  WorkingDays(from, to) \in Nat
<1>1. IsFiniteSet(from..to)
  BY FS_Interval
<1>2. {d \in from..to : d % 7 < 5} \in SUBSET (from..to)
  OBVIOUS
<1>3. IsFiniteSet({d \in from..to : d % 7 < 5})
  BY <1>1, <1>2, FS_Subset
<1> QED BY <1>3, FS_CardinalityType DEF WorkingDays

\* In an accepted campaign no work on a pack follows the release, and no sandbox ran with a
\* pack built after it.
LEMMA NothingIsTuned == EvidenceIInv => NothingTunedAfterRelease
<1> SUFFICES ASSUME EvidenceIInv, Accepted
             PROVE  ~ghost.late /\ \A arm \in Arms : mounted[arm] <= ghost.builtAtRelease
  BY DEF NothingTunedAfterRelease
<1> USE DEF EvidenceIInv
<1>1. CompilesHold /\ ReviewHolds /\ FreezesHold /\ PacksHold /\ RunInWindow
  BY DEF Accepted, JudgedAsIs, GateAccepts
<1>2. ~ghost.late
  <2>1. \A n \in Compilations : /\ ~(compiles[n].begun >= stamp.released)
                               /\ ~(compiles[n].ended >= stamp.released)
    BY <1>1 DEF CompilesHold, EvidenceTypes
  <2>2. ~(stamp.review >= stamp.released) /\ ~(stamp.reviewed >= stamp.released)
    BY <1>1 DEF ReviewHolds, EvidenceTypes
  <2>3. \A arm \in Arms : ~(freezes[arm].at >= stamp.released)
    BY <1>1 DEF FreezesHold, EvidenceTypes
  <2> QED BY <2>1, <2>2, <2>3 DEF LateWorkShows
<1>3. ASSUME NEW arm \in Arms
      PROVE  mounted[arm] <= ghost.builtAtRelease
  BY <1>1 DEF PacksHold, FreezesHold, RunInWindow, PacksWereBuilt
<1> QED BY <1>2, <1>3

\* In an accepted campaign the attempts did not overlap and the AI arm ran with the pack of
\* the first.
LEMMA NothingIsPicked == EvidenceIInv => NothingPicked
<1> SUFFICES ASSUME EvidenceIInv, Accepted
             PROVE  ~ghost.overlapped /\ mounted["ai_compiled"] = compiles[1].pack
  BY DEF NothingPicked
<1> USE DEF EvidenceIInv
<1>1. CompilesHold /\ PacksHold
  BY DEF Accepted, JudgedAsIs, GateAccepts
<1>2. mounted["ai_compiled"] = compiles[1].pack
  BY <1>1 DEF PacksHold, Arms
<1>3. ASSUME NEW m \in Compilations, NEW n \in Compilations, m < n,
             NEW d \in Nat, RanThrough(m, d), RanThrough(n, d)
      PROVE  FALSE
  <2>1. compiles[m].ended <= compiles[n].begun /\ compiles[m].ended # Never
    BY <1>1, <1>3, AttemptsInOrder DEF CompilesHold
  <2> QED BY <1>3, <2>1 DEF RanThrough, EvidenceTypes
<1>4. Compilations \subseteq Nat
  BY EvidenceConstants DEF Compilations
<1>5. ~ghost.overlapped
  <2> SUFFICES ASSUME ghost.overlapped
               PROVE  FALSE
    OBVIOUS
  <2>1. PICK m \in Compilations, n \in Compilations :
           m # n /\ \E d \in Nat : RanThrough(m, d) /\ RanThrough(n, d)
    BY DEF OverlapShows
  <2>2. m < n \/ n < m
    BY <1>4, <2>1
  <2> QED BY <1>3, <2>1, <2>2
<1> QED BY <1>2, <1>5

\* An accepted campaign ended within the working days of its cycle and of all.
LEMMA ClockHolds == EvidenceIInv => ClockIsKept
<1> SUFFICES ASSUME EvidenceIInv, Accepted
             PROVE  /\ WorkingDays(plan.d0, stamp.finished) <= CycleBudget[stamp.cycle]
                    /\ WorkingDays(plan.phase0, stamp.finished) <= AbsoluteBudget
  BY DEF ClockIsKept
<1> USE DEF EvidenceIInv
<1>1. TimelineHolds /\ RunInWindow
  BY DEF Accepted, JudgedAsIs, GateAccepts
<1>2. /\ plan.phase0 \in Nat /\ plan.d0 \in Nat /\ plan.absolute \in Nat
      /\ stamp.cycle \in 1..2 /\ plan.cycle[stamp.cycle] \in Nat /\ stamp.finished \in Nat
      /\ CycleBudget[stamp.cycle] \in Nat /\ AbsoluteBudget \in Nat
  BY EvidenceConstants DEF EvidenceTypes
<1>3. stamp.finished <= plan.cycle[stamp.cycle] /\ stamp.finished <= plan.absolute
  BY <1>1 DEF RunInWindow
<1>4. /\ WorkingDays(plan.d0, plan.cycle[stamp.cycle]) <= CycleBudget[stamp.cycle]
      /\ WorkingDays(plan.phase0, plan.absolute) <= AbsoluteBudget
  BY <1>1, <1>2 DEF TimelineHolds
<1>5. /\ WorkingDays(plan.d0, stamp.finished) <= WorkingDays(plan.d0, plan.cycle[stamp.cycle])
      /\ WorkingDays(plan.phase0, stamp.finished) <= WorkingDays(plan.phase0, plan.absolute)
  BY <1>2, <1>3, WorkingDaysGrow
<1>6. /\ WorkingDays(plan.d0, stamp.finished) \in Nat /\ WorkingDays(plan.phase0, stamp.finished) \in Nat
      /\ WorkingDays(plan.d0, plan.cycle[stamp.cycle]) \in Nat
      /\ WorkingDays(plan.phase0, plan.absolute) \in Nat
  BY <1>2, WorkingDaysCount
<1> QED BY <1>2, <1>4, <1>5, <1>6

\* A campaign that the validators accept was run fairly: nothing was tuned after the
\* release, no attempt was picked out of several, its clock was kept, and the founder's
\* validator accepts no AI pack built once the lanes ran, for every order of approvals,
\* compilations, reviews, freezes and rebuilds.
THEOREM CampaignsAreFair == EvidenceSpec => []CampaignWasFair
<1>1. EvidenceIInv => InternalPackIsOld
  BY DEF EvidenceIInv, JudgedAsIs, InternalPackIsOld, PacksWereBuilt, Arms
<1>2. EvidenceIInv => CampaignWasFair
  BY <1>1, NothingIsTuned, NothingIsPicked, ClockHolds DEF CampaignWasFair
<1> QED BY <1>2, EvidenceInvariance, PTL

-----------------------------------------------------------------------------
(* Access of evaluated agents *)

\* The cells of the table of matches of a path and a pattern.
Cells(path, pattern) == (0..Len(path)) \X (0..Len(pattern))

\* A table is filled as the code fills it.
Filled(path, pattern, table) ==
    table = [at \in Cells(path, pattern) |->
        LET i == at[1]
            j == at[2]
        IN  IF j = Len(pattern) THEN i = Len(path)
            ELSE IF pattern[j + 1] = "**"
                 THEN table[<<i, j + 1>>] \/ (i < Len(path) /\ table[<<i + 1, j>>])
                 ELSE /\ i < Len(path) /\ FitsPattern(path[i + 1], pattern[j + 1])
                      /\ table[<<i + 1, j + 1>>]]

\* The k-th part of the pattern is laid from cut[k - 1] to cut[k].
Laid(path, pattern, cut, k) ==
    IF pattern[k] = "**" THEN cut[k - 1] <= cut[k]
    ELSE cut[k] = cut[k - 1] + 1 /\ FitsPattern(path[cut[k]], pattern[k])

\* The ways to cut a path by a pattern.
Splits(path, pattern) == [0..Len(pattern) -> 0..Len(path)]

\* What is left of the pattern after its first j parts can be laid over what is left of the
\* path after its first i components.
CanLay(path, pattern, i, j) ==
    \E cut \in Splits(path, pattern) :
        /\ cut[j] = i /\ cut[Len(pattern)] = Len(path)
        /\ \A k \in (j + 1)..Len(pattern) : Laid(path, pattern, cut, k)

\* A cell of a filled table.
LEMMA CellFacts ==
  ASSUME NEW path, NEW pattern, NEW table, Filled(path, pattern, table),
         NEW i \in 0..Len(path), NEW j \in 0..Len(pattern)
  PROVE  table[<<i, j>>] =
            IF j = Len(pattern) THEN i = Len(path)
            ELSE IF pattern[j + 1] = "**"
                 THEN table[<<i, j + 1>>] \/ (i < Len(path) /\ table[<<i + 1, j>>])
                 ELSE /\ i < Len(path) /\ FitsPattern(path[i + 1], pattern[j + 1])
                      /\ table[<<i + 1, j + 1>>]
BY DEF Filled, Cells

\* A cut that differs in its j-th place only.
Moved(path, pattern, cut, other, i, j) ==
    /\ other \in Splits(path, pattern) /\ other[j] = i
    /\ \A k \in 0..Len(pattern) : k # j => other[k] = cut[k]
    /\ \A k \in (j + 2)..Len(pattern) : Laid(path, pattern, other, k) <=> Laid(path, pattern, cut, k)

\* The parts after the place that moved are laid as before.
LEMMA SplitFacts ==
  ASSUME NEW path, NEW pattern, Len(path) \in Nat, Len(pattern) \in Nat,
         NEW cut \in Splits(path, pattern), NEW i \in 0..Len(path), NEW j \in 0..Len(pattern), NEW other,
         other = [cut EXCEPT ![j] = i], j < Len(pattern)
  PROVE  Moved(path, pattern, cut, other, i, j)
<1>1. other \in Splits(path, pattern) /\ other[j] = i /\ \A k \in 0..Len(pattern) : k # j => other[k] = cut[k]
  BY DEF Splits
<1>2. ASSUME NEW k \in (j + 2)..Len(pattern)
      PROVE  Laid(path, pattern, other, k) <=> Laid(path, pattern, cut, k)
  <2>1. other[k] = cut[k] /\ other[k - 1] = cut[k - 1]
    <3>1. k \in 0..Len(pattern) /\ k - 1 \in 0..Len(pattern) /\ k # j /\ k - 1 # j
      OBVIOUS
    <3> QED BY <1>1, <3>1
  <2> QED BY <2>1 DEF Laid
<1> QED BY <1>1, <1>2 DEF Moved

\* The last column.
LEMMA LastLay ==
  ASSUME NEW path, NEW pattern, Len(path) \in Nat, Len(pattern) \in Nat, NEW i \in 0..Len(path)
  PROVE  CanLay(path, pattern, i, Len(pattern)) <=> i = Len(path)
<1>1. ASSUME i = Len(path) PROVE CanLay(path, pattern, i, Len(pattern))
  <2>1. PICK cut : cut = [k \in 0..Len(pattern) |-> Len(path)]
    OBVIOUS
  <2>2. cut \in Splits(path, pattern) /\ cut[Len(pattern)] = i
    BY <1>1, <2>1 DEF Splits
  <2>3. (Len(pattern) + 1)..Len(pattern) = {}
    OBVIOUS
  <2> QED BY <1>1, <2>2, <2>3 DEF CanLay
<1> QED BY <1>1 DEF CanLay

\* "**" takes no component, or one and stays.
LEMMA AnyLay ==
  ASSUME NEW path, NEW pattern, Len(path) \in Nat, Len(pattern) \in Nat, NEW i \in 0..Len(path),
         NEW j \in 0..Len(pattern), j < Len(pattern), pattern[j + 1] = "**"
  PROVE  CanLay(path, pattern, i, j)
            <=> CanLay(path, pattern, i, j + 1) \/ (i < Len(path) /\ CanLay(path, pattern, i + 1, j))
<1>1. ASSUME CanLay(path, pattern, i, j)
      PROVE  CanLay(path, pattern, i, j + 1) \/ (i < Len(path) /\ CanLay(path, pattern, i + 1, j))
  <2>1. PICK cut \in Splits(path, pattern) :
            /\ cut[j] = i /\ cut[Len(pattern)] = Len(path)
            /\ \A k \in (j + 1)..Len(pattern) : Laid(path, pattern, cut, k)
    BY <1>1 DEF CanLay
  <2>2. j + 1 \in 0..Len(pattern) /\ cut[j + 1] \in 0..Len(path) /\ cut[j] <= cut[j + 1]
    <3>1. Laid(path, pattern, cut, j + 1)
      BY <2>1
    <3> QED BY <3>1 DEF Laid, Splits
  <2>3. CASE cut[j + 1] = i
    BY <2>1, <2>3 DEF CanLay
  <2>4. CASE cut[j + 1] # i
    <3>1. PICK other : other = [cut EXCEPT ![j] = i + 1]
      OBVIOUS
    <3>2. i < Len(path) /\ i + 1 \in 0..Len(path)
      BY <2>1, <2>2, <2>4
    <3>3. /\ other \in Splits(path, pattern) /\ other[j] = i + 1
          /\ \A k \in 0..Len(pattern) : k # j => other[k] = cut[k]
          /\ \A k \in (j + 2)..Len(pattern) : Laid(path, pattern, other, k) <=> Laid(path, pattern, cut, k)
      <4>1. Moved(path, pattern, cut, other, i + 1, j)
        BY <3>1, <3>2, SplitFacts
      <4> QED BY <4>1 DEF Moved
    <3>4. other[j + 1] = cut[j + 1] /\ other[j] <= other[j + 1]
      BY <2>1, <2>2, <2>4, <3>2, <3>3
    <3>5. Laid(path, pattern, other, j + 1)
      BY <3>4 DEF Laid
    <3>6. \A k \in (j + 1)..Len(pattern) : Laid(path, pattern, other, k)
      BY <2>1, <3>3, <3>5
    <3>7. other[Len(pattern)] = Len(path)
      BY <2>1, <3>3
    <3> QED BY <3>2, <3>3, <3>6, <3>7 DEF CanLay
  <2> QED BY <2>3, <2>4
<1>2. ASSUME CanLay(path, pattern, i, j + 1) PROVE CanLay(path, pattern, i, j)
  <2>1. PICK cut \in Splits(path, pattern) :
            /\ cut[j + 1] = i /\ cut[Len(pattern)] = Len(path)
            /\ \A k \in (j + 2)..Len(pattern) : Laid(path, pattern, cut, k)
    BY <1>2 DEF CanLay
  <2>2. PICK other : other = [cut EXCEPT ![j] = i]
    OBVIOUS
  <2>3. /\ other \in Splits(path, pattern) /\ other[j] = i
        /\ \A k \in 0..Len(pattern) : k # j => other[k] = cut[k]
        /\ \A k \in (j + 2)..Len(pattern) : Laid(path, pattern, other, k) <=> Laid(path, pattern, cut, k)
    <3>1. Moved(path, pattern, cut, other, i, j)
      BY <2>2, SplitFacts
    <3> QED BY <3>1 DEF Moved
  <2>4. other[j + 1] = i
    BY <2>1, <2>3
  <2>5. Laid(path, pattern, other, j + 1)
    BY <2>3, <2>4 DEF Laid
  <2>6. \A k \in (j + 1)..Len(pattern) : Laid(path, pattern, other, k)
    BY <2>1, <2>3, <2>5
  <2>7. other[Len(pattern)] = Len(path)
    BY <2>1, <2>3
  <2> QED BY <2>3, <2>6, <2>7 DEF CanLay
<1>3. ASSUME i < Len(path), CanLay(path, pattern, i + 1, j) PROVE CanLay(path, pattern, i, j)
  <2>1. PICK cut \in Splits(path, pattern) :
            /\ cut[j] = i + 1 /\ cut[Len(pattern)] = Len(path)
            /\ \A k \in (j + 1)..Len(pattern) : Laid(path, pattern, cut, k)
    BY <1>3 DEF CanLay
  <2>2. PICK other : other = [cut EXCEPT ![j] = i]
    OBVIOUS
  <2>3. /\ other \in Splits(path, pattern) /\ other[j] = i
        /\ \A k \in 0..Len(pattern) : k # j => other[k] = cut[k]
        /\ \A k \in (j + 2)..Len(pattern) : Laid(path, pattern, other, k) <=> Laid(path, pattern, cut, k)
    <3>1. Moved(path, pattern, cut, other, i, j)
      BY <2>2, SplitFacts
    <3> QED BY <3>1 DEF Moved
  <2>4. cut[j + 1] \in Int /\ i + 1 <= cut[j + 1]
    <3>1. Laid(path, pattern, cut, j + 1)
      BY <2>1
    <3> QED BY <2>1, <3>1 DEF Laid, Splits
  <2>5. other[j + 1] = cut[j + 1] /\ other[j] <= other[j + 1]
    BY <2>3, <2>4
  <2>6. Laid(path, pattern, other, j + 1)
    BY <2>5 DEF Laid
  <2>7. \A k \in (j + 1)..Len(pattern) : Laid(path, pattern, other, k)
    BY <2>1, <2>3, <2>6
  <2>8. other[Len(pattern)] = Len(path)
    BY <2>1, <2>3
  <2> QED BY <2>3, <2>7, <2>8 DEF CanLay
<1> QED BY <1>1, <1>2, <1>3

\* Any other part takes the component it fits.
LEMMA OneLay ==
  ASSUME NEW path, NEW pattern, Len(path) \in Nat, Len(pattern) \in Nat, NEW i \in 0..Len(path),
         NEW j \in 0..Len(pattern), j < Len(pattern), pattern[j + 1] # "**"
  PROVE  CanLay(path, pattern, i, j)
            <=> /\ i < Len(path) /\ FitsPattern(path[i + 1], pattern[j + 1])
                /\ CanLay(path, pattern, i + 1, j + 1)
<1>1. ASSUME CanLay(path, pattern, i, j)
      PROVE  /\ i < Len(path) /\ FitsPattern(path[i + 1], pattern[j + 1])
             /\ CanLay(path, pattern, i + 1, j + 1)
  <2>1. PICK cut \in Splits(path, pattern) :
            /\ cut[j] = i /\ cut[Len(pattern)] = Len(path)
            /\ \A k \in (j + 1)..Len(pattern) : Laid(path, pattern, cut, k)
    BY <1>1 DEF CanLay
  <2>2. Laid(path, pattern, cut, j + 1) /\ cut[j + 1] \in 0..Len(path)
    BY <2>1 DEF Splits
  <2>3. cut[j + 1] = i + 1 /\ FitsPattern(path[i + 1], pattern[j + 1])
    BY <2>1, <2>2 DEF Laid
  <2>4. \A k \in (j + 2)..Len(pattern) : Laid(path, pattern, cut, k)
    BY <2>1
  <2> QED BY <2>1, <2>2, <2>3, <2>4 DEF CanLay
<1>2. ASSUME i < Len(path), FitsPattern(path[i + 1], pattern[j + 1]), CanLay(path, pattern, i + 1, j + 1)
      PROVE  CanLay(path, pattern, i, j)
  <2>1. PICK cut \in Splits(path, pattern) :
            /\ cut[j + 1] = i + 1 /\ cut[Len(pattern)] = Len(path)
            /\ \A k \in (j + 2)..Len(pattern) : Laid(path, pattern, cut, k)
    BY <1>2 DEF CanLay
  <2>2. PICK other : other = [cut EXCEPT ![j] = i]
    OBVIOUS
  <2>3. /\ other \in Splits(path, pattern) /\ other[j] = i
        /\ \A k \in 0..Len(pattern) : k # j => other[k] = cut[k]
        /\ \A k \in (j + 2)..Len(pattern) : Laid(path, pattern, other, k) <=> Laid(path, pattern, cut, k)
    <3>1. Moved(path, pattern, cut, other, i, j)
      BY <2>2, SplitFacts
    <3> QED BY <3>1 DEF Moved
  <2>4. other[j + 1] = i + 1
    BY <2>1, <2>3
  <2>5. Laid(path, pattern, other, j + 1)
    BY <1>2, <2>3, <2>4 DEF Laid
  <2>6. \A k \in (j + 1)..Len(pattern) : Laid(path, pattern, other, k)
    BY <2>1, <2>3, <2>5
  <2>7. other[Len(pattern)] = Len(path)
    BY <2>1, <2>3
  <2> QED BY <2>3, <2>6, <2>7 DEF CanLay
<1> QED BY <1>1, <1>2

\* The table of what can be laid is filled as the code fills it.
LEMMA LayTable ==
  ASSUME NEW path, NEW pattern, Len(path) \in Nat, Len(pattern) \in Nat
  PROVE  Filled(path, pattern, [at \in Cells(path, pattern) |-> CanLay(path, pattern, at[1], at[2])])
<1> DEFINE L == [at \in Cells(path, pattern) |-> CanLay(path, pattern, at[1], at[2])]
<1>1. \A i \in 0..Len(path), j \in 0..Len(pattern) : L[<<i, j>>] = CanLay(path, pattern, i, j)
  BY DEF Cells
<1> HIDE DEF L
<1>2. ASSUME NEW i \in 0..Len(path), NEW j \in 0..Len(pattern)
      PROVE  CanLay(path, pattern, i, j) <=>
            IF j = Len(pattern) THEN i = Len(path)
            ELSE IF pattern[j + 1] = "**"
                 THEN L[<<i, j + 1>>] \/ (i < Len(path) /\ L[<<i + 1, j>>])
                 ELSE /\ i < Len(path) /\ FitsPattern(path[i + 1], pattern[j + 1])
                      /\ L[<<i + 1, j + 1>>]
  <2>1. CASE j = Len(pattern)
    BY <2>1, LastLay
  <2>2. CASE j < Len(pattern) /\ pattern[j + 1] = "**"
    <3>1. j + 1 \in 0..Len(pattern) /\ (i < Len(path) => i + 1 \in 0..Len(path))
      BY <2>2
    <3>2. L[<<i, j + 1>>] = CanLay(path, pattern, i, j + 1)
      BY <1>1, <3>1
    <3>3. i < Len(path) => L[<<i + 1, j>>] = CanLay(path, pattern, i + 1, j)
      BY <1>1, <3>1
    <3>4. CanLay(path, pattern, i, j)
            <=> CanLay(path, pattern, i, j + 1) \/ (i < Len(path) /\ CanLay(path, pattern, i + 1, j))
      BY <2>2, AnyLay
    <3> QED BY <2>2, <3>2, <3>3, <3>4
  <2>3. CASE j < Len(pattern) /\ pattern[j + 1] # "**"
    <3>1. j + 1 \in 0..Len(pattern) /\ (i < Len(path) => i + 1 \in 0..Len(path))
      BY <2>3
    <3>2. i < Len(path) => L[<<i + 1, j + 1>>] = CanLay(path, pattern, i + 1, j + 1)
      BY <1>1, <3>1
    <3>3. CanLay(path, pattern, i, j)
            <=> /\ i < Len(path) /\ FitsPattern(path[i + 1], pattern[j + 1])
                /\ CanLay(path, pattern, i + 1, j + 1)
      BY <2>3, OneLay
    <3> QED BY <2>3, <3>2, <3>3
  <2> QED BY <2>1, <2>2, <2>3
<1>3. ASSUME NEW at \in Cells(path, pattern)
      PROVE  L[at] =
        LET i == at[1]
            j == at[2]
        IN  IF j = Len(pattern) THEN i = Len(path)
            ELSE IF pattern[j + 1] = "**"
                 THEN L[<<i, j + 1>>] \/ (i < Len(path) /\ L[<<i + 1, j>>])
                 ELSE /\ i < Len(path) /\ FitsPattern(path[i + 1], pattern[j + 1])
                      /\ L[<<i + 1, j + 1>>]
  <2>1. PICK i \in 0..Len(path), j \in 0..Len(pattern) : at = <<i, j>>
    BY DEF Cells
  <2>2. at[1] = i /\ at[2] = j /\ L[at] = CanLay(path, pattern, i, j)
    BY <1>1, <2>1
  <2> DEFINE R == IF j = Len(pattern) THEN i = Len(path)
                  ELSE IF pattern[j + 1] = "**"
                       THEN L[<<i, j + 1>>] \/ (i < Len(path) /\ L[<<i + 1, j>>])
                       ELSE /\ i < Len(path) /\ FitsPattern(path[i + 1], pattern[j + 1])
                            /\ L[<<i + 1, j + 1>>]
  <2>3. CanLay(path, pattern, i, j) <=> R
    BY <1>2
  <2>4. CanLay(path, pattern, i, j) \in BOOLEAN
    BY DEF CanLay
  <2>5. R \in BOOLEAN
    OBVIOUS
  <2>6. L[at] = R
    <3> HIDE DEF R
    <3> QED BY <2>2, <2>3, <2>4, <2>5
  <2> QED BY <2>2, <2>6
<1>4. L = [at \in Cells(path, pattern) |-> L[at]]
  BY DEF L
<1>5. Filled(path, pattern, L)
  BY <1>3, <1>4 DEF Filled
<1> QED BY <1>5 DEF L

\* There is one way to fill the table.
LEMMA OneTable ==
  ASSUME NEW path, NEW pattern, Len(path) \in Nat, Len(pattern) \in Nat, NEW table,
         Filled(path, pattern, table)
  PROVE  \A i \in 0..Len(path), j \in 0..Len(pattern) : table[<<i, j>>] = CanLay(path, pattern, i, j)
<1> DEFINE m == Len(path)
           n == Len(pattern)
           S == {d \in 0..(m + n) : \E i \in 0..m, j \in 0..n :
                    d = (m - i) + (n - j) /\ table[<<i, j>>] # CanLay(path, pattern, i, j)}
<1>1. PICK lay : lay = [at \in Cells(path, pattern) |-> CanLay(path, pattern, at[1], at[2])]
  OBVIOUS
<1>2. Filled(path, pattern, lay)
  BY <1>1, LayTable
<1>3. \A i \in 0..m, j \in 0..n : lay[<<i, j>>] = CanLay(path, pattern, i, j)
  BY <1>1 DEF Cells
<1>4. ASSUME S # {} PROVE FALSE
  <2>1. S \in SUBSET Nat
    OBVIOUS
  <2>2. PICK d \in S : \A e \in S : d <= e
    BY <1>4, <2>1, SmallestOf
  <2>3. PICK i \in 0..m, j \in 0..n :
            d = (m - i) + (n - j) /\ table[<<i, j>>] # CanLay(path, pattern, i, j)
    BY <2>2
  <2>4. ASSUME NEW k \in 0..m, NEW l \in 0..n, (m - k) + (n - l) < d
        PROVE  table[<<k, l>>] = lay[<<k, l>>]
    <3>1. PICK e \in 0..(m + n) : e = (m - k) + (n - l)
      <4>1. \A mm \in Nat, nn \in Nat : \A kk \in 0..mm, ll \in 0..nn : (mm - kk) + (nn - ll) \in 0..(mm + nn)
        OBVIOUS
      <4> QED BY <4>1
    <3>2. e < d /\ d \in Nat
      BY <2>1, <2>2, <2>4, <3>1
    <3>3. e \notin S
      <4> HIDE DEF S
      <4> QED BY <2>2, <3>2
    <3>4. table[<<k, l>>] = CanLay(path, pattern, k, l)
      BY <3>1, <3>3
    <3> QED BY <1>3, <3>4
  <2>5. table[<<i, j>>] =
            IF j = Len(pattern) THEN i = Len(path)
            ELSE IF pattern[j + 1] = "**"
                 THEN table[<<i, j + 1>>] \/ (i < Len(path) /\ table[<<i + 1, j>>])
                 ELSE /\ i < Len(path) /\ FitsPattern(path[i + 1], pattern[j + 1])
                      /\ table[<<i + 1, j + 1>>]
    BY DEF Filled, Cells
  <2>6. lay[<<i, j>>] =
            IF j = Len(pattern) THEN i = Len(path)
            ELSE IF pattern[j + 1] = "**"
                 THEN lay[<<i, j + 1>>] \/ (i < Len(path) /\ lay[<<i + 1, j>>])
                 ELSE /\ i < Len(path) /\ FitsPattern(path[i + 1], pattern[j + 1])
                      /\ lay[<<i + 1, j + 1>>]
    BY <1>2 DEF Filled, Cells
  <2>7. table[<<i, j>>] = lay[<<i, j>>]
    <3>1. CASE j = n
      BY <2>5, <2>6, <3>1
    <3>2. CASE j < n
      <4>1. j + 1 \in 0..n /\ (m - i) + (n - (j + 1)) < d
        BY <2>3, <3>2
      <4>2. table[<<i, j + 1>>] = lay[<<i, j + 1>>]
        BY <2>4, <4>1
      <4>3. ASSUME i < m PROVE table[<<i + 1, j>>] = lay[<<i + 1, j>>] /\ table[<<i + 1, j + 1>>] = lay[<<i + 1, j + 1>>]
        <5>1. i + 1 \in 0..m /\ (m - (i + 1)) + (n - j) < d /\ (m - (i + 1)) + (n - (j + 1)) < d
          BY <2>3, <3>2, <4>3
        <5> QED BY <2>4, <4>1, <5>1
      <4> QED BY <2>5, <2>6, <3>2, <4>2, <4>3
    <3> QED BY <3>1, <3>2
  <2> QED BY <1>3, <2>3, <2>7
<1>5. ASSUME NEW i \in 0..m, NEW j \in 0..n PROVE table[<<i, j>>] = CanLay(path, pattern, i, j)
  <2>1. PICK e \in 0..(m + n) : e = (m - i) + (n - j)
    <3>1. \A mm \in Nat, nn \in Nat : \A kk \in 0..mm, ll \in 0..nn : (mm - kk) + (nn - ll) \in 0..(mm + nn)
      OBVIOUS
    <3> QED BY <3>1
  <2>2. e \notin S
    <3> HIDE DEF S
    <3> QED BY <1>4
  <2> QED BY <2>1, <2>2
<1> QED BY <1>5

\* A path is matched exactly when the pattern can be laid over it.
LEMMA GlobFacts ==
  ASSUME NEW path, NEW pattern, Len(path) \in Nat, Len(pattern) \in Nat
  PROVE  GlobMatches(path, pattern) <=>
            \E cut \in Splits(path, pattern) :
                /\ cut[0] = 0 /\ cut[Len(pattern)] = Len(path)
                /\ \A k \in 1..Len(pattern) : Laid(path, pattern, cut, k)
<1>1. GlobMatches(path, pattern) = (CHOOSE table : Filled(path, pattern, table))[<<0, 0>>]
  BY DEF GlobMatches, Filled, Cells
<1>2. PICK table : table = CHOOSE t : Filled(path, pattern, t)
  OBVIOUS
<1>3. Filled(path, pattern, table)
  BY <1>2, LayTable
<1>4. table[<<0, 0>>] = CanLay(path, pattern, 0, 0)
  <2>1. 0 \in 0..Len(path) /\ 0 \in 0..Len(pattern)
    OBVIOUS
  <2> QED BY <1>3, <2>1, OneTable
<1>5. GlobMatches(path, pattern) <=> CanLay(path, pattern, 0, 0)
  BY <1>1, <1>2, <1>4
<1>6. (0 + 1)..Len(pattern) = 1..Len(pattern)
  OBVIOUS
<1> QED BY <1>5, <1>6 DEF CanLay

\* What a path and a pattern are lists of.
LEMMA ListFacts ==
  ASSUME NEW n \in Nat, NEW S, NEW s \in Lists(n, S)
  PROVE  s \in Seq(S) /\ Len(s) \in Nat \ {0} /\ DOMAIN s = 1..Len(s)
<1>1. PICK k \in 1..n : s \in [1..k -> S]
  BY DEF Lists
<1>2. s \in Seq(S) /\ Len(s) = k
  BY <1>1
<1> QED BY <1>1, <1>2

\* The parts of a pattern before its first wildcard are the first components of what it
\* matches, and a pattern without one matches itself only.
LEMMA LiteralsStay ==
  ASSUME NEW file, NEW pattern, Len(file) \in Nat, Len(pattern) \in Nat, GlobMatches(file, pattern),
         NEW f \in 0..Len(pattern), \A k \in 1..f : pattern[k] \in PathPart
  PROVE  /\ f <= Len(file) /\ \A k \in 1..f : file[k] = pattern[k]
         /\ f = Len(pattern) => Len(file) = f
<1>1. PICK cut \in Splits(file, pattern) :
            /\ cut[0] = 0 /\ cut[Len(pattern)] = Len(file)
            /\ \A k \in 1..Len(pattern) : Laid(file, pattern, cut, k)
  BY GlobFacts
<1>2. ASSUME NEW k \in 1..f PROVE cut[k] = cut[k - 1] + 1 /\ file[cut[k]] = pattern[k]
  <2>1. Laid(file, pattern, cut, k)
    BY <1>1
  <2>2. pattern[k] \notin {"*", "a*", "**"}
    BY DEF PathPart
  <2> QED BY <2>1, <2>2 DEF Laid, FitsPattern
<1> DEFINE S == {k \in 0..f : cut[k] # k}
<1>3. ASSUME S # {} PROVE FALSE
  <2>1. S \in SUBSET Nat
    OBVIOUS
  <2>2. PICK k \in S : \A l \in S : k <= l
    BY <1>3, <2>1, SmallestOf
  <2>3. k \in 1..f /\ k - 1 \in 0..f
    BY <1>1, <2>2
  <2>4. cut[k - 1] = k - 1
    BY <2>1, <2>2, <2>3
  <2> QED BY <1>2, <2>2, <2>3, <2>4
<1>4. \A k \in 0..f : cut[k] = k
  BY <1>3
<1>5. f <= Len(file)
  <2>1. cut[f] \in 0..Len(file) /\ cut[f] = f
    BY <1>1, <1>4 DEF Splits
  <2> QED BY <2>1
<1>6. ASSUME NEW k \in 1..f PROVE file[k] = pattern[k]
  <2>1. k \in 0..f /\ cut[k] = k
    BY <1>4
  <2> QED BY <1>2, <2>1
<1>7. f = Len(pattern) => Len(file) = f
  BY <1>1, <1>4
<1> QED BY <1>5, <1>6, <1>7

\* Of two lists that begin one path, one begins the other.
LEMMA BeginningsOverlap ==
  ASSUME NEW S, NEW file \in Seq(S), NEW path \in Seq(S), NEW prefix \in Seq(S),
         Len(path) <= Len(file), \A k \in 1..Len(path) : file[k] = path[k],
         Len(prefix) <= Len(file), \A k \in 1..Len(prefix) : file[k] = prefix[k]
  PROVE  Overlaps(path, prefix)
<1>1. Len(path) \in Nat /\ Len(prefix) \in Nat /\ path \in [1..Len(path) -> S] /\ prefix \in [1..Len(prefix) -> S]
  OBVIOUS
<1>2. CASE Len(path) = Len(prefix)
  <2>1. \A k \in 1..Len(path) : path[k] = prefix[k]
    BY <1>2
  <2>2. prefix = path
    BY <1>1, <1>2, <2>1
  <2> QED BY <2>2 DEF Overlaps
<1>3. CASE Len(prefix) < Len(path)
  <2>1. \A k \in 1..Len(prefix) : path[k] = prefix[k]
    BY <1>1, <1>3
  <2>2. SubSeq(path, 1, Len(prefix)) = [k \in 1..Len(prefix) |-> path[k]]
    BY <1>1, <1>3
  <2>3. SubSeq(path, 1, Len(prefix)) = prefix
    BY <1>1, <2>1, <2>2
  <2> QED BY <1>3, <2>3 DEF Overlaps, Under
<1>4. CASE Len(path) < Len(prefix)
  <2>1. \A k \in 1..Len(path) : prefix[k] = path[k]
    BY <1>1, <1>4
  <2>2. SubSeq(prefix, 1, Len(path)) = [k \in 1..Len(path) |-> prefix[k]]
    BY <1>1, <1>4
  <2>3. SubSeq(prefix, 1, Len(path)) = path
    BY <1>1, <2>1, <2>2
  <2> QED BY <1>4, <2>3 DEF Overlaps, Under
<1>5. Len(path) = Len(prefix) \/ Len(prefix) < Len(path) \/ Len(path) < Len(prefix)
  <2>1. \A a \in Nat, b \in Nat : a = b \/ b < a \/ a < b
    OBVIOUS
  <2> QED BY <1>1, <2>1
<1> QED BY <1>2, <1>3, <1>4, <1>5

\* A path below a directory begins with it.
LEMMA UnderFacts ==
  ASSUME NEW S, NEW file \in Seq(S), NEW directory \in Seq(S), Under(file, directory)
  PROVE  Len(directory) <= Len(file) /\ \A k \in 1..Len(directory) : file[k] = directory[k]
<1>1. Len(directory) < Len(file) /\ SubSeq(file, 1, Len(directory)) = directory /\ Len(directory) \in Nat /\ Len(file) \in Nat
  BY DEF Under
<1>2. SubSeq(file, 1, Len(directory)) = [k \in 1..Len(directory) |-> file[k]]
  BY <1>1
<1>3. \A k \in 1..Len(directory) : directory[k] = file[k]
  BY <1>1, <1>2
<1> QED BY <1>1, <1>3

\* The part of a pattern that is compared with what is searched.
LEMMA PrefixFacts ==
  ASSUME NEW pattern \in Seq(PatternPart), \A k \in DOMAIN pattern : pattern[k] # "a*"
  PROVE  \E f \in 0..Len(pattern) :
            /\ LiteralPrefix(pattern) \in Seq(PatternPart) /\ Len(LiteralPrefix(pattern)) = f
            /\ \A k \in 1..f : LiteralPrefix(pattern)[k] = pattern[k] /\ pattern[k] \in PathPart
            /\ Literal(pattern) => f = Len(pattern)
<1> DEFINE wild == {j \in DOMAIN pattern : pattern[j] \notin PathPart}
<1>1. CASE wild = {}
  <2>1. LiteralPrefix(pattern) = pattern
    BY <1>1 DEF LiteralPrefix
  <2>2. \A k \in 1..Len(pattern) : pattern[k] \in PathPart
    BY <1>1
  <2> QED BY <2>1, <2>2
<1>2. CASE wild # {}
  <2>1. wild \in SUBSET Nat
    OBVIOUS
  <2>2. PICK first \in wild : \A j \in wild : first <= j
    BY <1>2, <2>1, SmallestOf
  <2>3. Min(wild) \in wild /\ \A j \in wild : Min(wild) <= j
    <3>1. \E x \in wild : \A y \in wild : x <= y
      BY <2>2
    <3> HIDE DEF wild
    <3> QED BY <3>1 DEF Min
  <2>4. Min(wild) = first
    <3> HIDE DEF wild
    <3>1. PICK least \in wild : least = Min(wild) /\ \A j \in wild : least <= j
      BY <2>3
    <3>2. least <= first /\ first <= least /\ least \in Nat /\ first \in Nat
      BY <2>1, <2>2, <3>1
    <3> QED BY <3>1, <3>2
  <2>5. first \in 1..Len(pattern) /\ pattern[first] # "a*" /\ ~Literal(pattern)
    BY <2>2 DEF Literal
  <2>6. \A k \in 1..(first - 1) : pattern[k] \in PathPart
    BY <2>2, <2>5
  <2>7. LiteralPrefix(pattern) = SubSeq(pattern, 1, first - 1) \o <<>>
    BY <1>2, <2>4, <2>5 DEF LiteralPrefix
  <2>8. PICK before : before = SubSeq(pattern, 1, first - 1)
    OBVIOUS
  <2>9. before = [k \in 1..(first - 1) |-> pattern[k]]
    BY <2>5, <2>8
  <2>10. before \in Seq(PatternPart) /\ Len(before) = first - 1
    <3>1. first - 1 \in Nat /\ before \in [1..(first - 1) -> PatternPart]
      BY <2>5, <2>9
    <3> QED BY <3>1
  <2>11. before \o <<>> = before
    BY <2>10
  <2>12. first - 1 \in 0..Len(pattern)
    BY <2>5
  <2>13. LiteralPrefix(pattern) = before
    BY <2>7, <2>8, <2>11
  <2>14. \A k \in 1..(first - 1) : before[k] = pattern[k] /\ pattern[k] \in PathPart
    BY <2>6, <2>9
  <2>15. first - 1 \in Nat
    BY <2>5
  <2> QED BY <2>5, <2>10, <2>12, <2>13, <2>14, <2>15
<1> QED BY <1>1, <1>2

\* No file that may be searched is matched by a pattern, or lies below it.
LEMMA SearchFacts ==
  ASSUME NEW path \in Seq(PathPart), NEW pattern \in Seq(PatternPart), NEW file \in Seq(PathPart),
         \A k \in DOMAIN pattern : pattern[k] # "a*", ~Overlaps(path, LiteralPrefix(pattern)),
         file = path \/ Under(file, path)
  PROVE  ~GlobMatches(file, pattern) /\ ~(Literal(pattern) /\ Under(file, pattern))
<1>1. PICK prefix : prefix = LiteralPrefix(pattern)
  OBVIOUS
<1>2. PICK f \in 0..Len(pattern) :
            /\ prefix \in Seq(PatternPart) /\ Len(prefix) = f
            /\ \A k \in 1..f : prefix[k] = pattern[k] /\ pattern[k] \in PathPart
            /\ Literal(pattern) => f = Len(pattern)
  BY <1>1, PrefixFacts
<1>3. path \in Seq(PatternPart) /\ file \in Seq(PatternPart) /\ Len(file) \in Nat /\ Len(pattern) \in Nat
  <2>1. PathPart \subseteq PatternPart
    BY DEF PatternPart
  <2> QED BY <2>1
<1>4. Len(path) <= Len(file) /\ \A k \in 1..Len(path) : file[k] = path[k]
  BY <1>3, UnderFacts
<1>5. ASSUME Len(prefix) <= Len(file), \A k \in 1..Len(prefix) : file[k] = prefix[k] PROVE FALSE
  BY <1>1, <1>2, <1>3, <1>4, <1>5, BeginningsOverlap
<1>6. ASSUME GlobMatches(file, pattern) PROVE FALSE
  <2>1. f <= Len(file) /\ \A k \in 1..f : file[k] = pattern[k]
    BY <1>2, <1>3, <1>6, LiteralsStay
  <2> QED BY <1>2, <1>5, <2>1
<1>7. ASSUME Literal(pattern), Under(file, pattern) PROVE FALSE
  <2>1. Len(pattern) <= Len(file) /\ \A k \in 1..Len(pattern) : file[k] = pattern[k]
    BY <1>3, <1>7, UnderFacts
  <2> QED BY <1>2, <1>5, <1>7, <2>1
<1> QED BY <1>6, <1>7

\* What is judged is a piece of the kind it is said to be.
PiecesAreKnown ==
    /\ scored.part = "path" => scored.of.path \in TaskPaths /\ scored.of.pattern \in Patterns
    /\ scored.part = "mapping" => scored.of \in Lists(MaxMapping, Entries)
    /\ scored.part = "work" => scored.of \in Works
    /\ scored.part = "outcome" => scored.of \in Outcomes

\* Whatever is judged is shown once, as it is.
LEMMA PiecesKnown == ScoringSpec => []PiecesAreKnown
<1>1. ScoringInit => PiecesAreKnown
  BY DEF ScoringInit, Piece, PiecesAreKnown
<1>2. PiecesAreKnown /\ [ScoringNext]_scored => PiecesAreKnown'
  <2> SUFFICES ASSUME PiecesAreKnown, [ScoringNext]_scored PROVE PiecesAreKnown'
    OBVIOUS
  <2>1. CASE scored' = scored
    BY <2>1 DEF PiecesAreKnown
  <2>2. CASE ShowPath
    <3>1. PICK path \in TaskPaths, pattern \in Patterns :
            scored' = Piece("path", [path |-> path, pattern |-> pattern])
      BY <2>2 DEF ShowPath
    <3> QED BY <3>1 DEF Piece, PiecesAreKnown
  <2>3. CASE ShowMapping \/ ShowTrace
    BY <2>3 DEF ShowMapping, ShowTrace, Piece, PiecesAreKnown
  <2>4. CASE ShowWork
    BY <2>4 DEF ShowWork, Piece, PiecesAreKnown
  <2>5. CASE ShowOutcome
    BY <2>5 DEF ShowOutcome, Piece, PiecesAreKnown
  <2> QED BY <2>1, <2>2, <2>3, <2>4, <2>5 DEF ScoringNext
<1> QED BY <1>1, <1>2, PTL DEF ScoringSpec

\* Patterns are laid exactly, and no search reaches below a forbidden path.
LEMMA PathFacts ==
  ASSUME PiecesAreKnown PROVE GlobIsExact /\ SearchStaysOutside
<1> SUFFICES ASSUME scored.part = "path" PROVE GlobIsExact /\ SearchStaysOutside
  BY DEF GlobIsExact, SearchStaysOutside
<1>1. PICK path \in TaskPaths : path = scored.of.path
  BY DEF PiecesAreKnown
<1>2. PICK pattern \in Patterns : pattern = scored.of.pattern
  BY DEF PiecesAreKnown
<1>3. /\ path \in Seq(PathPart) /\ Len(path) \in Nat
      /\ pattern \in Seq(PatternPart) /\ Len(pattern) \in Nat /\ DOMAIN pattern = 1..Len(pattern)
  BY ListFacts, ScoringConstants DEF TaskPaths, Patterns
<1>4. GlobIsExact
  <2>1. GlobMatches(path, pattern) <=>
            \E cut \in [0..Len(pattern) -> 0..Len(path)] :
                /\ cut[0] = 0 /\ cut[Len(pattern)] = Len(path)
                /\ \A j \in DOMAIN pattern :
                        IF pattern[j] = "**" THEN cut[j - 1] <= cut[j]
                        ELSE cut[j] = cut[j - 1] + 1 /\ FitsPattern(path[cut[j]], pattern[j])
    BY <1>3, GlobFacts DEF Splits, Laid
  <2> QED BY <1>1, <1>2, <2>1 DEF GlobIsExact
<1>5. SearchStaysOutside
  <2> SUFFICES ASSUME MaySearch(path, {pattern}), \A j \in DOMAIN pattern : pattern[j] # "a*",
                      NEW file \in TaskPaths, file = path \/ Under(file, path)
               PROVE  ~Forbidden(file, {pattern})
    BY <1>1, <1>2 DEF SearchStaysOutside
  <2>1. file \in Seq(PathPart)
    BY ListFacts, ScoringConstants DEF TaskPaths
  <2>2. ~Overlaps(path, LiteralPrefix(pattern))
    BY DEF MaySearch
  <2>3. ~GlobMatches(file, pattern) /\ ~(Literal(pattern) /\ Under(file, pattern))
    BY <1>3, <2>1, <2>2, SearchFacts
  <2> QED BY <2>3 DEF Forbidden
<1> QED BY <1>4, <1>5

\* The work that is judged: what it may do and what it must leave alone.
LEMMA WorkFacts ==
  ASSUME NEW work \in Works
  PROVE  /\ \A p \in work.forbidden : p \in Seq(PatternPart) /\ \A k \in DOMAIN p : p[k] # "a*"
         /\ \A i \in DOMAIN work.ops : work.ops[i].tool \in Tools /\ work.ops[i].path \in Seq(PathPart)
<1>1. PICK ops \in Lists(2, Operations) :
        work \in [ops : {ops}, changed : {{}, Written(ops)}, allowed : {{<<"a", "**">>}}, exit : 0..1,
                 forbidden : {{<<"a", "b">>}, {<<"a">>}, {<<"**", "b">>}, {<<"b", "*">>}},
                 supported : BOOLEAN, success : BOOLEAN]
  BY DEF Works
<1>2. work.ops = ops /\ work.forbidden \in {{<<"a", "b">>}, {<<"a">>}, {<<"**", "b">>}, {<<"b", "*">>}}
  BY <1>1
<1>3. \A p \in work.forbidden : p \in Seq(PatternPart) /\ \A k \in DOMAIN p : p[k] # "a*"
  <2> TAKE p \in work.forbidden
  <2>1. p = <<"a", "b">> \/ p = <<"a">> \/ p = <<"**", "b">> \/ p = <<"b", "*">>
    BY <1>2
  <2>2. "a" \in PatternPart /\ "b" \in PatternPart /\ "**" \in PatternPart /\ "*" \in PatternPart
    BY DEF PatternPart, PathPart
  <2>3. p \in Seq(PatternPart)
    <3>1. <<"a", "b">> \in Seq(PatternPart) /\ <<"a">> \in Seq(PatternPart)
      BY <2>2
    <3>2. <<"**", "b">> \in Seq(PatternPart) /\ <<"b", "*">> \in Seq(PatternPart)
      BY <2>2
    <3> QED BY <2>1, <3>1, <3>2
  <2>4. \A k \in DOMAIN p : p[k] # "a*"
    BY <2>1
  <2> QED BY <2>3, <2>4
<1>4. ASSUME NEW i \in DOMAIN work.ops
      PROVE  work.ops[i].tool \in Tools /\ work.ops[i].path \in Seq(PathPart)
  <2>1. ops \in Seq(Operations)
    BY ListFacts
  <2>2. work.ops[i] \in Operations
    BY <1>2, <2>1
  <2>3. work.ops[i].tool \in Tools /\ work.ops[i].path \in WorkPaths
    BY <2>2 DEF Operations
  <2>4. \A s \in WorkPaths : s \in Seq({"a", "b"})
    BY ListFacts DEF WorkPaths, TestsRoot
  <2>5. {"a", "b"} \subseteq PathPart
    BY DEF PathPart
  <2> QED BY <2>3, <2>4, <2>5
<1> QED BY <1>3, <1>4

\* Accepted work touched nothing forbidden and changed only what it may.
LEMMA CleanWork ==
  ASSUME PiecesAreKnown PROVE WorkIsClean
<1> SUFFICES ASSUME scored.part = "work", WorkAccepted(scored.of) PROVE WorkIsClean
  BY DEF WorkIsClean
<1>1. PICK work \in Works : work = scored.of
  BY DEF PiecesAreKnown
<1>2. ASSUME NEW i \in DOMAIN work.ops
      PROVE  /\ \A file \in Touched(work.ops[i]) : ~Forbidden(file, work.forbidden)
             /\ work.ops[i].tool = "write" =>
                  /\ work.ops[i].path \in work.changed
                  /\ \E p \in work.allowed : GlobMatches(work.ops[i].path, p)
  <2>1. PICK op : op = work.ops[i]
    OBVIOUS
  <2>2. OperationAllowed(op, work) /\ work.changed = Written(work.ops) /\ op.tool \in Tools /\ op.path \in Seq(PathPart)
    BY <1>1, <2>1, WorkFacts DEF WorkAccepted
  <2>3. CASE op.tool = "read"
    <3>1. Touched(op) = {op.path}
      BY <2>3 DEF Touched
    <3> QED BY <2>1, <2>2, <2>3, <3>1 DEF OperationAllowed
  <2>4. CASE op.tool = "write"
    <3>1. Touched(op) = {op.path}
      BY <2>4 DEF Touched
    <3>2. ~Forbidden(op.path, work.forbidden) /\ \E p \in work.allowed : GlobMatches(op.path, p)
      BY <2>2, <2>4 DEF OperationAllowed, MayWrite
    <3>3. op.path \in work.changed
      BY <2>1, <2>2, <2>4 DEF Written
    <3> QED BY <2>1, <3>1, <3>2, <3>3
  <2>5. CASE op.tool = "search"
    <3>1. MaySearch(op.path, work.forbidden)
      BY <2>2, <2>5 DEF OperationAllowed
    <3>2. ASSUME NEW file \in Touched(op) PROVE ~Forbidden(file, work.forbidden)
      <4>1. file \in TaskPaths /\ (file = op.path \/ Under(file, op.path))
        BY <2>5, <3>2 DEF Touched
      <4>2. file \in Seq(PathPart)
        BY <4>1, ListFacts, ScoringConstants DEF TaskPaths
      <4>3. ASSUME NEW p \in work.forbidden
            PROVE  ~GlobMatches(file, p) /\ ~(Literal(p) /\ Under(file, p))
        <5>1. p \in Seq(PatternPart) /\ \A k \in DOMAIN p : p[k] # "a*"
          BY WorkFacts
        <5>2. ~Overlaps(op.path, LiteralPrefix(p))
          BY <3>1 DEF MaySearch
        <5> QED BY <2>2, <4>1, <4>2, <5>1, <5>2, SearchFacts
      <4> QED BY <4>3 DEF Forbidden
    <3> QED BY <2>1, <2>5, <3>2
  <2>6. CASE op.tool \in {"pytest", "lint"}
    <3>1. Touched(op) = {}
      BY <2>6 DEF Touched
    <3> QED BY <2>1, <2>6, <3>1
  <2> QED BY <2>2, <2>3, <2>4, <2>5, <2>6 DEF Tools
<1> QED BY <1>1, <1>2 DEF WorkIsClean

\* A slot of an item is of one lane.
LEMMA OneLane ==
  ASSUME PiecesAreKnown PROVE Unblinded
<1> SUFFICES ASSUME scored.part = "mapping", MappingAccepted(scored.of),
                    NEW row \in [lane : BlindLanes, item : {"task", "control"}, slot : Slots, sandbox : BlindLanes],
                    RowAccepted(scored.of, row)
             PROVE  {scored.of[i].lane : i \in {j \in DOMAIN scored.of :
                    scored.of[j].item = row.item /\ scored.of[j].slot = row.slot}} = {row.sandbox}
  BY DEF Unblinded
<1>1. PICK mapping : mapping = scored.of
  OBVIOUS
<1>2. PICK i \in DOMAIN mapping : mapping[i] = [lane |-> row.lane, item |-> row.item, slot |-> row.slot]
  BY <1>1 DEF RowAccepted
<1>3. row.sandbox = row.lane
  BY DEF RowAccepted
<1>4. mapping[i].lane = row.sandbox /\ mapping[i].item = row.item /\ mapping[i].slot = row.slot
  BY <1>2, <1>3
<1>5. ASSUME NEW j \in DOMAIN mapping, mapping[j].item = row.item, mapping[j].slot = row.slot PROVE j = i
  <2>1. i < j => Distinct(mapping[i], mapping[j])
    BY <1>1 DEF MappingAccepted
  <2>2. j < i => Distinct(mapping[j], mapping[i])
    BY <1>1 DEF MappingAccepted
  <2>3. ~Distinct(mapping[i], mapping[j]) /\ ~Distinct(mapping[j], mapping[i])
    BY <1>4, <1>5 DEF Distinct
  <2>4. i \in Int /\ j \in Int
    <3>1. mapping \in Lists(MaxMapping, Entries)
      BY <1>1 DEF PiecesAreKnown
    <3>2. DOMAIN mapping = 1..Len(mapping)
      BY <3>1, ListFacts, ScoringConstants
    <3> QED BY <1>2, <1>5, <3>2
  <2> QED BY <2>1, <2>2, <2>3, <2>4
<1> QED BY <1>1, <1>4, <1>5

\* Accepted traces reached no network, and none in the direct lane used SourceBrief.
LEMMA CleanTraces ==
  TracesAreClean
BY DEF TracesAreClean, TraceAccepted, Uses

\* An evaluated agent kept to the paths of its task wherever the validators accept its row or
\* trace, and each row counts for the lane it ran in, for any paths, patterns and mappings of any
\* length (_path_glob_matches, _validate_tool_trace, _validate_task_path).
THEOREM AccessContained == ScoringSpec => []AccessIsContained
<1>1. PiecesAreKnown => AccessIsContained
  BY PathFacts, CleanWork, OneLane, CleanTraces DEF AccessIsContained
<1> QED BY <1>1, PiecesKnown, PTL

-----------------------------------------------------------------------------
(* Verdicts *)

\* The founder's scorer has the gap to the human pack written out, the gate takes its threshold.
OneTaskBehind == HumanGap = 1

\* The lane of the evaluated candidate.
AI == "ai_compiled"

\* What an outcome has.
LEMMA OutcomeFacts ==
  ASSUME NEW o \in Outcomes
  PROVE  /\ \A lane \in Lanes : /\ o.solved[lane] \subseteq Tasks /\ IsFiniteSet(o.solved[lane])
                                /\ Count(o, lane) \in Nat
         /\ o.solved \in [Lanes -> SUBSET Tasks]
         /\ o.abstained \cap o.solved[AI] = {}
         /\ o.badAttempts \subseteq {"attempt 2"}
         /\ o.failedControls[AI] \subseteq Controls
         /\ o.overBudget \in BOOLEAN
         /\ (\E lane \in Lanes : o.failedControls[lane] # {}) \in BOOLEAN
<1>1. /\ o.solved \in [Lanes -> SUBSET Tasks]
      /\ o.abstained \cap o.solved[AI] = {}
      /\ o.badAttempts \in {{}, {"attempt 2"}} /\ o.overBudget \in BOOLEAN
  BY DEF Outcomes, AI
<1>2. PICK who : o.failedControls = [lane \in Lanes |-> IF lane = who THEN Controls ELSE {}]
  BY DEF Outcomes
<1>3. o.failedControls[AI] \subseteq Controls
  BY <1>2 DEF Lanes, AI
<1>4. ASSUME NEW lane \in Lanes
      PROVE  /\ o.solved[lane] \subseteq Tasks /\ IsFiniteSet(o.solved[lane]) /\ Count(o, lane) \in Nat
  <2>1. o.solved[lane] \subseteq Tasks
    BY <1>1
  <2>2. IsFiniteSet(o.solved[lane])
    BY <2>1, FS_Subset, ScoringConstants
  <2> QED BY <2>1, <2>2, FS_CardinalityType DEF Count
<1> QED BY <1>1, <1>3, <1>4

\* The best automated lane is a number of tasks.
LEMMA BestFacts ==
  ASSUME NEW o, \A lane \in Automated : Count(o, lane) \in Nat
  PROVE  BestAutomated(o) \in Nat
<1> DEFINE S == {Count(o, lane) : lane \in Automated}
<1>1. \E x \in S : \A y \in S : x >= y
  <2>1. S = {Count(o, "current_deterministic"), Count(o, "direct_tools_no_sourcebrief")}
    BY DEF Automated
  <2>2. Count(o, "current_deterministic") \in Nat /\ Count(o, "direct_tools_no_sourcebrief") \in Nat
    BY DEF Automated
  <2> HIDE DEF S
  <2> QED BY <2>1, <2>2
<1>2. S \subseteq Nat
  OBVIOUS
<1>3. Max(S) \in S
  BY <1>1 DEF Max
<1> QED BY <1>2, <1>3 DEF BestAutomated

\* The failures one by one.
LEMMA FailureFacts ==
  ASSUME NEW o
  PROVE  \A f : f \in Failures(o) <=>
           \/ Count(o, AI) < SuccessMin /\ f = [category |-> "success floor", subjects |-> Tasks \ o.solved[AI]]
           \/ Count(o, AI) - BestAutomated(o) < WinMargin /\ f = [category |-> "win margin", subjects |-> WholeRun]
           \/ BehindHuman(o) /\ f = [category |-> "human gap", subjects |-> WholeRun]
           \/ Cardinality(Regressions(o)) > RegressionsMax /\ f = [category |-> "regressions", subjects |-> Regressions(o)]
           \/ o.failedControls[AI] # {} /\ f = [category |-> "controls", subjects |-> o.failedControls[AI]]
           \/ o.abstained # {} /\ Count(o, AI) < SuccessMin /\ f = [category |-> "abstention", subjects |-> o.abstained]
           \/ o.badAttempts # {} /\ f = [category |-> "compile budget", subjects |-> o.badAttempts]
           \/ o.overBudget /\ f = [category |-> "economics", subjects |-> WholeRun]
<1> DEFINE ai == o.solved[AI]
           low == Cardinality(ai) < SuccessMin
           All == Category("success floor", low, Tasks \ ai)
                  \cup Category("win margin", Cardinality(ai) - BestAutomated(o) < WinMargin, WholeRun)
                  \cup Category("human gap", BehindHuman(o), WholeRun)
                  \cup Category("regressions", Cardinality(Regressions(o)) > RegressionsMax, Regressions(o))
                  \cup Category("controls", o.failedControls[AI] # {}, o.failedControls[AI])
                  \cup Category("abstention", o.abstained # {} /\ low, o.abstained)
                  \cup Category("compile budget", o.badAttempts # {}, o.badAttempts)
                  \cup Category("economics", o.overBudget, WholeRun)
<1>1. ASSUME NEW name, NEW holds, NEW subjects, NEW f
      PROVE  f \in Category(name, holds, subjects) <=> holds /\ f = [category |-> name, subjects |-> subjects]
  BY DEF Category
<1>2. Failures(o) = All
  BY DEF Failures, AI
<1>3. Cardinality(ai) = Count(o, AI)
  BY DEF Count
<1> TAKE f
<1>4. f \in All <=>
           \/ f \in Category("success floor", low, Tasks \ ai)
           \/ f \in Category("win margin", Cardinality(ai) - BestAutomated(o) < WinMargin, WholeRun)
           \/ f \in Category("human gap", BehindHuman(o), WholeRun)
           \/ f \in Category("regressions", Cardinality(Regressions(o)) > RegressionsMax, Regressions(o))
           \/ f \in Category("controls", o.failedControls[AI] # {}, o.failedControls[AI])
           \/ f \in Category("abstention", o.abstained # {} /\ low, o.abstained)
           \/ f \in Category("compile budget", o.badAttempts # {}, o.badAttempts)
           \/ f \in Category("economics", o.overBudget, WholeRun)
  OBVIOUS
<1>5. /\ f \in Category("success floor", low, Tasks \ ai) <=>
            low /\ f = [category |-> "success floor", subjects |-> Tasks \ ai]
      /\ f \in Category("abstention", o.abstained # {} /\ low, o.abstained) <=>
            (o.abstained # {} /\ low) /\ f = [category |-> "abstention", subjects |-> o.abstained]
  BY DEF Category
<1>6. f \in Category("win margin", Cardinality(ai) - BestAutomated(o) < WinMargin, WholeRun) <=>
            Cardinality(ai) - BestAutomated(o) < WinMargin /\ f = [category |-> "win margin", subjects |-> WholeRun]
  BY DEF Category
<1>7. f \in Category("regressions", Cardinality(Regressions(o)) > RegressionsMax, Regressions(o)) <=>
            Cardinality(Regressions(o)) > RegressionsMax /\ f = [category |-> "regressions", subjects |-> Regressions(o)]
  BY DEF Category
<1>8. /\ f \in Category("human gap", BehindHuman(o), WholeRun) <=>
            BehindHuman(o) /\ f = [category |-> "human gap", subjects |-> WholeRun]
      /\ f \in Category("controls", o.failedControls[AI] # {}, o.failedControls[AI]) <=>
            o.failedControls[AI] # {} /\ f = [category |-> "controls", subjects |-> o.failedControls[AI]]
      /\ f \in Category("compile budget", o.badAttempts # {}, o.badAttempts) <=>
            o.badAttempts # {} /\ f = [category |-> "compile budget", subjects |-> o.badAttempts]
      /\ f \in Category("economics", o.overBudget, WholeRun) <=>
            o.overBudget /\ f = [category |-> "economics", subjects |-> WholeRun]
  BY DEF Category
<1> HIDE DEF All
<1> QED BY <1>2, <1>3, <1>4, <1>5, <1>6, <1>7, <1>8

\* A failed campaign carries reasons, and no task one names was solved.
LEMMA NamedFacts ==
  ASSUME NEW o \in Outcomes
  PROVE  /\ (Verdict(o) = "PASS") <=> (Reasons(o) = {})
         /\ \A r \in Reasons(o) : r[2] \notin o.solved[AI]
<1>1. ASSUME NEW f \in Failures(o) PROVE f.subjects # {} /\ f.subjects \cap o.solved[AI] = {}
  <2>1. /\ o.solved[AI] \subseteq Tasks /\ Count(o, AI) \in Nat
        /\ o.abstained \cap o.solved[AI] = {}
        /\ o.badAttempts \subseteq {"attempt 2"} /\ o.failedControls[AI] \subseteq Controls
    BY OutcomeFacts DEF Lanes, AI
  <2>2. Tasks \cap (Controls \cup {"gate-a-run", "attempt 2"}) = {}
    BY ScoringConstants
  <2>3. "gate-a-run" \notin o.solved[AI] /\ "attempt 2" \notin o.solved[AI] /\ Controls \cap o.solved[AI] = {}
    BY <2>1, <2>2
  <2>4. CASE Count(o, AI) < SuccessMin /\ f = [category |-> "success floor", subjects |-> Tasks \ o.solved[AI]]
    <3>1. Count(o, AI) = Cardinality(o.solved[AI])
      BY DEF Count
    <3>2. SuccessMin <= Cardinality(Tasks) /\ SuccessMin \in Nat /\ Cardinality(Tasks) \in Nat
      BY ScoringConstants, FS_CardinalityType
    <3>3. Cardinality(o.solved[AI]) < SuccessMin
      BY <2>4, <3>1
    <3>4. o.solved[AI] # Tasks
      <4>1. CASE o.solved[AI] = Tasks
        <5>1. Cardinality(Tasks) < SuccessMin
          BY <3>3, <4>1
        <5> QED BY <3>2, <5>1
      <4> QED BY <4>1
    <3>5. f.subjects = Tasks \ o.solved[AI]
      BY <2>4
    <3> QED BY <2>1, <3>4, <3>5
  <2>5. CASE f.subjects = WholeRun
    BY <2>3, <2>5 DEF WholeRun
  <2>6. CASE Cardinality(Regressions(o)) > RegressionsMax /\ f = [category |-> "regressions", subjects |-> Regressions(o)]
    <3>1. Cardinality({}) = 0 /\ RegressionsMax \in Nat
      BY FS_EmptySet, ScoringConstants
    <3>2. Regressions(o) # {}
      BY <2>6, <3>1
    <3>3. \A A, B : (A \ B) \cap B = {}
      OBVIOUS
    <3>4. Regressions(o) \cap o.solved["ai_compiled"] = {}
      BY <3>3 DEF Regressions
    <3>5. f.subjects = Regressions(o)
      BY <2>6
    <3> QED BY <3>2, <3>4, <3>5 DEF AI
  <2>7. CASE o.failedControls[AI] # {} /\ f = [category |-> "controls", subjects |-> o.failedControls[AI]]
    BY <2>1, <2>3, <2>7
  <2>8. CASE o.abstained # {} /\ f = [category |-> "abstention", subjects |-> o.abstained]
    BY <2>1, <2>8
  <2>9. CASE o.badAttempts # {} /\ f = [category |-> "compile budget", subjects |-> o.badAttempts]
    BY <2>1, <2>3, <2>9
  <2>10. \/ Count(o, AI) < SuccessMin /\ f = [category |-> "success floor", subjects |-> Tasks \ o.solved[AI]]
         \/ Count(o, AI) - BestAutomated(o) < WinMargin /\ f = [category |-> "win margin", subjects |-> WholeRun]
         \/ BehindHuman(o) /\ f = [category |-> "human gap", subjects |-> WholeRun]
         \/ Cardinality(Regressions(o)) > RegressionsMax /\ f = [category |-> "regressions", subjects |-> Regressions(o)]
         \/ o.failedControls[AI] # {} /\ f = [category |-> "controls", subjects |-> o.failedControls[AI]]
         \/ o.abstained # {} /\ Count(o, AI) < SuccessMin /\ f = [category |-> "abstention", subjects |-> o.abstained]
         \/ o.badAttempts # {} /\ f = [category |-> "compile budget", subjects |-> o.badAttempts]
         \/ o.overBudget /\ f = [category |-> "economics", subjects |-> WholeRun]
    BY <1>1, FailureFacts, Zenon
  <2>11. CASE Count(o, AI) - BestAutomated(o) < WinMargin /\ f = [category |-> "win margin", subjects |-> WholeRun]
    BY <2>5, <2>11
  <2>12. CASE BehindHuman(o) /\ f = [category |-> "human gap", subjects |-> WholeRun]
    BY <2>5, <2>12
  <2>13. CASE o.overBudget /\ f = [category |-> "economics", subjects |-> WholeRun]
    BY <2>5, <2>13
  <2>14. CASE o.abstained # {} /\ Count(o, AI) < SuccessMin /\ f = [category |-> "abstention", subjects |-> o.abstained]
    BY <2>8, <2>14
  <2> QED BY <2>4, <2>6, <2>7, <2>9, <2>10, <2>11, <2>12, <2>13, <2>14, Zenon
<1>2. ASSUME NEW r \in Reasons(o) PROVE r[2] \notin o.solved[AI]
  <2>1. PICK f \in Failures(o) : \E s \in f.subjects : r = <<f.category, s>>
    BY <1>2 DEF Reasons
  <2>2. PICK s \in f.subjects : r = <<f.category, s>>
    BY <2>1
  <2>3. r[2] = s
    BY <2>2
  <2> QED BY <1>1, <2>2, <2>3
<1>3. (Reasons(o) = {}) <=> (Failures(o) = {})
  <2>1. ASSUME NEW f \in Failures(o) PROVE Reasons(o) # {}
    <3>1. PICK s : s \in f.subjects
      BY <1>1
    <3>2. <<f.category, s>> \in Reasons(o)
      BY <3>1 DEF Reasons
    <3> QED BY <3>2
  <2>2. Failures(o) = {} => Reasons(o) = {}
    BY DEF Reasons
  <2> QED BY <2>1, <2>2
<1>4. (Verdict(o) = "PASS") <=> (Failures(o) = {})
  BY DEF Verdict
<1> QED BY <1>2, <1>3, <1>4

\* What solving one task more changes.
LEMMA ImprovedFacts ==
  ASSUME NEW o \in Outcomes, NEW task \in Tasks, NEW p, p = Improved(o, task)
  PROVE  /\ p.solved[AI] = o.solved[AI] \cup {task}
         /\ \A lane \in Lanes \ {AI} : p.solved[lane] = o.solved[lane]
         /\ p.abstained \subseteq o.abstained /\ p.badAttempts = o.badAttempts
         /\ p.failedControls = o.failedControls /\ p.overBudget = o.overBudget
<1>1. o = [solved |-> o.solved, abstained |-> o.abstained, badAttempts |-> o.badAttempts,
           failedControls |-> o.failedControls, overBudget |-> o.overBudget]
  BY DEF Outcomes
<1>2. o.solved \in [Lanes -> SUBSET Tasks] /\ AI \in Lanes
  BY OutcomeFacts DEF Lanes, AI
<1>3. p = [o EXCEPT !.solved["ai_compiled"] = o.solved["ai_compiled"] \cup {task},
                    !.abstained = o.abstained \ {task}]
  BY DEF Improved
<1>4. PICK solved : solved = [o.solved EXCEPT !["ai_compiled"] = o.solved["ai_compiled"] \cup {task}]
  OBVIOUS
<1>5. /\ p.solved = solved /\ p.abstained = o.abstained \ {task} /\ p.badAttempts = o.badAttempts
      /\ p.failedControls = o.failedControls /\ p.overBudget = o.overBudget
  BY <1>1, <1>3, <1>4
<1>6. solved[AI] = o.solved[AI] \cup {task} /\ \A lane \in Lanes \ {AI} : solved[lane] = o.solved[lane]
  BY <1>2, <1>4 DEF AI
<1> QED BY <1>5, <1>6

\* A candidate that solves one task more has no shortcoming it did not have.
LEMMA BetterFacts ==
  ASSUME NEW o \in Outcomes, NEW task \in Tasks, Failures(o) = {}
  PROVE  Failures(Improved(o, task)) = {}
<1>1. PICK p : p = Improved(o, task)
  OBVIOUS
<1>2. /\ p.solved[AI] = o.solved[AI] \cup {task}
      /\ \A lane \in Lanes \ {AI} : p.solved[lane] = o.solved[lane]
      /\ p.abstained \subseteq o.abstained /\ p.badAttempts = o.badAttempts
      /\ p.failedControls = o.failedControls /\ p.overBudget = o.overBudget
  BY <1>1, ImprovedFacts
<1>3. /\ \A lane \in Lanes : IsFiniteSet(o.solved[lane]) /\ Count(o, lane) \in Nat
      /\ AI \in Lanes /\ Automated \subseteq Lanes \ {AI} /\ "human_authored" \in Lanes \ {AI}
  BY OutcomeFacts DEF Lanes, Automated, AI
<1>4. \A lane \in Lanes \ {AI} : Count(p, lane) = Count(o, lane)
  BY <1>2 DEF Count
<1>5. Count(p, AI) \in Nat /\ Count(p, AI) >= Count(o, AI)
  <2>1. IsFiniteSet(p.solved[AI])
    <3>1. IsFiniteSet(o.solved[AI])
      BY <1>3
    <3>2. IsFiniteSet(o.solved[AI] \cup {task})
      BY <3>1, FS_AddElement
    <3> QED BY <1>2, <3>2
  <2>2. Cardinality(o.solved[AI]) <= Cardinality(p.solved[AI]) /\ Cardinality(p.solved[AI]) \in Nat
    BY <1>2, <2>1, FS_Subset, FS_CardinalityType
  <2> QED BY <1>3, <2>2 DEF Count
<1>6. BestAutomated(p) = BestAutomated(o) /\ CoBest(p) = CoBest(o)
  <2>1. {Count(p, lane) : lane \in Automated} = {Count(o, lane) : lane \in Automated}
    BY <1>3, <1>4
  <2>2. BestAutomated(p) = BestAutomated(o)
    BY <2>1 DEF BestAutomated
  <2> QED BY <1>3, <1>4, <2>2 DEF CoBest
<1>7. BestAutomated(o) \in Nat
  BY <1>3, BestFacts
<1>8. Cardinality(Regressions(p)) \in Nat /\ Cardinality(Regressions(o)) \in Nat
      /\ Cardinality(Regressions(p)) <= Cardinality(Regressions(o))
  <2>1. CoBest(o) \subseteq Automated
    BY DEF CoBest
  <2>2. \A lane \in CoBest(o) : p.solved[lane] = o.solved[lane] /\ o.solved[lane] \subseteq Tasks
    BY <1>2, <1>3, <2>1, OutcomeFacts
  <2>3. Regressions(p) \subseteq Regressions(o) /\ Regressions(o) \subseteq Tasks
    BY <1>2, <1>6, <2>2 DEF Regressions, AI
  <2>4. IsFiniteSet(Regressions(o))
    BY <2>3, FS_Subset, ScoringConstants
  <2>5. IsFiniteSet(Regressions(p)) /\ Cardinality(Regressions(p)) <= Cardinality(Regressions(o))
    BY <2>3, <2>4, FS_Subset
  <2> QED BY <2>4, <2>5, FS_CardinalityType
<1>9. {SuccessMin, WinMargin, HumanGap, RegressionsMax} \subseteq Nat
  BY ScoringConstants
<1>10. /\ ~(Count(o, AI) < SuccessMin) /\ ~(Count(o, AI) - BestAutomated(o) < WinMargin)
       /\ ~BehindHuman(o) /\ ~(Cardinality(Regressions(o)) > RegressionsMax)
       /\ o.failedControls[AI] = {} /\ o.badAttempts = {} /\ ~o.overBudget
  BY FailureFacts
<1>11. /\ ~(Count(p, AI) < SuccessMin) /\ ~(Count(p, AI) - BestAutomated(p) < WinMargin)
       /\ ~(Cardinality(Regressions(p)) > RegressionsMax)
  BY <1>3, <1>5, <1>6, <1>7, <1>8, <1>9, <1>10
<1>12. ~BehindHuman(p)
  <2>1. Count(p, "human_authored") = Count(o, "human_authored") /\ Count(o, "human_authored") \in Nat
    BY <1>3, <1>4
  <2>2. ~(Count(o, "human_authored") - Count(o, AI) > HumanGap)
    BY <1>10 DEF BehindHuman, AI
  <2>3. ~(Count(p, "human_authored") - Count(p, AI) > HumanGap)
    BY <1>3, <1>5, <1>9, <2>1, <2>2
  <2> QED BY <2>3 DEF BehindHuman, AI
<1>13. Failures(p) = {}
  BY <1>2, <1>10, <1>11, <1>12, FailureFacts
<1> QED BY <1>1, <1>13

\* What the name of a shortcoming the scorers share tells of an outcome.
LEMMA NamesDiffer ==
  ASSUME NEW o, NEW f \in Failures(o)
  PROVE  /\ f.category = "success floor" => Count(o, AI) < SuccessMin
         /\ f.category = "win margin" => Count(o, AI) - BestAutomated(o) < WinMargin
         /\ f.category = "regressions" => Cardinality(Regressions(o)) > RegressionsMax
         /\ f.category = "human gap" => BehindHuman(o)
<1>1. \/ Count(o, AI) < SuccessMin /\ f.category = "success floor"
      \/ Count(o, AI) - BestAutomated(o) < WinMargin /\ f.category = "win margin"
      \/ BehindHuman(o) /\ f.category = "human gap"
      \/ Cardinality(Regressions(o)) > RegressionsMax /\ f.category = "regressions"
      \/ f.category \in {"controls", "abstention", "compile budget", "economics"}
  <2>1. \A name, subjects : f = [category |-> name, subjects |-> subjects] => f.category = name
    OBVIOUS
  <2> QED BY <2>1, FailureFacts, Zenon
<1> QED BY <1>1

\* The shortcomings the founder's scorer compares, one by one.
LEMMA InternalFacts ==
  ASSUME NEW o
  PROVE  /\ {"execution evidence incomplete", "economics evidence incomplete"} \subseteq InternalFailures(o)
         /\ "success floor" \in InternalFailures(o) <=> Count(o, AI) < SuccessMin
         /\ "win margin" \in InternalFailures(o) <=> Count(o, AI) - BestAutomated(o) < WinMargin
         /\ "regressions" \in InternalFailures(o) <=> Cardinality(Regressions(o)) > RegressionsMax
         /\ "human gap" \in InternalFailures(o) <=> Count(o, "human_authored") - Count(o, AI) > 1
BY DEF InternalFailures, TooManyRegressions, AI

\* Both scorers find the same shortcomings of an outcome, and the founder's never passes it.
LEMMA SignalFacts ==
  ASSUME OneTaskBehind, NEW o \in Outcomes
  PROVE  /\ InternalFailures(o) \cap Compared = {f.category : f \in Failures(o)} \cap Compared
         /\ InternalVerdict(o) = "FAIL" /\ ShownUplift(o) <= 0
<1>1. ASSUME NEW name \in Compared
      PROVE  name \in InternalFailures(o) <=> \E f \in Failures(o) : name = f.category
  <2>1. BehindHuman(o) <=> Count(o, "human_authored") - Count(o, AI) > 1
    BY DEF BehindHuman, OneTaskBehind, AI
  <2>2. "success floor" \in InternalFailures(o) <=> \E f \in Failures(o) : "success floor" = f.category
    <3>1. "success floor" \in InternalFailures(o) <=> Count(o, AI) < SuccessMin
      BY InternalFacts
    <3>2. ASSUME Count(o, AI) < SuccessMin PROVE \E f \in Failures(o) : "success floor" = f.category
      <4>1. PICK f : f = [category |-> "success floor", subjects |-> Tasks \ o.solved[AI]]
        OBVIOUS
      <4>2. f \in Failures(o)
        BY <3>2, <4>1, FailureFacts, Zenon
      <4>3. f.category = "success floor"
        BY <4>1
      <4> QED BY <4>2, <4>3
    <3>3. ASSUME NEW f \in Failures(o), "success floor" = f.category PROVE Count(o, AI) < SuccessMin
      BY <3>3, NamesDiffer
    <3> QED BY <3>1, <3>2, <3>3
  <2>3. "win margin" \in InternalFailures(o) <=> \E f \in Failures(o) : "win margin" = f.category
    <3>1. "win margin" \in InternalFailures(o) <=> Count(o, AI) - BestAutomated(o) < WinMargin
      BY InternalFacts
    <3>2. ASSUME Count(o, AI) - BestAutomated(o) < WinMargin PROVE \E f \in Failures(o) : "win margin" = f.category
      <4>1. PICK f : f = [category |-> "win margin", subjects |-> WholeRun]
        OBVIOUS
      <4>2. f \in Failures(o)
        BY <3>2, <4>1, FailureFacts, Zenon
      <4>3. f.category = "win margin"
        BY <4>1
      <4> QED BY <4>2, <4>3
    <3>3. ASSUME NEW f \in Failures(o), "win margin" = f.category PROVE Count(o, AI) - BestAutomated(o) < WinMargin
      BY <3>3, NamesDiffer
    <3> QED BY <3>1, <3>2, <3>3
  <2>4. "regressions" \in InternalFailures(o) <=> \E f \in Failures(o) : "regressions" = f.category
    <3>1. "regressions" \in InternalFailures(o) <=> Cardinality(Regressions(o)) > RegressionsMax
      BY InternalFacts
    <3>2. ASSUME Cardinality(Regressions(o)) > RegressionsMax PROVE \E f \in Failures(o) : "regressions" = f.category
      <4>1. PICK f : f = [category |-> "regressions", subjects |-> Regressions(o)]
        OBVIOUS
      <4>2. f \in Failures(o)
        BY <3>2, <4>1, FailureFacts, Zenon
      <4>3. f.category = "regressions"
        BY <4>1
      <4> QED BY <4>2, <4>3
    <3>3. ASSUME NEW f \in Failures(o), "regressions" = f.category PROVE Cardinality(Regressions(o)) > RegressionsMax
      BY <3>3, NamesDiffer
    <3> QED BY <3>1, <3>2, <3>3
  <2>5. "human gap" \in InternalFailures(o) <=> \E f \in Failures(o) : "human gap" = f.category
    <3>1. "human gap" \in InternalFailures(o) <=> BehindHuman(o)
      BY <2>1, InternalFacts
    <3>2. ASSUME BehindHuman(o) PROVE \E f \in Failures(o) : "human gap" = f.category
      <4>1. PICK f : f = [category |-> "human gap", subjects |-> WholeRun]
        OBVIOUS
      <4>2. f \in Failures(o)
        BY <3>2, <4>1, FailureFacts, Zenon
      <4>3. f.category = "human gap"
        BY <4>1
      <4> QED BY <4>2, <4>3
    <3>3. ASSUME NEW f \in Failures(o), "human gap" = f.category PROVE BehindHuman(o)
      BY <3>3, NamesDiffer
    <3> QED BY <3>1, <3>2, <3>3
  <2> QED BY <2>2, <2>3, <2>4, <2>5 DEF Compared
<1>2. InternalFailures(o) \cap Compared = {f.category : f \in Failures(o)} \cap Compared
  BY <1>1
<1>3. InternalFailures(o) \cap {"execution evidence incomplete", "economics evidence incomplete"} # {}
  BY InternalFacts
<1>4. InternalVerdict(o) = "FAIL"
  BY <1>3 DEF InternalVerdict
<1>5. ShownUplift(o) <= 0
  <2>1. Count(o, AI) \in Nat /\ \A lane \in Automated : Count(o, lane) \in Nat
    BY OutcomeFacts DEF Lanes, AI
  <2>2. BestAutomated(o) \in Nat
    BY <2>1, BestFacts
  <2>3. PICK uplift \in Int : uplift = Count(o, AI) - BestAutomated(o)
    BY <2>1, <2>2
  <2>4. ShownUplift(o) = Min({uplift, 0})
    BY <1>3, <2>3 DEF ShownUplift, AI
  <2>5. \E x \in {uplift, 0} : \A y \in {uplift, 0} : x <= y
    OBVIOUS
  <2>6. Min({uplift, 0}) <= 0
    BY <2>5 DEF Min
  <2> QED BY <2>4, <2>6
<1> QED BY <1>2, <1>4, <1>5

\* Where the gate allows one task behind the human pack, as it does (gate_a_eval.py:131),
\* failures are named, a better candidate does no worse and the two scorers agree, for any
\* tasks, controls and other thresholds.
THEOREM VerdictsAreEarned == ASSUME OneTaskBehind PROVE ScoringSpec => []VerdictIsEarned
<1>1. PiecesAreKnown => VerdictIsEarned
  <2> SUFFICES ASSUME PiecesAreKnown, scored.part = "outcome" PROVE VerdictIsEarned
    BY DEF VerdictIsEarned, FailuresAreNamed, BetterNeverFails, SignalsAgree
  <2>1. PICK o \in Outcomes : o = scored.of
    BY DEF PiecesAreKnown
  <2>2. FailuresAreNamed
    BY <2>1, NamedFacts DEF FailuresAreNamed, AI
  <2>3. BetterNeverFails
    BY <2>1, BetterFacts DEF BetterNeverFails, Verdict
  <2>4. SignalsAgree
    BY <2>1, SignalFacts DEF SignalsAgree
  <2> QED BY <2>2, <2>3, <2>4 DEF VerdictIsEarned
<1> QED BY <1>1, PiecesKnown, PTL

-----------------------------------------------------------------------------
(* Ingestion: jobs *)

TextJob ==
    \E text \in Seq({"x", "s", "n"}), max \in Nat \ {0}, overlap \in Nat :
        job = [kind |-> "text", text |-> text, max |-> max, overlap |-> overlap]

TreeJob ==
    \E files \in Seq(RepoFile), limits \in [file : Nat, files : Nat, total : Nat] :
        job = [kind |-> "tree", files |-> files, limits |-> limits]

PageJob ==
    \E n \in 0..MaxHops : \E chain \in [1..n -> Answer], redirects \in Nat :
        job = [kind |-> "page", chain |-> chain, redirects |-> redirects]

IndexJob ==
    \E docs \in Seq(Document), maxChunks \in Nat, maxSymbols \in Nat :
        job = [kind |-> "index", docs |-> docs, maxChunks |-> maxChunks, maxSymbols |-> maxSymbols]

RefreshJob ==
    \E commit \in Commits, limits \in Limits, fresh \in BOOLEAN,
       snapshot \in {NoSnapshot} \cup [commit : Commits, limits : Limits] :
        /\ job = [kind |-> "refresh", commit |-> commit, limits |-> limits, snapshot |-> snapshot,
                  fresh |-> fresh]
        /\ fresh => snapshot = [commit |-> commit, limits |-> limits]

\* The inductive invariant of Ingestion: a repository that was just refreshed has the
\* snapshot of what it points to; the other jobs are one text, tree, page or budget.
IngestIInv == TextJob \/ TreeJob \/ PageJob \/ IndexJob \/ RefreshJob

\* Any text, tree, page or budget, or a repository without a snapshot.
LEMMA IngestStart == IngestInit => IngestIInv
<1> SUFFICES ASSUME IngestInit
             PROVE  IngestIInv
  OBVIOUS
<1> USE IngestConstants
<1>1. ASSUME NEW text \in SeqsUpTo({"x", "s", "n"}, MaxText), NEW max \in 1..MaxWindow,
             NEW overlap \in 0..MaxWindow,
             job = [kind |-> "text", text |-> text, max |-> max, overlap |-> overlap]
      PROVE  TextJob
  <2>1. text \in Seq({"x", "s", "n"}) /\ max \in Nat \ {0} /\ overlap \in Nat
    <3>1. PICK n \in 0..MaxText : text \in [1..n -> {"x", "s", "n"}]
      BY DEF SeqsUpTo
    <3>2. text \in Seq({"x", "s", "n"})
      BY <3>1
    <3> QED BY <3>2
  <2> QED BY <1>1, <2>1 DEF TextJob
<1>2. ASSUME NEW files \in SeqsUpTo(RepoFile, MaxDocs), NEW file \in 1..2, NEW count \in 1..2,
             NEW total \in 1..3,
             job = [kind |-> "tree", files |-> files,
                    limits |-> [file |-> file, files |-> count, total |-> total]]
      PROVE  TreeJob
  <2>1. files \in Seq(RepoFile)
    <3>1. PICK n \in 0..MaxDocs : files \in [1..n -> RepoFile]
      BY DEF SeqsUpTo
    <3> QED BY <3>1
  <2>2. PICK limits : limits = [file |-> file, files |-> count, total |-> total]
    OBVIOUS
  <2>3. limits \in [file : Nat, files : Nat, total : Nat]
    BY <2>2
  <2>4. job = [kind |-> "tree", files |-> files, limits |-> limits]
    BY <1>2, <2>2
  <2> QED BY <2>1, <2>3, <2>4 DEF TreeJob
<1>3. ASSUME NEW chain \in SeqsUpTo(Answer, MaxHops), NEW redirects \in 1..(MaxHops - 1),
             job = [kind |-> "page", chain |-> chain, redirects |-> redirects]
      PROVE  PageJob
  <2>1. PICK n \in 0..MaxHops : chain \in [1..n -> Answer]
    BY DEF SeqsUpTo
  <2>2. redirects \in Nat
    OBVIOUS
  <2> QED BY <1>3, <2>1, <2>2 DEF PageJob
<1>4. ASSUME NEW docs \in SeqsUpTo(Document, MaxDocs), NEW maxChunks \in 1..3, NEW maxSymbols \in 1..3,
             job = [kind |-> "index", docs |-> docs, maxChunks |-> maxChunks, maxSymbols |-> maxSymbols]
      PROVE  IndexJob
  <2>1. docs \in Seq(Document)
    <3>1. PICK n \in 0..MaxDocs : docs \in [1..n -> Document]
      BY DEF SeqsUpTo
    <3> QED BY <3>1
  <2>2. maxChunks \in Nat /\ maxSymbols \in Nat
    OBVIOUS
  <2> QED BY <1>4, <2>1, <2>2 DEF IndexJob
<1>5. ASSUME NEW commit \in Commits, NEW limits \in Limits,
             job = [kind |-> "refresh", commit |-> commit, limits |-> limits,
                    snapshot |-> NoSnapshot, fresh |-> FALSE]
      PROVE  RefreshJob
  BY <1>5 DEF RefreshJob
<1> QED BY <1>1, <1>2, <1>3, <1>4, <1>5 DEF IngestInit, IngestIInv

\* A refresh brings the snapshot of what the resource points to: one that is kept has the
\* commit and, as the fingerprint holds all of it, the configuration.
LEMMA RefreshStep ==
  ASSUME RefreshJob, (ChangeSource \/ \E trigger \in {"scheduled", "manual"} : RefreshGit(trigger))
  PROVE  RefreshJob'
<1>1. PICK commit \in Commits, limits \in Limits, fresh \in BOOLEAN,
           snapshot \in {NoSnapshot} \cup [commit : Commits, limits : Limits] :
            job = [kind |-> "refresh", commit |-> commit, limits |-> limits, snapshot |-> snapshot,
                   fresh |-> fresh]
  BY DEF RefreshJob
<1>2. CASE ChangeSource
  <2>1. PICK c \in Commits, l \in Limits : job' = [job EXCEPT !.commit = c, !.limits = l, !.fresh = FALSE]
    BY <1>2 DEF ChangeSource
  <2>2. job' = [kind |-> "refresh", commit |-> c, limits |-> l, snapshot |-> snapshot, fresh |-> FALSE]
    BY <1>1, <2>1
  <2> QED BY <2>2 DEF RefreshJob
<1>3. ASSUME NEW trigger \in {"scheduled", "manual"}, RefreshGit(trigger)
      PROVE  RefreshJob'
  <2> DEFINE made == [commit |-> commit, limits |-> limits]
             next == IF Keeps(trigger, snapshot, commit, limits) THEN snapshot ELSE made
  <2>1. job' = [kind |-> "refresh", commit |-> commit, limits |-> limits, snapshot |-> next, fresh |-> TRUE]
    BY <1>1, <1>3 DEF RefreshGit
  <2>2. ASSUME Keeps(trigger, snapshot, commit, limits)
        PROVE  snapshot = made
    <3>1. snapshot \in [commit : Commits, limits : Limits]
      BY <2>2 DEF Keeps
    <3>2. snapshot.commit = commit /\ snapshot.limits \in Limits
      BY <2>2, <3>1 DEF Keeps
    <3>3. PICK old \in Limits : old = snapshot.limits
      BY <3>2
    <3>4. /\ old.branch = limits.branch /\ old.files = limits.files
          /\ old.chunks = limits.chunks /\ old.symbols = limits.symbols
      BY <2>2, <3>3 DEF Keeps, Fingerprint
    <3>5. /\ old = [branch |-> old.branch, files |-> old.files, chunks |-> old.chunks,
                    symbols |-> old.symbols]
          /\ limits = [branch |-> limits.branch, files |-> limits.files, chunks |-> limits.chunks,
                       symbols |-> limits.symbols]
      BY IngestConstants
    <3>6. snapshot.limits = limits
      BY <3>3, <3>4, <3>5
    <3>7. snapshot = [commit |-> snapshot.commit, limits |-> snapshot.limits]
      BY <3>1
    <3> QED BY <3>2, <3>6, <3>7
  <2>3. next = made /\ made \in [commit : Commits, limits : Limits]
    BY <2>2
  <2>4. job' = [kind |-> "refresh", commit |-> commit, limits |-> limits, snapshot |-> made, fresh |-> TRUE]
    BY <2>1, <2>3
  <2> HIDE DEF next
  <2> QED BY <2>3, <2>4 DEF RefreshJob
<1> QED BY <1>2, <1>3

\* The other jobs stay as they are.
LEMMA IngestStep == IngestIInv /\ [IngestNext]_job => IngestIInv'
<1> SUFFICES ASSUME IngestIInv, [IngestNext]_job
             PROVE  IngestIInv'
  OBVIOUS
<1>1. CASE IngestNext
  <2>1. job.kind = "refresh"
    BY <1>1 DEF IngestNext, ChangeSource, RefreshGit
  <2>2. RefreshJob
    BY <2>1 DEF IngestIInv, TextJob, TreeJob, PageJob, IndexJob
  <2>3. RefreshJob'
    BY <1>1, <2>2, RefreshStep DEF IngestNext
  <2> QED BY <2>3 DEF IngestIInv
<1>2. CASE UNCHANGED job
  BY <1>2 DEF IngestIInv, TextJob, TreeJob, PageJob, IndexJob, RefreshJob
<1> QED BY <1>1, <1>2

\* A refreshed repository has the snapshot of what it points to, and the other jobs are one
\* input, for any texts, trees, pages and budgets.
THEOREM IngestInvariance == IngestSpec => []IngestIInv
<1> QED BY IngestStart, IngestStep, PTL DEF IngestSpec

\* The snapshot after a refresh is of the commit and the configuration it found.
LEMMA SnapshotsAreCurrent == IngestIInv => SnapshotIsCurrent
<1> SUFFICES ASSUME IngestIInv, job.kind = "refresh", job.fresh
             PROVE  job.snapshot = [commit |-> job.commit, limits |-> job.limits]
  BY DEF SnapshotIsCurrent
<1>1. RefreshJob
  BY DEF IngestIInv, TextJob, TreeJob, PageJob, IndexJob
<1> QED BY <1>1 DEF RefreshJob

-----------------------------------------------------------------------------
(* Ingestion: trees *)

WalkStates == [read : SUBSET Nat, bytes : Nat, skipped : BOOLEAN, truncated : BOOLEAN]

\* Which of the first files are text.
TextFiles(files, i) == {j \in 1..i : files[j].kind = "text"}

\* What a walk has read up to a file: text within the budgets, and all of it unless it is noted.
WalkedUntil(st, files, limits, i) ==
    /\ st \in WalkStates /\ st.read \subseteq TextFiles(files, i)
    /\ Cardinality(st.read) <= limits.files /\ st.bytes <= limits.total
    /\ st.truncated \/ st.skipped \/ st.read = TextFiles(files, i)

\* Some of the first files are finitely many.
LEMMA TextFilesAreFinite ==
  ASSUME NEW files, NEW i \in Nat, NEW read \in SUBSET TextFiles(files, i)
  PROVE  IsFiniteSet(read) /\ Cardinality(read) \in Nat
<1>1. IsFiniteSet(1..i)
  BY FS_Interval
<1>2. read \subseteq 1..i
  BY DEF TextFiles
<1> QED BY <1>1, <1>2, FS_Subset, FS_CardinalityType

\* One file more.
LEMMA VisitFacts ==
  ASSUME NEW files \in Seq(RepoFile), NEW limits \in [file : Nat, files : Nat, total : Nat],
         NEW i \in 1..Len(files), NEW st, WalkedUntil(st, files, limits, i - 1)
  PROVE  WalkedUntil(Visit(st, files[i], i, limits), files, limits, i)
<1>1. /\ files[i] \in RepoFile /\ files[i].size \in Nat /\ i \in Nat /\ i - 1 \in Nat
      /\ limits.files \in Nat /\ limits.total \in Nat /\ limits.file \in Nat
  <2>1. files[i] \in RepoFile /\ i \in Nat /\ i - 1 \in Nat
    OBVIOUS
  <2>2. files[i].size \in Nat
    BY <2>1 DEF RepoFile
  <2> QED BY <2>1, <2>2
<1>2. PICK read \in SUBSET Nat, bytes \in Nat, skipped \in BOOLEAN, truncated \in BOOLEAN :
        st = [read |-> read, bytes |-> bytes, skipped |-> skipped, truncated |-> truncated]
  BY DEF WalkedUntil, WalkStates
<1>3. /\ read \subseteq TextFiles(files, i - 1)
      /\ Cardinality(read) <= limits.files /\ bytes <= limits.total
      /\ truncated \/ skipped \/ read = TextFiles(files, i - 1)
  BY <1>2 DEF WalkedUntil
<1>4. /\ TextFiles(files, i - 1) \subseteq TextFiles(files, i)
      /\ files[i].kind # "text" => TextFiles(files, i) = TextFiles(files, i - 1)
      /\ files[i].kind = "text" => TextFiles(files, i) = TextFiles(files, i - 1) \cup {i}
      /\ i \notin TextFiles(files, i - 1)
  BY DEF TextFiles
<1>5. IsFiniteSet(read) /\ Cardinality(read) \in Nat
  BY <1>1, <1>3, TextFilesAreFinite
<1>6. CASE truncated
  <2>1. Visit(st, files[i], i, limits) = st
    BY <1>2, <1>6 DEF Visit
  <2> QED BY <1>2, <1>3, <1>4, <1>6, <2>1 DEF WalkedUntil, WalkStates
<1>7. CASE ~truncated /\ Cardinality(read) >= limits.files
  <2>1. Visit(st, files[i], i, limits)
            = [read |-> read, bytes |-> bytes, skipped |-> skipped, truncated |-> TRUE]
    BY <1>2, <1>7 DEF Visit
  <2> QED BY <1>3, <1>4, <2>1 DEF WalkedUntil, WalkStates
<1>8. CASE ~truncated /\ Cardinality(read) < limits.files
  <2>0. ~(Cardinality(read) >= limits.files)
    BY <1>1, <1>5, <1>8
  <2>1. CASE files[i].kind = "other"
    <3>1. Visit(st, files[i], i, limits) = st
      BY <1>2, <1>8, <2>0, <2>1 DEF Visit
    <3> QED BY <1>2, <1>3, <1>4, <2>1, <3>1 DEF WalkedUntil, WalkStates
  <2>2. CASE files[i].kind # "other" /\ (files[i].size > limits.file \/ bytes + files[i].size > limits.total)
    <3>1. Visit(st, files[i], i, limits)
            = [read |-> read, bytes |-> bytes, skipped |-> TRUE, truncated |-> truncated]
      BY <1>2, <1>8, <2>0, <2>2 DEF Visit
    <3> QED BY <1>3, <1>4, <3>1 DEF WalkedUntil, WalkStates
  <2>3. CASE /\ files[i].kind = "text"
             /\ ~(files[i].size > limits.file \/ bytes + files[i].size > limits.total)
    <3>1. Visit(st, files[i], i, limits)
            = [read |-> read \cup {i}, bytes |-> bytes + files[i].size, skipped |-> skipped,
               truncated |-> truncated]
      BY <1>2, <1>8, <2>0, <2>3 DEF Visit
    <3>2. Cardinality(read \cup {i}) = Cardinality(read) + 1
      BY <1>3, <1>4, <1>5, FS_AddElement
    <3>3. Cardinality(read \cup {i}) <= limits.files
      BY <1>1, <1>5, <1>8, <3>2
    <3>4. bytes + files[i].size \in Nat /\ bytes + files[i].size <= limits.total
      BY <1>1, <2>3
    <3>5. read \cup {i} \subseteq TextFiles(files, i) /\ read \cup {i} \in SUBSET Nat
      BY <1>1, <1>3, <1>4, <2>3
    <3>6. read = TextFiles(files, i - 1) => read \cup {i} = TextFiles(files, i)
      BY <1>4, <2>3
    <3> QED BY <1>3, <3>1, <3>3, <3>4, <3>5, <3>6 DEF WalkedUntil, WalkStates
  <2>4. CASE /\ files[i].kind = "binary"
             /\ ~(files[i].size > limits.file \/ bytes + files[i].size > limits.total)
    <3>1. Visit(st, files[i], i, limits) = st
      BY <1>2, <1>8, <2>0, <2>4 DEF Visit
    <3> QED BY <1>2, <1>3, <1>4, <2>4, <3>1 DEF WalkedUntil, WalkStates
  <2>5. files[i].kind \in {"text", "binary", "other"}
    BY <1>1 DEF RepoFile
  <2> QED BY <2>1, <2>2, <2>3, <2>4, <2>5
<1> QED BY <1>1, <1>5, <1>6, <1>7, <1>8

\* A walk, file by file.
Walks(files, limits, g) ==
    g = [i \in 0..Len(files) |-> IF i = 0 THEN NoneRead ELSE Visit(g[i - 1], files[i], i, limits)]

\* A visit leaves a state of the walk, whatever it is before.
LEMMA VisitType ==
  ASSUME NEW file \in RepoFile, NEW limits \in [file : Nat, files : Nat, total : Nat],
         NEW i \in Nat, NEW st \in WalkStates
  PROVE  Visit(st, file, i, limits) \in WalkStates
<1>1. file.size \in Nat
  BY DEF RepoFile
<1>2. PICK read \in SUBSET Nat, bytes \in Nat, skipped \in BOOLEAN, truncated \in BOOLEAN :
        st = [read |-> read, bytes |-> bytes, skipped |-> skipped, truncated |-> truncated]
  BY DEF WalkStates
<1>3. \/ Visit(st, file, i, limits) = st
      \/ Visit(st, file, i, limits)
            = [read |-> read, bytes |-> bytes, skipped |-> skipped, truncated |-> TRUE]
      \/ Visit(st, file, i, limits)
            = [read |-> read, bytes |-> bytes, skipped |-> TRUE, truncated |-> truncated]
      \/ Visit(st, file, i, limits)
            = [read |-> read \cup {i}, bytes |-> bytes + file.size, skipped |-> skipped,
               truncated |-> truncated]
  BY <1>2 DEF Visit
<1>4. read \cup {i} \in SUBSET Nat /\ bytes + file.size \in Nat
  BY <1>1
<1>5. /\ [read |-> read, bytes |-> bytes, skipped |-> skipped, truncated |-> TRUE] \in WalkStates
      /\ [read |-> read, bytes |-> bytes, skipped |-> TRUE, truncated |-> truncated] \in WalkStates
  BY DEF WalkStates
<1>6. [read |-> read \cup {i}, bytes |-> bytes + file.size, skipped |-> skipped,
       truncated |-> truncated] \in WalkStates
  BY <1>4 DEF WalkStates
<1> QED BY <1>3, <1>5, <1>6

\* What a walk has read in the end.
LEMMA WalkFinds ==
  ASSUME NEW files \in Seq(RepoFile), NEW limits \in [file : Nat, files : Nat, total : Nat]
  PROVE  WalkedUntil(Walk(files, limits), files, limits, Len(files))
<1> DEFINE n == Len(files)
           step == [p \in (1..n) \X WalkStates |-> Visit(p[2], files[p[1]], p[1], limits)]
<1>0. n \in Nat /\ \A i \in 1..n : files[i] \in RepoFile /\ i \in Nat
  OBVIOUS
<1>1. step \in Steps(n, WalkStates)
  <2>1. ASSUME NEW p \in (1..n) \X WalkStates
        PROVE  Visit(p[2], files[p[1]], p[1], limits) \in WalkStates
    <3>1. p[2] \in WalkStates /\ p[1] \in 1..n
      BY <2>1
    <3> QED BY <1>0, <3>1, VisitType
  <2> QED BY <2>1 DEF Steps
<1>2. \A i \in 1..n, x \in WalkStates : step[<<i, x>>] = Visit(x, files[i], i, limits)
  OBVIOUS
<1>3. NoneRead \in WalkStates
  BY DEF NoneRead, WalkStates
<1> HIDE DEF step, n
<1>4. PICK s : Unfolds(s, n, WalkStates, NoneRead, step)
  BY <1>0, <1>1, <1>3, StepByStep
<1>5. s \in [0..n -> WalkStates] /\ s[0] = NoneRead /\ \A i \in 1..n : s[i] = step[<<i, s[i - 1]>>]
  BY <1>4 DEF Unfolds
<1>6. Walks(files, limits, s)
  <2>1. s = [i \in 0..n |-> s[i]]
    BY <1>5
  <2>2. \A i \in 0..n : s[i] = IF i = 0 THEN NoneRead ELSE Visit(s[i - 1], files[i], i, limits)
    <3> TAKE i \in 0..n
    <3>1. i # 0 => i \in 1..n /\ s[i - 1] \in WalkStates
      BY <1>0, <1>5
    <3> QED BY <1>2, <1>5, <3>1
  <2> QED BY <2>1, <2>2 DEF Walks, n
<1>7. PICK g : g = CHOOSE h : Walks(files, limits, h)
  OBVIOUS
<1>8. Walks(files, limits, g)
  BY <1>6, <1>7
<1>9. Walk(files, limits) = g[n]
  BY <1>7 DEF Walk, Walks, n
<1>10. \A i \in 0..n : g[i] = IF i = 0 THEN NoneRead ELSE Visit(g[i - 1], files[i], i, limits)
  BY <1>8 DEF Walks, n
<1> DEFINE holds == [i \in 0..n |-> WalkedUntil(g[i], files, limits, i)]
<1>11. holds \in [0..n -> BOOLEAN]
  BY DEF WalkedUntil
<1>12. holds[0]
  <2>1. 0 \in 0..n /\ g[0] = NoneRead
    BY <1>0, <1>10
  <2>2. TextFiles(files, 0) = {} /\ Cardinality({}) = 0
    BY FS_EmptySet DEF TextFiles
  <2>3. WalkedUntil(NoneRead, files, limits, 0)
    BY <1>3, <2>2 DEF WalkedUntil, NoneRead
  <2> QED BY <2>1, <2>3
<1>13. ASSUME NEW i \in 1..n, holds[i - 1]
       PROVE  holds[i]
  <2>1. i - 1 \in 0..n /\ i \in 0..n /\ i # 0 /\ i \in 1..Len(files)
    BY <1>0 DEF n
  <2>2. WalkedUntil(g[i - 1], files, limits, i - 1)
    BY <1>13, <2>1
  <2>3. g[i] = Visit(g[i - 1], files[i], i, limits)
    BY <1>10, <2>1
  <2>4. WalkedUntil(g[i], files, limits, i)
    BY <2>1, <2>2, <2>3, VisitFacts
  <2> QED BY <2>1, <2>4
<1> HIDE DEF holds
<1>14. n \in 0..n /\ holds[n]
  <2>1. \A i \in 0..n : holds[i]
    BY <1>0, <1>11, <1>12, <1>13, HoldsAll
  <2>2. n \in 0..n
    BY <1>0
  <2> QED BY <2>1, <2>2
<1> QED BY <1>9, <1>14 DEF holds, n

\* A tree is read within its budgets, and what is left out is noted.
LEMMA TruncationsAreNoted == IngestIInv => TruncationIsNoted
<1> SUFFICES ASSUME IngestIInv, job.kind = "tree"
             PROVE  TruncationIsNoted
  BY DEF TruncationIsNoted
<1>1. TreeJob
  BY DEF IngestIInv, TextJob, PageJob, IndexJob, RefreshJob
<1>2. PICK files \in Seq(RepoFile), limits \in [file : Nat, files : Nat, total : Nat] :
        job = [kind |-> "tree", files |-> files, limits |-> limits]
  BY <1>1 DEF TreeJob
<1>3. PICK walk : walk = Walk(files, limits)
  OBVIOUS
<1>4. WalkedUntil(walk, files, limits, Len(files))
  BY <1>3, WalkFinds
<1>5. DOMAIN files = 1..Len(files)
  OBVIOUS
<1>6. TextFiles(files, Len(files)) = {i \in DOMAIN files : files[i].kind = "text"}
  BY <1>5 DEF TextFiles
<1>7. walk = Walk(job.files, job.limits) /\ job.files = files /\ job.limits = limits
  BY <1>2, <1>3
<1> QED BY <1>4, <1>6, <1>7 DEF TruncationIsNoted, WalkedUntil, CoverageTruncated

-----------------------------------------------------------------------------
(* Ingestion: pages *)

FetchStates == [asked : Nat, outcome : {"document", "redirect", "refusal"}]

\* One attempt of the loop.
Attempt(st, chain, redirects, i) ==
    IF st.outcome # "redirect" \/ i > Attempts(redirects) \/ i > Len(chain) THEN st
    ELSE IF ~chain[i].public THEN [st EXCEPT !.outcome = "refusal"]
    ELSE [asked |-> i, outcome |-> chain[i].gives]

\* A document that can be reached by so many redirects.
Reaches(chain, redirects, n) ==
    /\ n <= redirects + 1 /\ chain[n].gives = "document"
    /\ \A i \in 1..n : chain[i].public
    /\ \A i \in 1..(n - 1) : chain[i].gives = "redirect"

\* What an attempt leaves: every address asked was public, the loop goes on as long as it was
\* redirected, and it ends at the document.
FollowedUntil(st, chain, redirects, i) ==
    /\ st \in FetchStates
    /\ st.asked <= i /\ st.asked <= Len(chain) /\ \A j \in 1..st.asked : chain[j].public
    /\ st.outcome = "redirect" => st.asked = i \/ i > Attempts(redirects) \/ i > Len(chain)
    /\ \A n \in DOMAIN chain : Reaches(chain, redirects, n) =>
            /\ i < n => st = [asked |-> i, outcome |-> "redirect"]
            /\ i >= n => st = [asked |-> n, outcome |-> "document"]

\* One attempt more.
LEMMA AttemptFacts ==
  ASSUME NEW chain \in Seq(Answer), NEW redirects \in Nat, NEW i \in Nat \ {0}, NEW st,
         FollowedUntil(st, chain, redirects, i - 1)
  PROVE  FollowedUntil(Attempt(st, chain, redirects, i), chain, redirects, i)
<1>1. Len(chain) \in Nat /\ DOMAIN chain = 1..Len(chain) /\ Attempts(redirects) = redirects + 1
  BY DEF Attempts
<1>2. PICK asked \in Nat, outcome \in {"document", "redirect", "refusal"} :
        st = [asked |-> asked, outcome |-> outcome]
  BY DEF FollowedUntil, FetchStates
<1>3. /\ asked <= i - 1 /\ asked <= Len(chain) /\ \A j \in 1..asked : chain[j].public
      /\ outcome = "redirect" => asked = i - 1 \/ i - 1 > redirects + 1 \/ i - 1 > Len(chain)
  BY <1>1, <1>2 DEF FollowedUntil
<1>4. ASSUME NEW n \in DOMAIN chain, Reaches(chain, redirects, n)
      PROVE  /\ i - 1 < n => asked = i - 1 /\ outcome = "redirect"
             /\ i - 1 >= n => asked = n /\ outcome = "document"
  BY <1>2, <1>4 DEF FollowedUntil
<1> DEFINE next == Attempt(st, chain, redirects, i)
<1>5. CASE outcome # "redirect" \/ i > redirects + 1 \/ i > Len(chain)
  <2>1. next = st
    BY <1>1, <1>2, <1>5 DEF Attempt
  <2>2. ASSUME NEW n \in DOMAIN chain, Reaches(chain, redirects, n)
        PROVE  /\ i < n => st = [asked |-> i, outcome |-> "redirect"]
               /\ i >= n => st = [asked |-> n, outcome |-> "document"]
    <3>1. n \in 1..Len(chain) /\ n <= redirects + 1
      BY <1>1, <2>2 DEF Reaches
    <3>2. i - 1 >= n
      BY <1>4, <1>5, <2>2, <3>1
    <3> QED BY <1>2, <1>4, <2>2, <3>1, <3>2
  <2>3. outcome = "redirect" => i > redirects + 1 \/ i > Len(chain)
    BY <1>5
  <2>4. asked <= i /\ st.asked = asked /\ st.outcome = outcome /\ st \in FetchStates
    BY <1>2, <1>3 DEF FetchStates
  <2> QED BY <1>1, <1>3, <2>1, <2>2, <2>3, <2>4 DEF FollowedUntil
<1>6. CASE outcome = "redirect" /\ i <= redirects + 1 /\ i <= Len(chain)
  <2>1. asked = i - 1 /\ i \in 1..Len(chain) /\ chain[i] \in Answer
    BY <1>1, <1>3, <1>6
  <2>2. chain[i].public \in BOOLEAN /\ chain[i].gives \in {"document", "redirect", "refusal"}
    BY <2>1 DEF Answer
  <2>3. CASE ~chain[i].public
    <3>1. next = [asked |-> asked, outcome |-> "refusal"]
      BY <1>1, <1>2, <1>6, <2>3 DEF Attempt
    <3>2. ASSUME NEW n \in DOMAIN chain, Reaches(chain, redirects, n)
          PROVE  FALSE
      <4>1. n \in 1..Len(chain) /\ i <= n
        BY <1>1, <1>4, <1>6, <3>2
      <4> QED BY <2>1, <2>3, <3>2, <4>1 DEF Reaches
    <3>3. next \in FetchStates /\ next.asked = asked /\ next.outcome = "refusal"
      BY <3>1 DEF FetchStates
    <3>4. asked <= i
      BY <1>3
    <3> HIDE DEF next
    <3>5. FollowedUntil(next, chain, redirects, i)
      BY <1>3, <3>2, <3>3, <3>4 DEF FollowedUntil
    <3> QED BY <3>5 DEF next
  <2>4. CASE chain[i].public
    <3>1. next = [asked |-> i, outcome |-> chain[i].gives]
      BY <1>1, <1>2, <1>6, <2>4 DEF Attempt
    <3>2. ASSUME NEW n \in DOMAIN chain, Reaches(chain, redirects, n)
          PROVE  /\ i < n => next = [asked |-> i, outcome |-> "redirect"]
                 /\ i >= n => next = [asked |-> n, outcome |-> "document"]
      <4>1. n \in 1..Len(chain) /\ i <= n
        BY <1>1, <1>4, <1>6, <3>2
      <4>2. i < n => chain[i].gives = "redirect"
        BY <2>1, <3>2, <4>1 DEF Reaches
      <4>3. i >= n => i = n /\ chain[i].gives = "document"
        BY <3>2, <4>1 DEF Reaches
      <4> QED BY <3>1, <4>2, <4>3
    <3>3. next \in FetchStates /\ next.asked = i
      BY <2>2, <3>1 DEF FetchStates
    <3>4. \A j \in 1..i : chain[j].public
      <4> TAKE j \in 1..i
      <4>1. j = i \/ j \in 1..asked
        BY <2>1
      <4> QED BY <1>3, <2>4, <4>1
    <3>5. i <= i /\ i <= Len(chain)
      BY <1>6
    <3> HIDE DEF next
    <3>6. FollowedUntil(next, chain, redirects, i)
      BY <3>2, <3>3, <3>4, <3>5 DEF FollowedUntil
    <3> QED BY <3>6 DEF next
  <2> QED BY <2>2, <2>3, <2>4
<1>7. \/ outcome # "redirect" \/ i > redirects + 1 \/ i > Len(chain)
      \/ outcome = "redirect" /\ i <= redirects + 1 /\ i <= Len(chain)
  BY <1>1
<1> QED BY <1>5, <1>6, <1>7

\* The loop, attempt by attempt.
Fetches(chain, redirects, g) ==
    g = [i \in 0..MaxHops |->
            IF i = 0 THEN [asked |-> 0, outcome |-> "redirect"]
            ELSE LET st == g[i - 1]
                 IN  IF st.outcome # "redirect" \/ i > Attempts(redirects) \/ i > Len(chain) THEN st
                     ELSE IF ~chain[i].public THEN [st EXCEPT !.outcome = "refusal"]
                     ELSE [asked |-> i, outcome |-> chain[i].gives]]

\* What a fetch has asked in the end.
LEMMA FetchFinds ==
  ASSUME NEW chain \in Seq(Answer), NEW redirects \in Nat
  PROVE  FollowedUntil(Fetch(chain, redirects), chain, redirects, MaxHops)
<1> DEFINE n == MaxHops
           first == [asked |-> 0, outcome |-> "redirect"]
           step == [p \in (1..n) \X FetchStates |-> Attempt(p[2], chain, redirects, p[1])]
<1>0. n \in Nat
  BY IngestConstants
<1>1. step \in Steps(n, FetchStates)
  <2>1. ASSUME NEW p \in (1..n) \X FetchStates
        PROVE  Attempt(p[2], chain, redirects, p[1]) \in FetchStates
    <3>1. PICK i \in 1..n : p[1] = i
      BY <2>1
    <3>2. PICK asked \in Nat, outcome \in {"document", "redirect", "refusal"} :
            p[2] = [asked |-> asked, outcome |-> outcome]
      BY <2>1 DEF FetchStates
    <3>3. \/ Attempt(p[2], chain, redirects, i) = p[2]
          \/ Attempt(p[2], chain, redirects, i) = [asked |-> asked, outcome |-> "refusal"]
          \/ /\ i <= Len(chain)
             /\ Attempt(p[2], chain, redirects, i) = [asked |-> i, outcome |-> chain[i].gives]
      BY <1>0, <3>2 DEF Attempt
    <3>4. i <= Len(chain) => chain[i].gives \in {"document", "redirect", "refusal"}
      <4>1. i <= Len(chain) => chain[i] \in Answer
        BY <1>0
      <4> QED BY <4>1 DEF Answer
    <3>5. i \in Nat /\ p[2] \in FetchStates
      BY <1>0, <2>1
    <3>6. Attempt(p[2], chain, redirects, i) \in FetchStates
      BY <3>3, <3>4, <3>5 DEF FetchStates
    <3> QED BY <3>1, <3>6
  <2> QED BY <2>1 DEF Steps
<1>2. \A i \in 1..n, x \in FetchStates : step[<<i, x>>] = Attempt(x, chain, redirects, i)
  OBVIOUS
<1>3. first \in FetchStates
  BY DEF FetchStates
<1> HIDE DEF step, n, first
<1>4. PICK s : Unfolds(s, n, FetchStates, first, step)
  BY <1>0, <1>1, <1>3, StepByStep
<1>5. s \in [0..n -> FetchStates] /\ s[0] = first /\ \A i \in 1..n : s[i] = step[<<i, s[i - 1]>>]
  BY <1>4 DEF Unfolds
<1>6. Fetches(chain, redirects, s)
  <2>1. s = [i \in 0..n |-> s[i]]
    BY <1>5
  <2>2. \A i \in 0..n : s[i] = IF i = 0 THEN first ELSE Attempt(s[i - 1], chain, redirects, i)
    <3> TAKE i \in 0..n
    <3>1. i # 0 => i \in 1..n /\ s[i - 1] \in FetchStates
      BY <1>0, <1>5
    <3> QED BY <1>2, <1>5, <3>1
  <2>3. s = [i \in 0..n |-> IF i = 0 THEN first ELSE Attempt(s[i - 1], chain, redirects, i)]
    BY <2>1, <2>2
  <2> QED BY <2>3 DEF Fetches, n, first, Attempt
<1>7. PICK g : g = CHOOSE h : Fetches(chain, redirects, h)
  OBVIOUS
<1>8. Fetches(chain, redirects, g)
  BY <1>6, <1>7
<1>9. Fetch(chain, redirects) = g[n]
  BY <1>7 DEF Fetch, Fetches, n
<1>10. g[0] = first /\ \A i \in 1..n : g[i] = Attempt(g[i - 1], chain, redirects, i)
  <2>1. 0 \in 0..n
    BY <1>0
  <2>2. g[0] = first
    BY <1>8, <2>1 DEF Fetches, n, first
  <2>3. ASSUME NEW i \in 1..n
        PROVE  g[i] = Attempt(g[i - 1], chain, redirects, i)
    <3>1. i \in 0..n /\ i # 0
      BY <1>0
    <3> QED BY <1>8, <3>1 DEF Fetches, n, Attempt
  <2> QED BY <2>2, <2>3
<1> DEFINE holds == [i \in 0..n |-> FollowedUntil(g[i], chain, redirects, i)]
<1>11. holds \in [0..n -> BOOLEAN]
  BY DEF FollowedUntil
<1>12. holds[0]
  <2>1. 0 \in 0..n /\ g[0] = first
    BY <1>0, <1>10
  <2>2. first.asked = 0 /\ first.outcome = "redirect" /\ 0 <= Len(chain) /\ 1..0 = {}
    BY DEF first
  <2>3. \A m \in DOMAIN chain : 0 < m /\ ~(0 >= m)
    OBVIOUS
  <2>4. FollowedUntil(first, chain, redirects, 0)
    <3>1. first = [asked |-> 0, outcome |-> "redirect"]
      BY DEF first
    <3> QED BY <1>3, <2>2, <2>3, <3>1 DEF FollowedUntil
  <2> QED BY <2>1, <2>4
<1>13. ASSUME NEW i \in 1..n, holds[i - 1]
       PROVE  holds[i]
  <2>1. i - 1 \in 0..n /\ i \in 0..n /\ i \in Nat \ {0}
    BY <1>0
  <2>2. FollowedUntil(g[i - 1], chain, redirects, i - 1)
    BY <1>13, <2>1
  <2>3. FollowedUntil(g[i], chain, redirects, i)
    BY <1>10, <2>1, <2>2, AttemptFacts
  <2> QED BY <2>1, <2>3
<1> HIDE DEF holds
<1>14. n \in 0..n /\ holds[n]
  <2>1. \A i \in 0..n : holds[i]
    BY <1>0, <1>11, <1>12, <1>13, HoldsAll
  <2>2. n \in 0..n
    BY <1>0
  <2> QED BY <2>1, <2>2
<1> QED BY <1>9, <1>14 DEF holds, n

\* No address is asked that was not found public, and a document within reach is fetched.
LEMMA FetchesFollow == IngestIInv => FetchFollows
<1> SUFFICES ASSUME IngestIInv, job.kind = "page"
             PROVE  FetchFollows
  BY DEF FetchFollows
<1>1. PageJob
  BY DEF IngestIInv, TextJob, TreeJob, IndexJob, RefreshJob
<1>2. PICK k \in 0..MaxHops : \E chain \in [1..k -> Answer], redirects \in Nat :
        job = [kind |-> "page", chain |-> chain, redirects |-> redirects]
  BY <1>1 DEF PageJob
<1>3. PICK chain \in [1..k -> Answer], redirects \in Nat :
        job = [kind |-> "page", chain |-> chain, redirects |-> redirects]
  BY <1>2
<1>4. chain \in Seq(Answer) /\ k \in Nat /\ DOMAIN chain = 1..k /\ k <= MaxHops /\ MaxHops \in Nat
  BY IngestConstants
<1>5. PICK fetch : fetch = Fetch(chain, redirects)
  OBVIOUS
<1>6. FollowedUntil(fetch, chain, redirects, MaxHops)
  BY <1>4, <1>5, FetchFinds
<1>7. \A i \in 1..fetch.asked : chain[i].public
  BY <1>6 DEF FollowedUntil
<1>8. ASSUME NEW n \in DOMAIN chain, Reaches(chain, redirects, n)
      PROVE  fetch = [asked |-> n, outcome |-> "document"]
  <2>1. MaxHops >= n
    BY <1>4
  <2> QED BY <1>6, <1>8, <2>1 DEF FollowedUntil
<1>9. fetch = Fetch(job.chain, job.redirects) /\ job.chain = chain /\ job.redirects = redirects
  BY <1>3, <1>5
<1> QED BY <1>7, <1>8, <1>9 DEF FetchFollows, Reaches

-----------------------------------------------------------------------------
(* Ingestion: texts *)

Letters == {"x", "s", "n"}

\* The lesser and the greater of two numbers.
LEMMA TwoFacts ==
  ASSUME NEW a \in Int, NEW b \in Int
  PROVE  /\ Min({a, b}) \in {a, b} /\ Min({a, b}) <= a /\ Min({a, b}) <= b
         /\ Max({a, b}) \in {a, b} /\ Max({a, b}) >= a /\ Max({a, b}) >= b
<1>1. \E x \in {a, b} : \A y \in {a, b} : x <= y
  BY a <= b \/ b <= a
<1>2. \E x \in {a, b} : \A y \in {a, b} : x >= y
  BY a <= b \/ b <= a
<1>3. Min({a, b}) \in {a, b} /\ \A y \in {a, b} : Min({a, b}) <= y
  BY <1>1 DEF Min
<1>4. Max({a, b}) \in {a, b} /\ \A y \in {a, b} : Max({a, b}) >= y
  BY <1>2 DEF Max
<1> QED BY <1>3, <1>4

\* The last of some places of a window.
LEMMA LastFacts ==
  ASSUME NEW n \in Nat, NEW S \in SUBSET (1..n), S # {}
  PROVE  Max(S) \in S /\ \A y \in S : Max(S) >= y
<1>1. S \in SUBSET Nat /\ IsFiniteSet(S)
  <2>1. IsFiniteSet(1..n)
    BY FS_Interval
  <2>2. IsFiniteSet(S)
    BY <2>1, FS_Subset
  <2> QED BY <2>2
<1>2. \E x \in S : \A y \in S : x >= y
  BY <1>1, GreatestOf
<1> QED BY <1>2 DEF Max

Separators == <<<<"n", "n">>, <<"n">>, <<"s">>>>

\* A cut is a place of its separator in the window, which ends in it too.
LEMMA CutFacts ==
  ASSUME NEW text \in Seq(Letters), NEW start \in 1..Len(text), NEW end \in start..Len(text),
         NEW max \in Nat \ {0}, NEW k \in Cuts(text, start, end, max)
  PROVE  /\ LastAt(text, start, end, Separators[k]) \in start..end
         /\ k = 1 => LastAt(text, start, end, Separators[k]) + 1 <= end
<1>1. PICK sep : sep = Separators[k]
  OBVIOUS
<1>2. k \in 1..3 /\ LastAt(text, start, end, sep) # 0
  BY <1>1 DEF Cuts, Separators
<1>3. PICK len \in {1, 2} : len = Len(sep) /\ (k = 1 => len = 2)
  <2>1. (k = 1 => Len(sep) = 2) /\ (k # 1 => Len(sep) = 1)
    BY <1>1, <1>2 DEF Separators
  <2> QED BY <2>1
<1>4. PICK at : at = {i \in start..(end - Len(sep) + 1) : \A j \in 1..Len(sep) : text[i + j - 1] = sep[j]}
  OBVIOUS
<1>5. at # {} /\ LastAt(text, start, end, sep) = Max(at)
  BY <1>2, <1>4 DEF LastAt
<1>6. start \in Nat \ {0} /\ end \in Nat /\ start <= end
  <2>1. Len(text) \in Nat
    OBVIOUS
  <2> QED BY <2>1
<1>7. \A i \in at : i \in start..(end - len + 1)
  BY <1>3, <1>4
<1>8. at \in SUBSET (1..end)
  <2> SUFFICES ASSUME NEW i \in at
               PROVE  i \in 1..end
    OBVIOUS
  <2>1. i \in start..(end - len + 1) /\ len >= 1 /\ len \in Nat
    BY <1>7
  <2>2. i \in Int /\ start <= i /\ i <= end - len + 1
    BY <1>6, <2>1
  <2> QED BY <1>6, <2>1, <2>2
<1>9. PICK last \in at : last = Max(at)
  BY <1>5, <1>6, <1>8, LastFacts
<1>10. last \in start..(end - len + 1)
  BY <1>7
<1>11. last \in start..end
  BY <1>3, <1>6, <1>10
<1>12. k = 1 => last + 1 <= end
  <2> SUFFICES ASSUME k = 1
               PROVE  last + 1 <= end
    OBVIOUS
  <2>1. last \in start..(end - 2 + 1)
    BY <1>3, <1>10
  <2> QED BY <1>6, <2>1
<1> QED BY <1>1, <1>5, <1>9, <1>11, <1>12

\* A window ends in the text, behind its beginning, and is no longer than allowed.
LEMMA WindowFacts ==
  ASSUME NEW text \in Seq(Letters), NEW start \in 1..Len(text), NEW max \in Nat \ {0}
  PROVE  /\ WindowEnd(text, start, max) \in start..Len(text)
         /\ WindowEnd(text, start, max) <= start + max - 1
<1>1. PICK end : end = Min({start + max - 1, Len(text)})
  OBVIOUS
<1>2. end \in start..Len(text) /\ end <= start + max - 1
  <2>1. start + max - 1 \in Int /\ Len(text) \in Int /\ start <= start + max - 1 /\ start <= Len(text)
    OBVIOUS
  <2>2. end \in {start + max - 1, Len(text)} /\ end <= start + max - 1 /\ end <= Len(text)
    BY <1>1, <2>1, TwoFacts
  <2> QED BY <2>1, <2>2
<1>3. PICK cuts : cuts = Cuts(text, start, end, max)
  OBVIOUS
<1>4. CASE end = Len(text) \/ cuts = {}
  <2>1. WindowEnd(text, start, max) = end
    BY <1>1, <1>3, <1>4 DEF WindowEnd
  <2> QED BY <1>2, <2>1
<1>5. CASE ~(end = Len(text) \/ cuts = {})
  <2>1. PICK best : best = Min(cuts)
    OBVIOUS
  <2>2. best \in cuts
    <3>1. cuts \in SUBSET Nat
      BY <1>3 DEF Cuts
    <3>2. \E x \in cuts : \A y \in cuts : x <= y
      BY <1>5, <3>1, SmallestOf
    <3> QED BY <2>1, <3>2 DEF Min
  <2>3. PICK last : last = LastAt(text, start, end, Separators[best])
    OBVIOUS
  <2>4. last \in start..end /\ (best = 1 => last + 1 <= end)
    BY <1>2, <1>3, <2>2, <2>3, CutFacts
  <2>5. WindowEnd(text, start, max) = last + (IF best = 1 THEN 1 ELSE 0)
    BY <1>1, <1>3, <1>5, <2>1, <2>3 DEF WindowEnd, Separators
  <2>6. WindowEnd(text, start, max) \in start..end
    BY <1>2, <2>4, <2>5
  <2> QED BY <1>2, <2>6
<1> QED BY <1>4, <1>5

\* The next window begins behind the beginning of one that does not end the text, and leaves
\* nothing out between them.
LEMMA NextStartFacts ==
  ASSUME NEW text \in Seq(Letters), NEW start \in 1..Len(text), NEW max \in Nat \ {0}, NEW overlap \in Nat,
         WindowEnd(text, start, max) # Len(text)
  PROVE  /\ NextStart(text, start, max, overlap) \in (start + 1)..Len(text)
         /\ NextStart(text, start, max, overlap) <= WindowEnd(text, start, max) + 1
<1>1. PICK end : end = WindowEnd(text, start, max)
  OBVIOUS
<1>2. end \in start..Len(text) /\ end # Len(text)
  BY <1>1, WindowFacts
<1>3. end + 1 - overlap \in Int /\ start + 1 \in Int
  BY <1>2
<1>4. PICK next : next = Max({end + 1 - overlap, start + 1})
  OBVIOUS
<1>5. next \in {end + 1 - overlap, start + 1} /\ next >= start + 1
  BY <1>3, <1>4, TwoFacts
<1>6. next = NextStart(text, start, max, overlap)
  BY <1>1, <1>4 DEF NextStart
<1>7. next <= end + 1 /\ next \in (start + 1)..Len(text)
  BY <1>2, <1>5
<1> QED BY <1>1, <1>6, <1>7

AllBlank(text) == \A j \in DOMAIN text : Blank(text[j])

\* The windows after so many steps: each begins behind the one before it, with nothing left
\* out between them, and they are as many as steps or end the text.
StartsUntil(s, text, max, i) ==
    /\ s \in Seq(1..Len(text))
    /\ AllBlank(text) => s = <<>>
    /\ ~AllBlank(text) =>
        /\ Len(s) > 0 /\ s[1] = 1
        /\ \A k \in 1..Len(s) : s[k] >= k
        /\ \A k \in 2..Len(s) : s[k] <= WindowEnd(text, s[k - 1], max) + 1
        /\ WindowEnd(text, s[Len(s)], max) = Len(text) \/ Len(s) = i + 1

NextWindow(s, text, max, overlap) ==
    IF s = <<>> \/ WindowEnd(text, s[Len(s)], max) = Len(text) THEN s
    ELSE Append(s, NextStart(text, s[Len(s)], max, overlap))

\* One window more.
LEMMA NextWindowType ==
  ASSUME NEW text \in Seq(Letters), NEW max \in Nat \ {0}, NEW overlap \in Nat, NEW s \in Seq(1..Len(text))
  PROVE  NextWindow(s, text, max, overlap) \in Seq(1..Len(text))
<1>1. CASE s = <<>> \/ WindowEnd(text, s[Len(s)], max) = Len(text)
  BY <1>1 DEF NextWindow
<1>2. CASE ~(s = <<>> \/ WindowEnd(text, s[Len(s)], max) = Len(text))
  <2>1. s[Len(s)] \in 1..Len(text)
    BY <1>2
  <2>2. PICK next : next = NextStart(text, s[Len(s)], max, overlap)
    OBVIOUS
  <2>3. next \in (s[Len(s)] + 1)..Len(text)
    BY <1>2, <2>1, <2>2, NextStartFacts
  <2>4. next \in 1..Len(text)
    BY <2>1, <2>3
  <2>5. NextWindow(s, text, max, overlap) = Append(s, next)
    BY <1>2, <2>2 DEF NextWindow
  <2> QED BY <2>4, <2>5
<1> QED BY <1>1, <1>2

\* It goes on where the last one ends.
LEMMA NextWindowFacts ==
  ASSUME NEW text \in Seq(Letters), NEW max \in Nat \ {0}, NEW overlap \in Nat, NEW i \in Nat \ {0}, NEW s,
         StartsUntil(s, text, max, i - 1)
  PROVE  StartsUntil(NextWindow(s, text, max, overlap), text, max, i)
<1>1. s \in Seq(1..Len(text)) /\ Len(s) \in Nat
  BY DEF StartsUntil
<1>2. CASE s = <<>> \/ WindowEnd(text, s[Len(s)], max) = Len(text)
  <2>1. NextWindow(s, text, max, overlap) = s
    BY <1>2 DEF NextWindow
  <2>2. s = <<>> => Len(s) = 0
    OBVIOUS
  <2> QED BY <1>2, <2>1, <2>2 DEF StartsUntil
<1>3. CASE ~(s = <<>> \/ WindowEnd(text, s[Len(s)], max) = Len(text))
  <2>0. /\ ~AllBlank(text) /\ Len(s) > 0 /\ s[1] = 1 /\ Len(s) = i
        /\ \A k \in 1..Len(s) : s[k] >= k
        /\ \A k \in 2..Len(s) : s[k] <= WindowEnd(text, s[k - 1], max) + 1
    BY <1>3 DEF StartsUntil
  <2>1. PICK last : last = s[Len(s)]
    OBVIOUS
  <2>2. last \in 1..Len(text) /\ last >= Len(s)
    BY <1>1, <2>0, <2>1
  <2>3. PICK next : next = NextStart(text, last, max, overlap)
    OBVIOUS
  <2>4. next \in (last + 1)..Len(text) /\ next <= WindowEnd(text, last, max) + 1
    BY <1>3, <2>1, <2>2, <2>3, NextStartFacts
  <2>5. PICK t : t = Append(s, next)
    OBVIOUS
  <2>6. /\ Len(t) = Len(s) + 1 /\ t[Len(s) + 1] = next
        /\ \A k \in 1..Len(s) : t[k] = s[k]
    BY <1>1, <2>5
  <2>7. NextWindow(s, text, max, overlap) = t
    BY <1>3, <2>1, <2>3, <2>5 DEF NextWindow
  <2>8. t \in Seq(1..Len(text))
    BY <1>1, <2>7, NextWindowType
  <2>9. ASSUME NEW k \in 1..Len(t)
        PROVE  t[k] >= k
    <3>1. CASE k \in 1..Len(s)
      BY <2>0, <2>6, <3>1
    <3>2. CASE k = Len(s) + 1
      BY <2>2, <2>4, <2>6, <3>2
    <3> QED BY <1>1, <2>6, <3>1, <3>2
  <2>10. ASSUME NEW k \in 2..Len(t)
         PROVE  t[k] <= WindowEnd(text, t[k - 1], max) + 1
    <3>1. CASE k \in 2..Len(s)
      <4>1. k \in 1..Len(s) /\ k - 1 \in 1..Len(s)
        BY <1>1, <3>1
      <4> QED BY <2>0, <2>6, <3>1, <4>1
    <3>2. CASE k = Len(s) + 1
      <4>1. t[k] = next /\ t[k - 1] = last
        BY <1>1, <2>0, <2>1, <2>6, <3>2
      <4> QED BY <2>4, <4>1
    <3> QED BY <1>1, <2>6, <3>1, <3>2
  <2>11. Len(t) > 0 /\ t[1] = 1 /\ Len(t) = i + 1
    BY <1>1, <2>0, <2>6
  <2> QED BY <2>0, <2>7, <2>8, <2>9, <2>10, <2>11 DEF StartsUntil
<1> QED BY <1>2, <1>3

\* The beginnings of the windows, step by step.
Begins(text, max, overlap, g) ==
    g = [i \in 0..Len(text) |->
            IF i = 0 THEN IF \A j \in DOMAIN text : Blank(text[j]) THEN <<>> ELSE <<1>>
            ELSE LET s == g[i - 1]
                 IN  IF s = <<>> \/ WindowEnd(text, s[Len(s)], max) = Len(text) THEN s
                     ELSE Append(s, NextStart(text, s[Len(s)], max, overlap))]

\* The first window is the first of any text that is not blank.
LEMMA FirstWindow ==
  ASSUME NEW text \in Seq(Letters), NEW max \in Nat \ {0}
  PROVE  StartsUntil(IF AllBlank(text) THEN <<>> ELSE <<1>>, text, max, 0)
<1>1. CASE AllBlank(text)
  BY <1>1 DEF StartsUntil
<1>2. CASE ~AllBlank(text)
  <2>1. Len(text) \in Nat /\ DOMAIN text = 1..Len(text) /\ DOMAIN text # {}
    BY <1>2 DEF AllBlank
  <2>2. 1 \in 1..Len(text)
    BY <2>1
  <2>3. PICK s : s = <<1>>
    OBVIOUS
  <2>4. s \in Seq(1..Len(text)) /\ Len(s) = 1 /\ s[1] = 1
    BY <2>2, <2>3
  <2>5. StartsUntil(s, text, max, 0)
    BY <1>2, <2>4 DEF StartsUntil
  <2> QED BY <1>2, <2>3, <2>5
<1> QED BY <1>1, <1>2

\* Where the windows of a text begin in the end.
LEMMA StartsFind ==
  ASSUME NEW text \in Seq(Letters), NEW max \in Nat \ {0}, NEW wanted \in Nat
  PROVE  StartsUntil(Starts(text, max, wanted), text, max, Len(text))
<1>1. PICK overlap : overlap = Min({wanted, max - 1})
  OBVIOUS
<1>2. overlap \in Nat
  <2>1. wanted \in Int /\ max - 1 \in Int /\ max - 1 \in Nat
    OBVIOUS
  <2>2. overlap \in {wanted, max - 1}
    BY <1>1, <2>1, TwoFacts
  <2> QED BY <2>1, <2>2
<1> DEFINE n == Len(text)
           first == IF AllBlank(text) THEN <<>> ELSE <<1>>
           X == Seq(1..Len(text))
           step == [p \in (1..n) \X X |-> NextWindow(p[2], text, max, overlap)]
<1>3. n \in Nat
  OBVIOUS
<1>4. step \in Steps(n, X)
  <2>1. ASSUME NEW p \in (1..n) \X X
        PROVE  NextWindow(p[2], text, max, overlap) \in X
    <3>1. p[2] \in X
      BY <2>1
    <3> QED BY <1>2, <3>1, NextWindowType
  <2> QED BY <2>1 DEF Steps
<1>5. \A i \in 1..n, x \in X : step[<<i, x>>] = NextWindow(x, text, max, overlap)
  OBVIOUS
<1>6. StartsUntil(first, text, max, 0)
  BY FirstWindow
<1>7. first \in X
  BY <1>6 DEF StartsUntil
<1> HIDE DEF step, n, first, X
<1>8. PICK s : Unfolds(s, n, X, first, step)
  BY <1>3, <1>4, <1>7, StepByStep
<1>9. s \in [0..n -> X] /\ s[0] = first /\ \A i \in 1..n : s[i] = step[<<i, s[i - 1]>>]
  BY <1>8 DEF Unfolds
<1>10. Begins(text, max, overlap, s)
  <2>1. s = [i \in 0..n |-> s[i]]
    BY <1>9
  <2>2. \A i \in 0..n : s[i] = IF i = 0 THEN first ELSE NextWindow(s[i - 1], text, max, overlap)
    <3> TAKE i \in 0..n
    <3>1. i # 0 => i \in 1..n /\ s[i - 1] \in X
      BY <1>3, <1>9
    <3> QED BY <1>5, <1>9, <3>1
  <2>3. s = [i \in 0..n |-> IF i = 0 THEN first ELSE NextWindow(s[i - 1], text, max, overlap)]
    BY <2>1, <2>2
  <2> QED BY <2>3 DEF Begins, NextWindow, AllBlank, n, first
<1>11. PICK g : g = CHOOSE h : Begins(text, max, overlap, h)
  OBVIOUS
<1>12. Begins(text, max, overlap, g)
  BY <1>10, <1>11
<1>13. Starts(text, max, wanted) = g[n]
  BY <1>1, <1>11 DEF Starts, Begins, n
<1>14. \A i \in 0..n : g[i] = IF i = 0 THEN first ELSE NextWindow(g[i - 1], text, max, overlap)
  BY <1>12 DEF Begins, NextWindow, AllBlank, n, first
<1> DEFINE holds == [i \in 0..n |-> StartsUntil(g[i], text, max, i)]
<1>15. holds \in [0..n -> BOOLEAN]
  BY DEF StartsUntil
<1>16. holds[0]
  <2>1. 0 \in 0..n /\ g[0] = first
    BY <1>3, <1>14
  <2> QED BY <1>6, <2>1
<1>17. ASSUME NEW i \in 1..n, holds[i - 1]
       PROVE  holds[i]
  <2>1. i - 1 \in 0..n /\ i \in 0..n /\ i # 0 /\ i \in Nat \ {0}
    BY <1>3
  <2>2. StartsUntil(g[i - 1], text, max, i - 1)
    BY <1>17, <2>1
  <2>3. g[i] = NextWindow(g[i - 1], text, max, overlap)
    BY <1>14, <2>1
  <2>4. StartsUntil(g[i], text, max, i)
    BY <1>2, <2>1, <2>2, <2>3, NextWindowFacts
  <2> QED BY <2>1, <2>4
<1> HIDE DEF holds
<1>18. n \in 0..n /\ holds[n]
  <2>1. \A i \in 0..n : holds[i]
    BY <1>3, <1>15, <1>16, <1>17, HoldsAll
  <2>2. n \in 0..n
    BY <1>3
  <2> QED BY <2>1, <2>2
<1> QED BY <1>13, <1>18 DEF holds, n

\* A letter is in the first window that does not end before it.
LEMMA LettersAreCovered ==
  ASSUME NEW text \in Seq(Letters), NEW max \in Nat \ {0}, NEW s, StartsUntil(s, text, max, Len(text)),
         NEW i \in DOMAIN text, ~Blank(text[i])
  PROVE  \E k \in DOMAIN s : i \in s[k]..WindowEnd(text, s[k], max)
<1>1. ~AllBlank(text)
  BY DEF AllBlank
<1>2. /\ s \in Seq(1..Len(text)) /\ Len(s) > 0 /\ s[1] = 1
      /\ \A k \in 1..Len(s) : s[k] >= k
      /\ \A k \in 2..Len(s) : s[k] <= WindowEnd(text, s[k - 1], max) + 1
      /\ WindowEnd(text, s[Len(s)], max) = Len(text) \/ Len(s) = Len(text) + 1
  BY <1>1 DEF StartsUntil
<1>3. /\ Len(s) \in Nat /\ DOMAIN s = 1..Len(s) /\ \A k \in 1..Len(s) : s[k] \in 1..Len(text)
      /\ Len(text) \in Nat /\ DOMAIN text = 1..Len(text)
  BY <1>2
<1>4. \A k \in 1..Len(s) : WindowEnd(text, s[k], max) \in s[k]..Len(text)
  BY <1>3, WindowFacts
<1>5. WindowEnd(text, s[Len(s)], max) = Len(text)
  <2> SUFFICES ASSUME Len(s) = Len(text) + 1
               PROVE  FALSE
    BY <1>2
  <2>1. Len(s) \in 1..Len(s)
    BY <1>2, <1>3
  <2>2. s[Len(s)] >= Len(s) /\ s[Len(s)] \in 1..Len(text)
    BY <1>2, <1>3, <2>1
  <2> QED BY <1>3, <2>2
<1> DEFINE K == {k \in 1..Len(s) : i <= WindowEnd(text, s[k], max)}
<1>6. PICK k \in K : \A j \in K : k <= j
  <2>1. Len(s) \in K
    BY <1>2, <1>3, <1>5
  <2>2. K \in SUBSET Nat /\ K # {}
    BY <2>1
  <2> HIDE DEF K
  <2> QED BY <2>2, SmallestOf
<1>7. k \in 1..Len(s) /\ i <= WindowEnd(text, s[k], max)
  BY <1>6
<1>8. s[k] <= i
  <2>1. CASE k = 1
    <3>1. i \in 1..Len(text) /\ s[k] = 1
      BY <1>2, <1>3, <2>1
    <3> QED BY <1>3, <3>1
  <2>2. CASE k # 1
    <3>1. k - 1 \in 1..Len(s) /\ k \in 2..Len(s) /\ ~(k <= k - 1)
      BY <1>3, <1>7, <2>2
    <3>2. k - 1 \notin K
      <4> HIDE DEF K
      <4> QED BY <1>6, <3>1
    <3>3. ~(i <= WindowEnd(text, s[k - 1], max))
      BY <3>1, <3>2
    <3>4. PICK end \in 1..Len(text) : end = WindowEnd(text, s[k - 1], max)
      <4>1. s[k - 1] \in 1..Len(text) /\ WindowEnd(text, s[k - 1], max) \in s[k - 1]..Len(text)
        BY <1>3, <1>4, <3>1
      <4>2. WindowEnd(text, s[k - 1], max) \in 1..Len(text)
        BY <1>3, <4>1
      <4> QED BY <4>2
    <3>5. PICK begin \in 1..Len(text) : begin = s[k]
      BY <1>3, <1>7
    <3>6. begin <= end + 1 /\ ~(i <= end) /\ i \in 1..Len(text)
      BY <1>2, <1>3, <3>1, <3>3, <3>4, <3>5
    <3>7. begin \in Int /\ end \in Int /\ i \in Int
      BY <1>3, <3>6
    <3>8. begin <= i
      BY <3>6, <3>7
    <3> QED BY <3>5, <3>8
  <2> QED BY <2>1, <2>2
<1>9. i \in s[k]..WindowEnd(text, s[k], max)
  <2>1. PICK end : end = WindowEnd(text, s[k], max)
    OBVIOUS
  <2>2. end \in s[k]..Len(text) /\ s[k] \in 1..Len(text) /\ i \in 1..Len(text)
    BY <1>3, <1>4, <1>7, <2>1
  <2>3. s[k] <= i /\ i <= end
    BY <1>7, <1>8, <2>1
  <2>4. i \in s[k]..end
    BY <1>3, <2>2, <2>3
  <2> QED BY <2>1, <2>4
<1> QED BY <1>3, <1>7, <1>9

\* A text is covered by its chunks, none of them longer than allowed.
LEMMA ChunksAreWhole == IngestIInv => ChunksCover
<1> SUFFICES ASSUME IngestIInv, job.kind = "text"
             PROVE  ChunksCover
  BY DEF ChunksCover
<1>1. TextJob
  BY DEF IngestIInv, TreeJob, PageJob, IndexJob, RefreshJob
<1>2. PICK text \in Seq(Letters), max \in Nat \ {0}, wanted \in Nat :
        job = [kind |-> "text", text |-> text, max |-> max, overlap |-> wanted]
  BY <1>1 DEF TextJob, Letters
<1>3. PICK s : s = Starts(text, max, wanted)
  OBVIOUS
<1>4. StartsUntil(s, text, max, Len(text))
  BY <1>3, StartsFind
<1>5. PICK windows : windows = {s[i]..WindowEnd(text, s[i], max) : i \in DOMAIN s}
  OBVIOUS
<1>6. PICK chunks : chunks = {w \in windows : \E i \in w : ~Blank(text[i])}
  OBVIOUS
<1>7. Chunks(text, max, wanted) = chunks
  BY <1>3, <1>5, <1>6 DEF Chunks
<1>8. ASSUME NEW i \in DOMAIN text, ~Blank(text[i])
      PROVE  \E c \in chunks : i \in c
  <2>1. PICK k \in DOMAIN s : i \in s[k]..WindowEnd(text, s[k], max)
    BY <1>4, <1>8, LettersAreCovered
  <2>2. PICK w : w = s[k]..WindowEnd(text, s[k], max)
    OBVIOUS
  <2>3. w \in windows /\ i \in w
    BY <1>5, <2>1, <2>2
  <2> QED BY <1>6, <1>8, <2>3
<1>9. ASSUME NEW c \in chunks
      PROVE  Cardinality(c) <= max
  <2>1. PICK k \in DOMAIN s : c = s[k]..WindowEnd(text, s[k], max)
    BY <1>5, <1>6
  <2>2. s \in Seq(1..Len(text)) /\ Len(text) \in Nat
    BY <1>4 DEF StartsUntil
  <2>3. s[k] \in 1..Len(text)
    BY <2>1, <2>2
  <2>4. PICK start \in 1..Len(text) : start = s[k]
    BY <2>3
  <2>5. PICK end \in start..Len(text) : end = WindowEnd(text, start, max) /\ end <= start + max - 1
    BY WindowFacts
  <2>6. start \in Int /\ end \in Int /\ start <= end
    BY <2>2
  <2>7. Cardinality(start..end) = end - start + 1
    BY <2>6, FS_Interval
  <2>8. c = start..end
    BY <2>1, <2>4, <2>5
  <2>9. end - start + 1 <= max
    BY <2>5, <2>6
  <2> QED BY <2>7, <2>8, <2>9
<1>10. job.text = text /\ Chunks(job.text, job.max, job.overlap) = chunks
  <2>1. job.text = text /\ job.max = max /\ job.overlap = wanted
    BY <1>2
  <2> QED BY <1>7, <2>1
<1>11. \A i \in DOMAIN job.text : ~Blank(job.text[i]) => \E c \in Chunks(job.text, job.max, job.overlap) : i \in c
  BY <1>8, <1>10
<1>12. \A c \in Chunks(job.text, job.max, job.overlap) : Cardinality(c) <= job.max
  BY <1>2, <1>9, <1>10
<1> QED BY <1>11, <1>12 DEF ChunksCover

-----------------------------------------------------------------------------
(* Ingestion: budgets *)

\* A total is the sum of all numbers of a sequence.
LEMMA TotalIsSum ==
  ASSUME NEW s \in Seq(Nat)
  PROVE  Total(s) = SumOf(s, Len(s)) /\ Total(s) \in Nat
<1>1. Total(s) = SumOf(s, Len(s))
  BY DEF Total, SumOf, SumsUp
<1>2. Len(s) \in Nat /\ Len(s) \in 0..Len(s) /\ \A i \in 1..Len(s) : s[i] \in Nat
  OBVIOUS
<1>3. SumOf(s, Len(s)) \in Nat
  BY <1>2, SumOfFacts
<1> QED BY <1>1, <1>3

\* One number more adds that number.
LEMMA TotalOfAppend ==
  ASSUME NEW s \in Seq(Nat), NEW x \in Nat
  PROVE  Append(s, x) \in Seq(Nat) /\ Total(Append(s, x)) = Total(s) + x
<1>1. PICK n \in Nat : n = Len(s)
  OBVIOUS
<1>2. PICK t : t = Append(s, x)
  OBVIOUS
<1>3. t \in Seq(Nat) /\ Len(t) = n + 1 /\ t[n + 1] = x /\ \A i \in 1..n : s[i] \in Nat /\ s[i] = t[i]
  BY <1>1, <1>2
<1>4. n + 1 \in Nat /\ n + 1 \in 1..(n + 1) /\ (n + 1) - 1 = n
  OBVIOUS
<1>5. \A i \in 1..(n + 1) : t[i] \in Nat
  BY <1>3
<1>6. SumOf(t, n + 1) = SumOf(t, n) + x
  <2>1. SumOf(t, n + 1) = SumOf(t, (n + 1) - 1) + t[n + 1]
    BY <1>4, <1>5, SumOfFacts
  <2> QED BY <1>3, <1>4, <2>1
<1>7. SumOf(s, n) = SumOf(t, n)
  BY <1>3, SumOfSame
<1>8. Total(s) = SumOf(s, n) /\ Total(t) = SumOf(t, n + 1)
  BY <1>1, <1>3, TotalIsSum
<1> QED BY <1>2, <1>3, <1>6, <1>7, <1>8

IndexStates(maxChunks, maxSymbols) ==
    {st \in [chunks : Seq(Nat), symbols : Seq(Nat), fullChunks : BOOLEAN, fullSymbols : BOOLEAN] :
        Total(st.chunks) <= maxChunks /\ Total(st.symbols) <= maxSymbols}

\* How many chunks and symbols a document adds, and which budgets it exhausts.
Adds(st, d, maxChunks, maxSymbols, x, y) ==
    /\ x \in Nat /\ x <= d.chunks /\ Total(st.chunks) + x <= maxChunks
    /\ y \in Nat /\ y <= d.symbols /\ Total(st.symbols) + y <= maxSymbols
    /\ st.fullChunks => x = 0
    /\ st.fullChunks \/ st.fullSymbols => y = 0
    /\ IndexDocument(st, d, maxChunks, maxSymbols)
         = [chunks |-> Append(st.chunks, x), symbols |-> Append(st.symbols, y),
            fullChunks |-> IF st.fullChunks THEN TRUE ELSE d.chunks > x,
            fullSymbols |-> IF st.fullChunks THEN st.fullSymbols ELSE st.fullSymbols \/ d.symbols > y]

\* What the budgets leave of a document.
LEMMA DocumentAdds ==
  ASSUME NEW maxChunks \in Nat, NEW maxSymbols \in Nat, NEW d \in Document,
         NEW st \in IndexStates(maxChunks, maxSymbols)
  PROVE  \E x, y : Adds(st, d, maxChunks, maxSymbols, x, y)
<1>1. PICK c \in Seq(Nat), s \in Seq(Nat), fc \in BOOLEAN, fs \in BOOLEAN :
        st = [chunks |-> c, symbols |-> s, fullChunks |-> fc, fullSymbols |-> fs]
  BY DEF IndexStates
<1>2. PICK tc \in Nat, ts \in Nat : tc = Total(c) /\ ts = Total(s)
  BY TotalIsSum
<1>3. tc <= maxChunks /\ ts <= maxSymbols
  BY <1>1, <1>2 DEF IndexStates
<1>4. PICK dc \in Nat, ds \in Nat : dc = d.chunks /\ ds = d.symbols
  BY DEF Document
<1>5. PICK mc : mc = Min({dc, maxChunks - tc})
  OBVIOUS
<1>6. PICK ms : ms = Min({ds, maxSymbols - ts})
  OBVIOUS
<1>7. mc \in Nat /\ mc <= dc /\ tc + mc <= maxChunks
  <2>1. PICK a \in Nat : a = maxChunks - tc
    BY <1>3
  <2>2. mc = Min({dc, a}) /\ dc \in Int /\ a \in Int
    BY <1>5, <2>1
  <2>3. mc \in {dc, a} /\ mc <= dc /\ mc <= a
    BY <2>2, TwoFacts
  <2> QED BY <1>3, <2>1, <2>3
<1>8. ms \in Nat /\ ms <= ds /\ ts + ms <= maxSymbols
  <2>1. PICK a \in Nat : a = maxSymbols - ts
    BY <1>3
  <2>2. ms = Min({ds, a}) /\ ds \in Int /\ a \in Int
    BY <1>6, <2>1
  <2>3. ms \in {ds, a} /\ ms <= ds /\ ms <= a
    BY <2>2, TwoFacts
  <2> QED BY <1>3, <2>1, <2>3
<1>9. PICK next : next = IndexDocument(st, d, maxChunks, maxSymbols)
  OBVIOUS
<1>10. CASE fc
  <2>1. next = [st EXCEPT !.chunks = Append(@, 0), !.symbols = Append(@, 0)]
    BY <1>1, <1>9, <1>10 DEF IndexDocument
  <2>2. next = [chunks |-> Append(c, 0), symbols |-> Append(s, 0), fullChunks |-> TRUE, fullSymbols |-> fs]
    BY <1>1, <1>10, <2>1
  <2>3. next = [chunks |-> Append(c, 0), symbols |-> Append(s, 0),
                fullChunks |-> IF fc THEN TRUE ELSE dc > 0,
                fullSymbols |-> IF fc THEN fs ELSE fs \/ ds > 0]
    BY <1>10, <2>2
  <2>4. 0 <= dc /\ tc + 0 <= maxChunks /\ 0 <= ds /\ ts + 0 <= maxSymbols
    BY <1>3
  <2>5. Adds(st, d, maxChunks, maxSymbols, 0, 0)
    BY <1>1, <1>2, <1>4, <1>9, <2>3, <2>4 DEF Adds
  <2> QED BY <2>5
<1>11. CASE ~fc
  <2>1. PICK y : y = IF fs THEN 0 ELSE ms
    OBVIOUS
  <2>2. next = [chunks |-> Append(c, mc), symbols |-> Append(s, y),
                fullChunks |-> dc > mc, fullSymbols |-> fs \/ ds > y]
    BY <1>1, <1>2, <1>4, <1>5, <1>6, <1>9, <1>11, <2>1 DEF IndexDocument
  <2>3. next = [chunks |-> Append(c, mc), symbols |-> Append(s, y),
                fullChunks |-> IF fc THEN TRUE ELSE dc > mc,
                fullSymbols |-> IF fc THEN fs ELSE fs \/ ds > y]
    BY <1>11, <2>2
  <2>4. y \in Nat /\ y <= ds /\ ts + y <= maxSymbols /\ (fs => y = 0)
    BY <1>3, <1>8, <2>1
  <2>5. Adds(st, d, maxChunks, maxSymbols, mc, y)
    BY <1>1, <1>2, <1>4, <1>7, <1>9, <1>11, <2>3, <2>4 DEF Adds
  <2> QED BY <2>5
<1> QED BY <1>10, <1>11

\* A document leaves a state within the budgets.
LEMMA IndexDocumentType ==
  ASSUME NEW maxChunks \in Nat, NEW maxSymbols \in Nat, NEW d \in Document,
         NEW st \in IndexStates(maxChunks, maxSymbols)
  PROVE  IndexDocument(st, d, maxChunks, maxSymbols) \in IndexStates(maxChunks, maxSymbols)
<1>1. PICK x, y : Adds(st, d, maxChunks, maxSymbols, x, y)
  BY DocumentAdds
<1>2. st.chunks \in Seq(Nat) /\ st.symbols \in Seq(Nat) /\ x \in Nat /\ y \in Nat
  BY <1>1 DEF Adds, IndexStates
<1>3. PICK c, s : c = Append(st.chunks, x) /\ s = Append(st.symbols, y)
  OBVIOUS
<1>4. /\ c \in Seq(Nat) /\ Total(c) = Total(st.chunks) + x
      /\ s \in Seq(Nat) /\ Total(s) = Total(st.symbols) + y
  BY <1>2, <1>3, TotalOfAppend
<1>5. Total(c) <= maxChunks /\ Total(s) <= maxSymbols
  BY <1>1, <1>4 DEF Adds
<1>6. PICK fc \in BOOLEAN, fs \in BOOLEAN :
        IndexDocument(st, d, maxChunks, maxSymbols)
          = [chunks |-> c, symbols |-> s, fullChunks |-> fc, fullSymbols |-> fs]
  <2>1. PICK fc : fc = IF st.fullChunks THEN TRUE ELSE d.chunks > x
    OBVIOUS
  <2>2. PICK fs : fs = IF st.fullChunks THEN st.fullSymbols ELSE st.fullSymbols \/ d.symbols > y
    OBVIOUS
  <2>3. st.fullChunks \in BOOLEAN /\ st.fullSymbols \in BOOLEAN
    BY DEF IndexStates
  <2>4. fc \in BOOLEAN /\ fs \in BOOLEAN
    <3>1. CASE st.fullChunks
      BY <2>1, <2>2, <2>3, <3>1
    <3>2. CASE ~st.fullChunks
      <4>1. fc = (d.chunks > x) /\ fs = (st.fullSymbols \/ d.symbols > y)
        BY <2>1, <2>2, <3>2
      <4> QED BY <4>1
    <3> QED BY <3>1, <3>2
  <2>5. IndexDocument(st, d, maxChunks, maxSymbols)
          = [chunks |-> c, symbols |-> s, fullChunks |-> fc, fullSymbols |-> fs]
    BY <1>1, <1>3, <2>1, <2>2 DEF Adds
  <2> QED BY <2>4, <2>5
<1> QED BY <1>4, <1>5, <1>6 DEF IndexStates

SymbolsOf(docs) == [k \in DOMAIN docs |-> docs[k].symbols]

\* The symbols of the first k documents.
SymbolsUntil(docs, k) == SumOf(SymbolsOf(docs), k)

\* What a document with so many symbols has of a total, after so many before it.
Share(own, total, before) ==
    IF total <= before THEN 0 ELSE IF total - before < own THEN total - before ELSE own

\* What the budgets leave of the first documents: the chunks and symbols of each, all of
\* them up to the one where a budget ends.
IndexedUntil(st, docs, maxChunks, maxSymbols, i) ==
    /\ st \in IndexStates(maxChunks, maxSymbols)
    /\ Len(st.chunks) = i /\ Len(st.symbols) = i
    /\ Total(st.symbols) <= SymbolsUntil(docs, i)
    /\ ~st.fullChunks /\ ~st.fullSymbols => Total(st.symbols) = SymbolsUntil(docs, i)
    /\ \A k \in 1..i : st.symbols[k] = Share(docs[k].symbols, Total(st.symbols), SymbolsUntil(docs, k - 1))
    /\ ~st.fullChunks => \A k \in 1..i : st.chunks[k] = docs[k].chunks
    /\ \A k \in 1..i : st.chunks[k] > 0 => \A j \in 1..(k - 1) : st.chunks[j] = docs[j].chunks
    /\ ~st.fullSymbols =>
        \A k \in 1..i : st.chunks[k] > 0 \/ ~st.fullChunks => st.symbols[k] = docs[k].symbols
    /\ st.fullChunks => \E k \in 1..i : st.chunks[k] < docs[k].chunks
    /\ st.fullSymbols => \E k \in 1..i : st.symbols[k] < docs[k].symbols

\* Sums of symbols.
LEMMA SymbolFacts ==
  ASSUME NEW docs \in Seq(Document)
  PROVE  /\ SymbolsUntil(docs, 0) = 0
         /\ \A i \in 1..Len(docs) : SymbolsUntil(docs, i) = SymbolsUntil(docs, i - 1) + docs[i].symbols
         /\ \A i \in 0..Len(docs) : SymbolsUntil(docs, i) \in Nat
         /\ \A i, j \in 0..Len(docs) : i <= j => SymbolsUntil(docs, i) <= SymbolsUntil(docs, j)
<1>1. PICK n \in Nat : n = Len(docs)
  OBVIOUS
<1>2. PICK s : s = SymbolsOf(docs)
  OBVIOUS
<1>3. \A i \in 1..n : s[i] = docs[i].symbols /\ s[i] \in Nat
  <2> TAKE i \in 1..n
  <2>1. docs[i] \in Document /\ i \in DOMAIN docs
    BY <1>1
  <2> QED BY <1>2, <2>1 DEF SymbolsOf, Document
<1>4. /\ SumOf(s, 0) = 0
      /\ \A i \in 1..n : SumOf(s, i) = SumOf(s, i - 1) + s[i]
      /\ \A i \in 0..n : SumOf(s, i) \in Nat
      /\ \A i, j \in 0..n : i <= j => SumOf(s, i) <= SumOf(s, j)
  BY <1>3, SumOfFacts
<1>5. \A i : SymbolsUntil(docs, i) = SumOf(s, i)
  BY <1>2 DEF SymbolsUntil
<1> QED BY <1>1, <1>3, <1>4, <1>5

\* One document more.
LEMMA IndexDocumentFacts ==
  ASSUME NEW docs \in Seq(Document), NEW maxChunks \in Nat, NEW maxSymbols \in Nat,
         NEW i \in 1..Len(docs), NEW st, IndexedUntil(st, docs, maxChunks, maxSymbols, i - 1)
  PROVE  IndexedUntil(IndexDocument(st, docs[i], maxChunks, maxSymbols), docs, maxChunks, maxSymbols, i)
<1>1. PICK d \in Document : d = docs[i]
  OBVIOUS
<1>2. st \in IndexStates(maxChunks, maxSymbols)
  BY DEF IndexedUntil
<1>3. PICK next \in IndexStates(maxChunks, maxSymbols) : next = IndexDocument(st, d, maxChunks, maxSymbols)
  BY <1>2, IndexDocumentType
<1>4. PICK x, y : Adds(st, d, maxChunks, maxSymbols, x, y)
  BY <1>2, DocumentAdds
<1>5. PICK dc \in Nat, ds \in Nat : dc = d.chunks /\ ds = d.symbols
  BY DEF Document
<1>6. /\ x \in Nat /\ x <= dc /\ y \in Nat /\ y <= ds
      /\ st.fullChunks => x = 0
      /\ st.fullChunks \/ st.fullSymbols => y = 0
  BY <1>4, <1>5 DEF Adds
<1>7. /\ next.chunks = Append(st.chunks, x) /\ next.symbols = Append(st.symbols, y)
      /\ next.fullChunks <=> st.fullChunks \/ dc > x
      /\ next.fullSymbols <=> st.fullSymbols \/ (~st.fullChunks /\ ds > y)
  <2>1. next = [chunks |-> Append(st.chunks, x), symbols |-> Append(st.symbols, y),
                fullChunks |-> IF st.fullChunks THEN TRUE ELSE dc > x,
                fullSymbols |-> IF st.fullChunks THEN st.fullSymbols ELSE st.fullSymbols \/ ds > y]
    BY <1>3, <1>4, <1>5 DEF Adds
  <2> QED BY <2>1
<1>8. /\ Len(st.chunks) = i - 1 /\ Len(st.symbols) = i - 1
      /\ st.chunks \in Seq(Nat) /\ st.symbols \in Seq(Nat)
  BY DEF IndexedUntil, IndexStates
<1>9. PICK c, s : c = next.chunks /\ s = next.symbols
  OBVIOUS
<1>10. /\ Len(c) = i /\ c[i] = x /\ \A k \in 1..(i - 1) : c[k] = st.chunks[k]
       /\ Len(s) = i /\ s[i] = y /\ \A k \in 1..(i - 1) : s[k] = st.symbols[k]
  BY <1>6, <1>7, <1>8, <1>9
<1>11. /\ i - 1 \in 0..Len(docs) /\ i \in 0..Len(docs) /\ i \in 1..i
       /\ \A k \in 1..i : k = i \/ k \in 1..(i - 1)
       /\ \A k \in 1..(i - 1) : k \in 1..i
  OBVIOUS
<1>12. PICK D : D = [k \in 0..Len(docs) |-> SymbolsUntil(docs, k)]
  OBVIOUS
<1>13. /\ \A k \in 0..Len(docs) : D[k] = SymbolsUntil(docs, k) /\ D[k] \in Nat
       /\ D[i] = D[i - 1] + ds
       /\ \A k \in 1..(i - 1) : D[k] = D[k - 1] + docs[k].symbols /\ D[k] <= D[i - 1]
  <2>1. \A k \in 0..Len(docs) : D[k] = SymbolsUntil(docs, k) /\ D[k] \in Nat
    BY <1>12, SymbolFacts
  <2>2. D[i] = D[i - 1] + ds
    BY <1>1, <1>5, <1>11, <2>1, SymbolFacts
  <2>3. ASSUME NEW k \in 1..(i - 1)
        PROVE  D[k] = D[k - 1] + docs[k].symbols /\ D[k] <= D[i - 1]
    <3>1. k \in 1..Len(docs) /\ k \in 0..Len(docs) /\ k - 1 \in 0..Len(docs) /\ k <= i - 1
      OBVIOUS
    <3> QED BY <1>11, <2>1, <3>1, SymbolFacts
  <2> QED BY <2>1, <2>2, <2>3
<1>14. PICK T \in Nat : T = Total(st.symbols)
  BY <1>8, TotalIsSum
<1>15. Total(next.symbols) = T + y
  BY <1>6, <1>7, <1>8, <1>14, TotalOfAppend
<1>16. /\ T <= D[i - 1]
       /\ ~st.fullChunks /\ ~st.fullSymbols => T = D[i - 1]
       /\ \A k \in 1..(i - 1) : st.symbols[k] = Share(docs[k].symbols, T, D[k - 1])
  <2>1. T <= D[i - 1] /\ (~st.fullChunks /\ ~st.fullSymbols => T = D[i - 1])
    BY <1>11, <1>13, <1>14 DEF IndexedUntil
  <2>2. ASSUME NEW k \in 1..(i - 1)
        PROVE  st.symbols[k] = Share(docs[k].symbols, T, D[k - 1])
    <3>1. k - 1 \in 0..Len(docs)
      OBVIOUS
    <3>2. st.symbols[k] = Share(docs[k].symbols, T, SymbolsUntil(docs, k - 1))
      BY <1>14 DEF IndexedUntil
    <3> QED BY <1>13, <3>1, <3>2
  <2> QED BY <2>1, <2>2
<1>17. T + y <= D[i] /\ (~next.fullChunks /\ ~next.fullSymbols => T + y = D[i])
  <2>1. D[i] \in Nat /\ D[i - 1] \in Nat
    BY <1>11, <1>13
  <2>2. T + y <= D[i]
    BY <1>6, <1>13, <1>16, <2>1
  <2>3. ASSUME ~next.fullChunks, ~next.fullSymbols
        PROVE  T + y = D[i]
    <3>1. ~st.fullChunks /\ ~st.fullSymbols /\ ~(ds > y)
      BY <1>7, <2>3
    <3>2. y = ds
      BY <1>6, <3>1
    <3> QED BY <1>13, <1>16, <3>1, <3>2
  <2> QED BY <2>2, <2>3
<1>18. ASSUME NEW k \in 1..i
       PROVE  s[k] = Share(docs[k].symbols, T + y, D[k - 1])
  <2>1. CASE k = i
    <3>1. D[i - 1] \in Nat
      BY <1>11, <1>13
    <3>2. CASE y = 0
      <4>1. T + y <= D[i - 1]
        BY <1>16, <3>2
      <4> QED BY <1>10, <2>1, <3>2, <4>1 DEF Share
    <3>3. CASE y # 0
      <4>1. T = D[i - 1]
        BY <1>6, <1>16, <3>3
      <4>2. ~(T + y <= D[i - 1]) /\ (T + y) - D[i - 1] = y
        BY <1>6, <3>1, <3>3, <4>1
      <4>3. Share(ds, T + y, D[i - 1]) = y
        BY <1>6, <4>2 DEF Share
      <4> QED BY <1>1, <1>5, <1>10, <2>1, <4>3
    <3> QED BY <3>2, <3>3
  <2>2. CASE k \in 1..(i - 1)
    <3>1. s[k] = Share(docs[k].symbols, T, D[k - 1])
      BY <1>10, <1>16, <2>2
    <3>2. CASE y = 0
      <4>1. T + y = T
        BY <3>2
      <4> QED BY <3>1, <4>1
    <3>3. CASE y # 0
      <4>1. T = D[i - 1]
        BY <1>6, <1>16, <3>3
      <4>2. k - 1 \in 0..Len(docs) /\ k \in 0..Len(docs) /\ k \in 1..Len(docs)
        BY <2>2
      <4>3. PICK own \in Nat : own = docs[k].symbols
        <5>1. docs[k] \in Document
          BY <4>2
        <5> QED BY <5>1 DEF Document
      <4>4. PICK b \in Nat, e \in Nat : b = D[k - 1] /\ e = D[k]
        BY <1>13, <4>2
      <4>5. e = b + own /\ e <= T
        BY <1>13, <2>2, <4>1, <4>3, <4>4
      <4>6. Share(own, T, b) = own /\ Share(own, T + y, b) = own
        BY <1>6, <4>5 DEF Share
      <4> QED BY <3>1, <4>3, <4>4, <4>6
    <3> QED BY <3>2, <3>3
  <2> QED BY <1>11, <2>1, <2>2
<1>19. ASSUME ~next.fullChunks, NEW k \in 1..i
       PROVE  c[k] = docs[k].chunks
  <2>1. ~st.fullChunks /\ x = dc
    BY <1>6, <1>7, <1>19
  <2>2. CASE k = i
    BY <1>1, <1>5, <1>10, <2>1, <2>2
  <2>3. CASE k \in 1..(i - 1)
    <3>1. st.chunks[k] = docs[k].chunks
      BY <2>1, <2>3 DEF IndexedUntil
    <3> QED BY <1>10, <2>3, <3>1
  <2> QED BY <1>11, <2>2, <2>3
<1>20. ASSUME NEW k \in 1..i, c[k] > 0, NEW j \in 1..(k - 1)
       PROVE  c[j] = docs[j].chunks
  <2>1. j \in 1..(i - 1)
    OBVIOUS
  <2>2. st.chunks[j] = docs[j].chunks
    <3>1. CASE k = i
      <4>1. ~st.fullChunks
        BY <1>6, <1>10, <1>20, <3>1
      <4> QED BY <2>1, <4>1 DEF IndexedUntil
    <3>2. CASE k \in 1..(i - 1)
      <4>1. st.chunks[k] > 0
        BY <1>10, <1>20, <3>2
      <4> QED BY <3>2, <4>1 DEF IndexedUntil
    <3> QED BY <1>11, <3>1, <3>2
  <2> QED BY <1>10, <2>1, <2>2
<1>21. ASSUME ~next.fullSymbols, NEW k \in 1..i, c[k] > 0 \/ ~next.fullChunks
       PROVE  s[k] = docs[k].symbols
  <2>1. ~st.fullSymbols
    BY <1>7, <1>21
  <2>2. CASE k = i
    <3>1. ~st.fullChunks
      BY <1>6, <1>7, <1>10, <1>21, <2>2
    <3>2. y = ds
      BY <1>6, <1>7, <1>21, <3>1
    <3> QED BY <1>1, <1>5, <1>10, <2>2, <3>2
  <2>3. CASE k \in 1..(i - 1)
    <3>1. st.chunks[k] > 0 \/ ~st.fullChunks
      BY <1>7, <1>10, <1>21, <2>3
    <3>2. st.symbols[k] = docs[k].symbols
      BY <2>1, <2>3, <3>1 DEF IndexedUntil
    <3> QED BY <1>10, <2>3, <3>2
  <2> QED BY <1>11, <2>2, <2>3
<1>22. ASSUME next.fullChunks
       PROVE  \E k \in 1..i : c[k] < docs[k].chunks
  <2>1. CASE st.fullChunks
    <3>1. PICK k \in 1..(i - 1) : st.chunks[k] < docs[k].chunks
      BY <2>1 DEF IndexedUntil
    <3> QED BY <1>10, <1>11, <3>1
  <2>2. CASE dc > x
    <3>1. c[i] < docs[i].chunks
      BY <1>1, <1>5, <1>6, <1>10, <2>2
    <3> QED BY <1>11, <3>1
  <2> QED BY <1>7, <1>22, <2>1, <2>2
<1>23. ASSUME next.fullSymbols
       PROVE  \E k \in 1..i : s[k] < docs[k].symbols
  <2>1. CASE st.fullSymbols
    <3>1. PICK k \in 1..(i - 1) : st.symbols[k] < docs[k].symbols
      BY <2>1 DEF IndexedUntil
    <3> QED BY <1>10, <1>11, <3>1
  <2>2. CASE ds > y
    <3>1. s[i] < docs[i].symbols
      BY <1>1, <1>5, <1>6, <1>10, <2>2
    <3> QED BY <1>11, <3>1
  <2> QED BY <1>7, <1>23, <2>1, <2>2
<1>24. \A k \in 1..i : s[k] = Share(docs[k].symbols, Total(next.symbols), SymbolsUntil(docs, k - 1))
  <2> TAKE k \in 1..i
  <2>1. k - 1 \in 0..Len(docs)
    OBVIOUS
  <2> QED BY <1>13, <1>15, <1>18, <2>1
<1>25. Total(next.symbols) <= SymbolsUntil(docs, i)
       /\ (~next.fullChunks /\ ~next.fullSymbols => Total(next.symbols) = SymbolsUntil(docs, i))
  BY <1>11, <1>13, <1>15, <1>17
<1>26. next = IndexDocument(st, docs[i], maxChunks, maxSymbols)
  BY <1>1, <1>3
<1>27. IndexedUntil(next, docs, maxChunks, maxSymbols, i)
  BY <1>9, <1>10, <1>19, <1>20, <1>21, <1>22, <1>23, <1>24, <1>25 DEF IndexedUntil
<1> QED BY <1>26, <1>27

\* The documents, one by one.
Indexes(docs, maxChunks, maxSymbols, g) ==
    g = [i \in 0..Len(docs) |->
            IF i = 0 THEN NoneIndexed
            ELSE IndexDocument(g[i - 1], docs[i], maxChunks, maxSymbols)]

\* Nothing is indexed at first.
LEMMA NoneIndexedFacts ==
  ASSUME NEW docs \in Seq(Document), NEW maxChunks \in Nat, NEW maxSymbols \in Nat
  PROVE  IndexedUntil(NoneIndexed, docs, maxChunks, maxSymbols, 0)
<1>1. PICK none \in Seq(Nat) : none = <<>>
  <2>1. <<>> \in Seq(Nat)
    OBVIOUS
  <2> QED BY <2>1
<1>2. Total(none) = 0
  <2>1. SumOf(none, 0) = 0
    <3>1. 0 \in Nat /\ \A i \in 1..0 : none[i] \in Nat
      OBVIOUS
    <3> QED BY <3>1, SumOfFacts
  <2>2. Len(none) = 0
    BY <1>1
  <2> QED BY <2>1, <2>2, TotalIsSum
<1>3. NoneIndexed = [chunks |-> none, symbols |-> none, fullChunks |-> FALSE, fullSymbols |-> FALSE]
  BY <1>1 DEF NoneIndexed
<1>4. NoneIndexed \in IndexStates(maxChunks, maxSymbols)
  BY <1>2, <1>3 DEF IndexStates
<1>5. SymbolsUntil(docs, 0) = 0 /\ Len(none) = 0
  BY <1>1, SymbolFacts
<1> QED BY <1>2, <1>3, <1>4, <1>5 DEF IndexedUntil

\* What the budgets leave in the end.
LEMMA IndexFinds ==
  ASSUME NEW docs \in Seq(Document), NEW maxChunks \in Nat, NEW maxSymbols \in Nat
  PROVE  IndexedUntil(IndexDocuments(docs, maxChunks, maxSymbols), docs, maxChunks, maxSymbols, Len(docs))
<1> DEFINE n == Len(docs)
           X == IndexStates(maxChunks, maxSymbols)
           step == [p \in (1..n) \X X |-> IndexDocument(p[2], docs[p[1]], maxChunks, maxSymbols)]
<1>0. n \in Nat /\ \A i \in 1..n : docs[i] \in Document
  OBVIOUS
<1>1. step \in Steps(n, X)
  <2>1. ASSUME NEW p \in (1..n) \X X
        PROVE  IndexDocument(p[2], docs[p[1]], maxChunks, maxSymbols) \in X
    <3>1. p[2] \in X /\ p[1] \in 1..n
      BY <2>1
    <3>2. docs[p[1]] \in Document
      BY <1>0, <3>1
    <3> QED BY <3>1, <3>2, IndexDocumentType
  <2> QED BY <2>1 DEF Steps
<1>2. \A i \in 1..n, x \in X : step[<<i, x>>] = IndexDocument(x, docs[i], maxChunks, maxSymbols)
  OBVIOUS
<1>3. IndexedUntil(NoneIndexed, docs, maxChunks, maxSymbols, 0)
  BY NoneIndexedFacts
<1>4. NoneIndexed \in X
  BY <1>3 DEF IndexedUntil
<1> HIDE DEF step, n, X
<1>5. PICK s : Unfolds(s, n, X, NoneIndexed, step)
  BY <1>0, <1>1, <1>4, StepByStep
<1>6. s \in [0..n -> X] /\ s[0] = NoneIndexed /\ \A i \in 1..n : s[i] = step[<<i, s[i - 1]>>]
  BY <1>5 DEF Unfolds
<1>7. Indexes(docs, maxChunks, maxSymbols, s)
  <2>1. s = [i \in 0..n |-> s[i]]
    BY <1>6
  <2>2. \A i \in 0..n : s[i] = IF i = 0 THEN NoneIndexed
                               ELSE IndexDocument(s[i - 1], docs[i], maxChunks, maxSymbols)
    <3> TAKE i \in 0..n
    <3>1. i # 0 => i \in 1..n /\ s[i - 1] \in X
      BY <1>0, <1>6
    <3> QED BY <1>2, <1>6, <3>1
  <2> QED BY <2>1, <2>2 DEF Indexes, n
<1>8. PICK g : g = CHOOSE h : Indexes(docs, maxChunks, maxSymbols, h)
  OBVIOUS
<1>9. Indexes(docs, maxChunks, maxSymbols, g)
  BY <1>7, <1>8
<1>10. IndexDocuments(docs, maxChunks, maxSymbols) = g[n]
  BY <1>8 DEF IndexDocuments, Indexes, n
<1>11. \A i \in 0..n : g[i] = IF i = 0 THEN NoneIndexed
                              ELSE IndexDocument(g[i - 1], docs[i], maxChunks, maxSymbols)
  BY <1>9 DEF Indexes, n
<1> DEFINE holds == [i \in 0..n |-> IndexedUntil(g[i], docs, maxChunks, maxSymbols, i)]
<1>12. holds \in [0..n -> BOOLEAN]
  BY DEF IndexedUntil
<1>13. holds[0]
  <2>1. 0 \in 0..n /\ g[0] = NoneIndexed
    BY <1>0, <1>11
  <2> QED BY <1>3, <2>1
<1>14. ASSUME NEW i \in 1..n, holds[i - 1]
       PROVE  holds[i]
  <2>1. i - 1 \in 0..n /\ i \in 0..n /\ i # 0 /\ i \in 1..Len(docs)
    BY <1>0 DEF n
  <2>2. IndexedUntil(g[i - 1], docs, maxChunks, maxSymbols, i - 1)
    BY <1>14, <2>1
  <2>3. g[i] = IndexDocument(g[i - 1], docs[i], maxChunks, maxSymbols)
    BY <1>11, <2>1
  <2>4. IndexedUntil(g[i], docs, maxChunks, maxSymbols, i)
    BY <2>1, <2>2, <2>3, IndexDocumentFacts
  <2> QED BY <2>1, <2>4
<1> HIDE DEF holds
<1>15. n \in 0..n /\ holds[n]
  <2>1. \A i \in 0..n : holds[i]
    BY <1>0, <1>12, <1>13, <1>14, HoldsAll
  <2>2. n \in 0..n
    BY <1>0
  <2> QED BY <2>1, <2>2
<1> QED BY <1>10, <1>15 DEF holds, n

SymbolsRead(docs, st) == [i \in DOMAIN docs |-> IF i \in Stored(docs, st) THEN docs[i].symbols ELSE 0]

\* Before a stored file the graph counts the symbols of all documents: one that is not
\* stored has no chunk and therefore no symbol.
LEMMA ReadBefore ==
  ASSUME NEW docs \in Seq(Document), NEW maxChunks \in Nat, NEW maxSymbols \in Nat, NEW st,
         IndexedUntil(st, docs, maxChunks, maxSymbols, Len(docs)), NEW i \in Stored(docs, st)
  PROVE  Total(SubSeq(SymbolsRead(docs, st), 1, i - 1)) = SymbolsUntil(docs, i - 1)
<1>1. PICK n \in Nat : n = Len(docs)
  OBVIOUS
<1>2. i \in 1..n /\ DOMAIN docs = 1..n
  BY <1>1 DEF Stored
<1>3. \A j \in 1..n : docs[j].symbols \in Nat /\ (docs[j].chunks = 0 => docs[j].symbols = 0)
  <2> TAKE j \in 1..n
  <2>1. docs[j] \in Document
    BY <1>1
  <2> QED BY <2>1 DEF Document
<1>4. PICK read : read = SymbolsRead(docs, st)
  OBVIOUS
<1>5. read \in Seq(Nat) /\ Len(read) = n /\ \A j \in 1..n : read[j] = IF j \in Stored(docs, st) THEN docs[j].symbols ELSE 0
  <2>1. read \in [1..n -> Nat]
    BY <1>2, <1>3, <1>4 DEF SymbolsRead
  <2> QED BY <1>2, <1>4, <2>1 DEF SymbolsRead
<1>6. PICK k \in Nat : k = i - 1
  BY <1>2
<1>7. PICK front : front = SubSeq(read, 1, k)
  OBVIOUS
<1>8. k <= n /\ \A j \in 1..k : j \in 1..n
  BY <1>2, <1>6
<1>9. front \in Seq(Nat) /\ Len(front) = k /\ \A j \in 1..k : front[j] = read[j]
  BY <1>5, <1>6, <1>7, <1>8
<1>10. PICK s : s = SymbolsOf(docs)
  OBVIOUS
<1>11. \A j \in 1..n : s[j] = docs[j].symbols
  BY <1>2, <1>10 DEF SymbolsOf
<1>12. ASSUME NEW j \in 1..k
       PROVE  read[j] = docs[j].symbols
  <2>1. CASE j \in Stored(docs, st)
    BY <1>5, <1>8, <2>1
  <2>2. CASE j \notin Stored(docs, st)
    <3>1. j \in 1..n
      BY <1>8
    <3>2. st.fullChunks /\ ~(st.chunks[j] > 0)
      BY <1>2, <2>2, <3>1 DEF Stored
    <3>3. st.chunks[i] > 0
      BY <3>2 DEF Stored
    <3>4. st.chunks[j] = docs[j].chunks
      <4>1. j \in 1..(i - 1)
        BY <1>6
      <4> QED BY <1>1, <1>2, <3>3, <4>1 DEF IndexedUntil
    <3>5. docs[j].chunks = 0
      <4>1. docs[j] \in Document
        BY <1>1, <3>1
      <4>2. docs[j].chunks \in Nat
        BY <4>1 DEF Document
      <4> QED BY <3>2, <3>4, <4>2
    <3> QED BY <1>3, <1>5, <2>2, <3>1, <3>5
  <2> QED BY <2>1, <2>2
<1>13. \A j \in 1..k : front[j] \in Nat /\ front[j] = s[j]
  BY <1>3, <1>8, <1>9, <1>11, <1>12
<1>14. SumOf(front, k) = SumOf(s, k)
  BY <1>13, SumOfSame
<1>15. Total(front) = SumOf(front, k)
  BY <1>9, TotalIsSum
<1>16. SymbolsUntil(docs, k) = SumOf(s, k)
  BY <1>10 DEF SymbolsUntil
<1> QED BY <1>4, <1>6, <1>7, <1>14, <1>15, <1>16

\* The graph has the symbols indexed of a stored file.
LEMMA GraphHasIndexed ==
  ASSUME NEW docs \in Seq(Document), NEW maxChunks \in Nat, NEW maxSymbols \in Nat, NEW st,
         IndexedUntil(st, docs, maxChunks, maxSymbols, Len(docs)), NEW i \in Stored(docs, st)
  PROVE  GraphSymbols(docs, st)[i] = st.symbols[i]
<1>1. i \in 1..Len(docs)
  BY DEF Stored
<1>2. PICK own \in Nat : own = docs[i].symbols
  <2>1. docs[i] \in Document
    BY <1>1
  <2> QED BY <2>1 DEF Document
<1>3. PICK before \in Nat : before = SymbolsUntil(docs, i - 1)
  <2>1. i - 1 \in 0..Len(docs)
    BY <1>1
  <2> QED BY <2>1, SymbolFacts
<1>4. PICK total \in Nat : total = Total(st.symbols)
  <2>1. st.symbols \in Seq(Nat)
    BY DEF IndexedUntil, IndexStates
  <2> QED BY <2>1, TotalIsSum
<1>5. PICK left : left = IF total > before THEN total - before ELSE 0
  OBVIOUS
<1>6. Total(SubSeq(SymbolsRead(docs, st), 1, i - 1)) = before
  BY <1>3, ReadBefore
<1>7. GraphSymbols(docs, st)[i] = IF st.fullSymbols THEN Min({own, left}) ELSE own
  BY <1>2, <1>4, <1>5, <1>6 DEF GraphSymbols, SymbolsRead
<1>8. st.symbols[i] = Share(own, total, before)
  BY <1>1, <1>2, <1>3, <1>4 DEF IndexedUntil
<1>9. CASE st.fullSymbols
  <2>1. left \in Int /\ own \in Int
    BY <1>5
  <2>2. Min({own, left}) \in {own, left} /\ Min({own, left}) <= own /\ Min({own, left}) <= left
    BY <2>1, TwoFacts
  <2>3. PICK least : least = Min({own, left})
    OBVIOUS
  <2>4. Share(own, total, before) = least
    <3>1. least \in {own, left} /\ least <= own /\ least <= left
      BY <2>2, <2>3
    <3> QED BY <1>5, <3>1 DEF Share
  <2> QED BY <1>7, <1>8, <1>9, <2>3, <2>4
<1>10. CASE ~st.fullSymbols
  <2>1. st.chunks[i] > 0 \/ ~st.fullChunks
    BY DEF Stored
  <2>2. st.symbols[i] = own
    BY <1>1, <1>2, <1>10, <2>1 DEF IndexedUntil
  <2> QED BY <1>7, <1>10, <2>2
<1> QED BY <1>9, <1>10

\* What the budgets cut off is cut off of files, chunks, symbols and graph alike.
LEMMA IndexesAgree == IngestIInv => IndexAgrees
<1> SUFFICES ASSUME IngestIInv, job.kind = "index"
             PROVE  IndexAgrees
  BY DEF IndexAgrees
<1>1. IndexJob
  BY DEF IngestIInv, TextJob, TreeJob, PageJob, RefreshJob
<1>2. PICK docs \in Seq(Document), maxChunks \in Nat, maxSymbols \in Nat :
        job = [kind |-> "index", docs |-> docs, maxChunks |-> maxChunks, maxSymbols |-> maxSymbols]
  BY <1>1 DEF IndexJob
<1>3. PICK st : st = IndexDocuments(docs, maxChunks, maxSymbols)
  OBVIOUS
<1>4. IndexedUntil(st, docs, maxChunks, maxSymbols, Len(docs))
  BY <1>3, IndexFinds
<1>5. job.docs = docs /\ job.maxChunks = maxChunks /\ job.maxSymbols = maxSymbols
  BY <1>2
<1>6. DOMAIN docs = 1..Len(docs)
  OBVIOUS
<1>7. Total(st.chunks) <= maxChunks /\ Total(st.symbols) <= maxSymbols
  BY <1>4 DEF IndexedUntil, IndexStates
<1>8. \A i \in DOMAIN docs : st.chunks[i] > 0 => i \in Stored(docs, st)
  BY DEF Stored
<1>9. ASSUME NEW i \in Stored(docs, st)
      PROVE  GraphSymbols(docs, st)[i] = st.symbols[i]
  BY <1>4, GraphHasIndexed
<1>10. ASSUME BudgetWarned(st)
       PROVE  \E i \in DOMAIN docs : st.chunks[i] < docs[i].chunks \/ st.symbols[i] < docs[i].symbols
  BY <1>4, <1>6, <1>10 DEF BudgetWarned, IndexedUntil
<1>11. ASSUME ~BudgetWarned(st), NEW i \in DOMAIN docs
       PROVE  ~(\/ st.chunks[i] < docs[i].chunks
                \/ st.symbols[i] < docs[i].symbols
                \/ i \notin Stored(docs, st))
  <2>1. ~st.fullChunks /\ ~st.fullSymbols
    BY <1>11 DEF BudgetWarned
  <2>2. st.chunks[i] = docs[i].chunks /\ st.symbols[i] = docs[i].symbols
    BY <1>4, <1>6, <2>1 DEF IndexedUntil
  <2>3. docs[i].chunks \in Nat /\ docs[i].symbols \in Nat
    <3>1. docs[i] \in Document
      BY <1>6
    <3> QED BY <3>1 DEF Document
  <2>4. i \in Stored(docs, st)
    BY <2>1 DEF Stored
  <2> QED BY <2>2, <2>3, <2>4
<1>12. BudgetWarned(st) <=>
         \E i \in DOMAIN docs :
            \/ st.chunks[i] < docs[i].chunks \/ st.symbols[i] < docs[i].symbols
            \/ i \notin Stored(docs, st)
  <2>1. CASE BudgetWarned(st)
    BY <1>10, <2>1
  <2>2. CASE ~BudgetWarned(st)
    BY <1>11, <2>2
  <2> QED BY <2>1, <2>2
<1> QED BY <1>3, <1>5, <1>7, <1>8, <1>9, <1>12 DEF IndexAgrees

\* What is indexed is what the source holds but for what is noted as cut off: for any text
\* and window, clone and limits, chain of redirects, documents and budgets, and any
\* sequence of refreshes.
THEOREM IndexFaithful == IngestSpec => []IndexIsFaithful
<1>1. IngestIInv => IndexIsFaithful
  BY ChunksAreWhole, TruncationsAreNoted, FetchesFollow, IndexesAgree, SnapshotsAreCurrent DEF IndexIsFaithful
<1> QED BY <1>1, IngestInvariance, PTL

-----------------------------------------------------------------------------
(* Bundles: archives *)

\* The name without some components, component by component.
Dropped(name, dropped, g) ==
    g = [i \in 0..Len(name) |->
            IF i = 0 THEN <<>>
            ELSE IF name[i] \in dropped THEN g[i - 1] ELSE Append(g[i - 1], name[i])]

\* What is left of a name holds nothing that was to go.
LEMMA WithoutFacts ==
  ASSUME NEW S, NEW name \in Seq(S), NEW dropped
  PROVE  Without(name, dropped) \in Seq(S \ dropped)
<1> DEFINE n == Len(name)
           X == Seq(S \ dropped)
           Next(x, c) == IF c \in dropped THEN x ELSE Append(x, c)
           step == [p \in (1..n) \X X |-> Next(p[2], name[p[1]])]
<1>0. n \in Nat /\ \A i \in 1..n : name[i] \in S
  OBVIOUS
<1>1. \A x \in X, c \in S : Next(x, c) \in X
  OBVIOUS
<1>2. <<>> \in X
  OBVIOUS
<1> HIDE DEF X, n
<1>3. step \in Steps(n, X)
  <2>1. ASSUME NEW p \in (1..n) \X X
        PROVE  Next(p[2], name[p[1]]) \in X
    <3>1. p[2] \in X /\ name[p[1]] \in S
      BY <1>0, <2>1
    <3> HIDE DEF Next
    <3> QED BY <1>1, <3>1
  <2> HIDE DEF Next
  <2> QED BY <2>1 DEF Steps
<1>4. \A i \in 1..n, x \in X : step[<<i, x>>] = Next(x, name[i])
  OBVIOUS
<1> HIDE DEF step
<1>5. PICK s : Unfolds(s, n, X, <<>>, step)
  BY <1>0, <1>2, <1>3, StepByStep
<1>6. s \in [0..n -> X] /\ s[0] = <<>> /\ \A i \in 1..n : s[i] = step[<<i, s[i - 1]>>]
  BY <1>5 DEF Unfolds
<1>7. Dropped(name, dropped, s)
  <2>1. s = [i \in 0..n |-> s[i]]
    BY <1>6
  <2>2. \A i \in 0..n : s[i] = IF i = 0 THEN <<>> ELSE Next(s[i - 1], name[i])
    <3> TAKE i \in 0..n
    <3>1. i # 0 => i \in 1..n /\ s[i - 1] \in X
      BY <1>0, <1>6
    <3> HIDE DEF Next
    <3> QED BY <1>4, <1>6, <3>1
  <2>3. s = [i \in 0..n |-> IF i = 0 THEN <<>> ELSE Next(s[i - 1], name[i])]
    <3> HIDE DEF Next
    <3> QED BY <2>1, <2>2
  <2> QED BY <2>3 DEF Dropped, n
<1>8. PICK g : g = CHOOSE h : Dropped(name, dropped, h)
  OBVIOUS
<1>9. Dropped(name, dropped, g)
  BY <1>7, <1>8
<1>10. Without(name, dropped) = g[n]
  BY <1>8 DEF Without, Dropped, n
<1>11. \A i \in 0..n : g[i] = IF i = 0 THEN <<>> ELSE Next(g[i - 1], name[i])
  BY <1>9 DEF Dropped, n
<1> HIDE DEF Next
<1> DEFINE holds == [i \in 0..n |-> g[i] \in X]
<1>12. holds \in [0..n -> BOOLEAN]
  OBVIOUS
<1>13. holds[0]
  <2>1. 0 \in 0..n /\ g[0] = <<>>
    BY <1>0, <1>11
  <2> QED BY <1>2, <2>1
<1>14. ASSUME NEW i \in 1..n, holds[i - 1]
       PROVE  holds[i]
  <2>1. i - 1 \in 0..n /\ i \in 0..n /\ i # 0 /\ name[i] \in S
    BY <1>0
  <2>2. g[i - 1] \in X
    BY <1>14, <2>1
  <2>3. g[i] = Next(g[i - 1], name[i])
    BY <1>11, <2>1
  <2>4. g[i] \in X
    BY <1>1, <2>1, <2>2, <2>3
  <2> QED BY <2>1, <2>4
<1> HIDE DEF holds
<1>15. n \in 0..n /\ holds[n]
  <2>1. \A i \in 0..n : holds[i]
    BY <1>0, <1>12, <1>13, <1>14, HoldsAll
  <2>2. n \in 0..n
    BY <1>0
  <2> QED BY <2>1, <2>2
<1>16. g[n] \in X
  BY <1>15 DEF holds
<1> QED BY <1>10, <1>16 DEF X

EntryShape == [name : Name, type : {"file", "link"}, size : Nat, content : {"text", "binary", "archive"}]

\* A place below the sandbox.
Places == Seq({"a", "b"})

\* An entry that is not refused lands at a place of its own below the sandbox.
LEMMA EntryLands ==
  ASSUME NEW entry \in EntryShape, ~EntryRefused(entry)
  PROVE  Normalized(entry.name) \in Places /\ Normalized(entry.name) # <<>>
<1>1. entry.name \in Seq(Component)
  <2>1. PICK n \in 1..3 : entry.name \in [1..n -> Component]
    BY DEF EntryShape, Name
  <2>2. n \in Nat
    BY <2>1
  <2> QED BY <2>1, <2>2
<1>2. PICK name \in Seq(Component) : name = entry.name
  BY <1>1
<1>3. ~PathRefused(name)
  BY <1>2 DEF EntryRefused
<1>4. Normalized(name) # <<>> /\ \A i \in DOMAIN name : name[i] # "up"
  BY <1>3 DEF PathRefused
<1>5. name \in Seq(Component \ {"up"})
  BY <1>4
<1>6. Normalized(name) \in Seq((Component \ {"up"}) \ {"here", "none"})
  BY <1>5, WithoutFacts DEF Normalized
<1>7. (Component \ {"up"}) \ {"here", "none"} = {"a", "b"}
  BY DEF Component
<1> QED BY <1>2, <1>4, <1>6, <1>7 DEF Places

\* What is known of the archive that is unpacked.
AcceptedZip(zip) ==
    /\ zip \in Seq(EntryShape)
    /\ \A i \in 1..Len(zip) : ~EntryRefused(zip[i])
    /\ \A i, j \in FileEntries(zip) : i # j => ~Conflict(Normalized(zip[i].name), Normalized(zip[j].name))
    /\ Cardinality(FileEntries(zip)) <= MaxFileCount
    /\ Bytes(FileSizes(zip)) <= MaxTotalBytes

RowShape == [path : Places, status : {"unsupported", "skipped", "pending"}]
Unpacking == [rows : Seq(RowShape), disk : SUBSET Places, count : Nat, bytes : Nat]

FilesUntil(zip, i) == {j \in 1..i : EntryType(zip[j]) = "file"}

PathsOf(rows) == {rows[k].path : k \in DOMAIN rows}

\* After the first i entries: a row of each file, and on disk each that is not too large.
UnpackedUntil(st, zip, i) ==
    /\ st \in Unpacking
    /\ PathsOf(st.rows) = {Normalized(zip[j].name) : j \in FilesUntil(zip, i)}
    /\ Cardinality(PathsOf(st.rows)) = Cardinality(FilesUntil(zip, i)) /\ IsFiniteSet(PathsOf(st.rows))
    /\ st.disk \subseteq PathsOf(st.rows) /\ IsFiniteSet(st.disk) /\ Cardinality(st.disk) = st.count
    /\ st.count <= Cardinality(FilesUntil(zip, i))
    /\ st.bytes <= SumOf(FileSizes(zip), i)
    /\ \A j \in FilesUntil(zip, i) :
        zip[j].size <= MaxFileBytes /\ zip[j].content # "archive" => Normalized(zip[j].name) \in st.disk

\* Files of an archive are counted one by one.
LEMMA FilesCount ==
  ASSUME NEW zip, NEW i \in Nat \ {0}
  PROVE  /\ IsFiniteSet(FilesUntil(zip, i)) /\ Cardinality(FilesUntil(zip, i)) \in Nat
         /\ IsFiniteSet(FilesUntil(zip, i - 1)) /\ Cardinality(FilesUntil(zip, i - 1)) \in Nat
         /\ EntryType(zip[i]) = "file" =>
              /\ FilesUntil(zip, i) = FilesUntil(zip, i - 1) \cup {i}
              /\ Cardinality(FilesUntil(zip, i)) = Cardinality(FilesUntil(zip, i - 1)) + 1
         /\ EntryType(zip[i]) # "file" => FilesUntil(zip, i) = FilesUntil(zip, i - 1)
<1>1. ASSUME NEW k \in Nat
      PROVE  IsFiniteSet(FilesUntil(zip, k)) /\ Cardinality(FilesUntil(zip, k)) \in Nat
  <2>1. IsFiniteSet(1..k)
    <3>1. 1 \in Int /\ k \in Int
      OBVIOUS
    <3> QED BY <3>1, FS_Interval
  <2>2. FilesUntil(zip, k) \subseteq 1..k
    BY DEF FilesUntil
  <2> QED BY <2>1, <2>2, FS_Subset, FS_CardinalityType
<1>2. i - 1 \in Nat
  OBVIOUS
<1>3. \A j : j \in 1..i <=> j \in 1..(i - 1) \/ j = i
  OBVIOUS
<1>4. ASSUME EntryType(zip[i]) = "file"
      PROVE  /\ FilesUntil(zip, i) = FilesUntil(zip, i - 1) \cup {i}
             /\ Cardinality(FilesUntil(zip, i)) = Cardinality(FilesUntil(zip, i - 1)) + 1
  <2>1. FilesUntil(zip, i) = FilesUntil(zip, i - 1) \cup {i}
    BY <1>3, <1>4 DEF FilesUntil
  <2>2. i \notin FilesUntil(zip, i - 1)
    BY DEF FilesUntil
  <2> QED BY <1>1, <1>2, <2>1, <2>2, FS_AddElement
<1>5. ASSUME EntryType(zip[i]) # "file"
      PROVE  FilesUntil(zip, i) = FilesUntil(zip, i - 1)
  BY <1>3, <1>5 DEF FilesUntil
<1> QED BY <1>1, <1>2, <1>4, <1>5

\* The sizes of the files are numbers whose sum is what the archive unpacks to.
LEMMA SizesFacts ==
  ASSUME NEW zip \in Seq(EntryShape)
  PROVE  /\ Bytes(FileSizes(zip)) = SumOf(FileSizes(zip), Len(zip))
         /\ \A i \in 1..Len(zip) : FileSizes(zip)[i] \in Nat
         /\ \A i \in 1..Len(zip) : EntryType(zip[i]) = "file" => FileSizes(zip)[i] = zip[i].size
<1>1. PICK n \in Nat : n = Len(zip) /\ DOMAIN zip = 1..n
  OBVIOUS
<1>2. \A i \in 1..n : zip[i] \in EntryShape
  BY <1>1
<1>3. \A i \in 1..n : FileSizes(zip)[i] = IF EntryType(zip[i]) = "file" THEN zip[i].size ELSE 0
  BY <1>1 DEF FileSizes
<1>4. \A i \in 1..n : FileSizes(zip)[i] \in Nat
  BY <1>2, <1>3 DEF EntryShape
<1>5. FileSizes(zip) \in Seq(Nat) /\ Len(FileSizes(zip)) = n
  <2>1. FileSizes(zip) \in [1..n -> Nat]
    BY <1>1, <1>2 DEF FileSizes, EntryShape
  <2> QED BY <2>1
<1>6. Bytes(FileSizes(zip)) = SumOf(FileSizes(zip), n)
  <2>1. \A t \in Seq(Nat) : Bytes(t) = SumOf(t, Len(t))
    BY DEF Bytes, SumOf, SumsUp
  <2> QED BY <1>5, <2>1
<1> QED BY <1>1, <1>3, <1>4, <1>6

\* One row more.
LEMMA RowMore ==
  ASSUME NEW old \in Seq(RowShape), NEW row \in RowShape
  PROVE  /\ Append(old, row) \in Seq(RowShape)
         /\ PathsOf(Append(old, row)) = PathsOf(old) \cup {row.path}
<1>1. PICK n \in Nat : n = Len(old) /\ DOMAIN old = 1..n
  OBVIOUS
<1>2. PICK rows : rows = Append(old, row)
  OBVIOUS
<1>3. rows \in Seq(RowShape)
  BY <1>2
<1>4. DOMAIN rows = 1..(n + 1) /\ rows[n + 1] = row /\ \A k \in 1..n : rows[k] = old[k]
  BY <1>1, <1>2, <1>3
<1>5. \A k : k \in 1..(n + 1) <=> k \in 1..n \/ k = n + 1
  OBVIOUS
<1>6. PathsOf(rows) = PathsOf(old) \cup {row.path}
  BY <1>1, <1>4, <1>5 DEF PathsOf
<1> QED BY <1>2, <1>3, <1>6

\* One entry more.
LEMMA ExtractFacts ==
  ASSUME NEW zip, AcceptedZip(zip), NEW i \in 1..Len(zip), NEW st, UnpackedUntil(st, zip, i - 1)
  PROVE  UnpackedUntil(Extract(st, zip[i]), zip, i)
<1> USE BundleConstants
<1>1. PICK n \in Nat : n = Len(zip) /\ DOMAIN zip = 1..n
  BY DEF AcceptedZip
<1>2. i \in Nat \ {0} /\ i \in 1..n /\ i - 1 \in 0..n /\ i \in 0..n /\ n \in 0..n /\ i <= n /\ i - 1 <= i
  BY <1>1
<1>3. PICK entry \in EntryShape : entry = zip[i]
  <2>1. zip[i] \in EntryShape
    BY <1>1, <1>2 DEF AcceptedZip
  <2> QED BY <2>1
<1>4. PICK size \in Nat : size = entry.size
  BY DEF EntryShape
<1>5. PICK path \in Places : path = Normalized(entry.name)
  <2>1. ~EntryRefused(entry)
    BY <1>1, <1>2, <1>3 DEF AcceptedZip
  <2> QED BY <2>1, EntryLands
<1>6. EntryType(entry) \in {"file", "dir"}
  BY <1>1, <1>2, <1>3 DEF AcceptedZip, EntryRefused
<1>7. PICK sum \in Nat, next \in Nat, total \in Nat :
        /\ sum = SumOf(FileSizes(zip), i - 1) /\ next = SumOf(FileSizes(zip), i)
        /\ total = SumOf(FileSizes(zip), n) /\ sum <= next /\ next <= total
        /\ EntryType(entry) = "file" => next = sum + size
  <2>1. zip \in Seq(EntryShape)
    BY DEF AcceptedZip
  <2>2. \A k \in 1..n : FileSizes(zip)[k] \in Nat
    BY <1>1, <2>1, SizesFacts
  <2>3. /\ \A k \in 1..n : SumOf(FileSizes(zip), k) = SumOf(FileSizes(zip), k - 1) + FileSizes(zip)[k]
        /\ \A k \in 0..n : SumOf(FileSizes(zip), k) \in Nat
        /\ \A k, m \in 0..n : k <= m => SumOf(FileSizes(zip), k) <= SumOf(FileSizes(zip), m)
    BY <2>2, SumOfFacts
  <2>4. EntryType(entry) = "file" => FileSizes(zip)[i] = size
    BY <1>1, <1>2, <1>3, <1>4, <2>1, SizesFacts
  <2>5. SumOf(FileSizes(zip), i - 1) \in Nat /\ SumOf(FileSizes(zip), i) \in Nat /\ SumOf(FileSizes(zip), n) \in Nat
    BY <1>2, <2>3
  <2>6. SumOf(FileSizes(zip), i) = SumOf(FileSizes(zip), i - 1) + FileSizes(zip)[i]
    BY <1>2, <2>3
  <2>7. SumOf(FileSizes(zip), i - 1) <= SumOf(FileSizes(zip), i) /\ SumOf(FileSizes(zip), i) <= SumOf(FileSizes(zip), n)
    BY <1>2, <2>3
  <2> QED BY <2>4, <2>5, <2>6, <2>7
<1>8. total <= MaxTotalBytes
  <2>1. zip \in Seq(EntryShape)
    BY DEF AcceptedZip
  <2>2. Bytes(FileSizes(zip)) = total
    BY <1>1, <1>7, <2>1, SizesFacts
  <2> QED BY <2>2 DEF AcceptedZip
<1>9. PICK was, now : was = FilesUntil(zip, i - 1) /\ now = FilesUntil(zip, i)
  OBVIOUS
<1>10. PICK a \in Nat, b \in Nat : a = Cardinality(was) /\ b = Cardinality(now)
  BY <1>2, <1>9, FilesCount
<1>11. /\ EntryType(entry) = "file" => now = was \cup {i} /\ b = a + 1
       /\ EntryType(entry) # "file" => now = was
  BY <1>2, <1>3, <1>9, <1>10, FilesCount
<1>12. b <= MaxFileCount
  <2>1. now \subseteq FileEntries(zip)
    BY <1>1, <1>2, <1>9 DEF FilesUntil, FileEntries
  <2>2. FileEntries(zip) \subseteq FilesUntil(zip, n)
    BY <1>1 DEF FilesUntil, FileEntries
  <2>3. n \in Nat \ {0}
    BY <1>2
  <2>4. IsFiniteSet(FileEntries(zip))
    BY <2>2, <2>3, FilesCount, FS_Subset
  <2>5. b <= Cardinality(FileEntries(zip)) /\ Cardinality(FileEntries(zip)) \in Nat
    BY <1>10, <2>1, <2>4, FS_Subset, FS_CardinalityType
  <2>6. Cardinality(FileEntries(zip)) <= MaxFileCount
    BY DEF AcceptedZip
  <2> QED BY <2>5, <2>6
<1>13. /\ st \in Unpacking
       /\ PathsOf(st.rows) = {Normalized(zip[j].name) : j \in was}
       /\ Cardinality(PathsOf(st.rows)) = a /\ IsFiniteSet(PathsOf(st.rows))
       /\ st.disk \subseteq PathsOf(st.rows) /\ IsFiniteSet(st.disk) /\ Cardinality(st.disk) = st.count
       /\ st.count <= a /\ st.bytes <= sum
       /\ \A j \in was : zip[j].size <= MaxFileBytes /\ zip[j].content # "archive" => Normalized(zip[j].name) \in st.disk
  BY <1>7, <1>9, <1>10 DEF UnpackedUntil
<1>20. PICK old \in Seq(RowShape), disk \in SUBSET Places, count \in Nat, bytes \in Nat :
         st = [rows |-> old, disk |-> disk, count |-> count, bytes |-> bytes]
  BY <1>13 DEF Unpacking
<1>21. st.disk = disk /\ st.count = count /\ st.bytes = bytes
  BY <1>20
<1>22. count <= a /\ bytes <= sum
  BY <1>13, <1>21
<1>23. sum <= next
  BY <1>7
<1>24. bytes <= next
  BY <1>22, <1>23
<1>14. CASE EntryType(entry) = "dir"
  <2>1. Extract(st, entry) = st
    BY <1>14 DEF Extract
  <2>2. now = was /\ b = a
    BY <1>10, <1>11, <1>14
  <2>3. st.bytes <= next
    BY <1>21, <1>24
  <2>4. UnpackedUntil(st, zip, i)
    BY <1>7, <1>9, <1>10, <1>13, <2>2, <2>3 DEF UnpackedUntil
  <2> QED BY <1>3, <2>1, <2>4
<1>15. ASSUME EntryType(entry) = "file"
       PROVE  /\ now = was \cup {i} /\ b = a + 1 /\ next = sum + size
              /\ path \notin PathsOf(st.rows)
              /\ PathsOf(st.rows) \cup {path} = {Normalized(zip[j].name) : j \in now}
              /\ IsFiniteSet(PathsOf(st.rows) \cup {path}) /\ Cardinality(PathsOf(st.rows) \cup {path}) = b
  <2>1. now = was \cup {i} /\ b = a + 1 /\ next = sum + size
    BY <1>7, <1>11, <1>15
  <2>2. path \notin PathsOf(st.rows)
    <3> SUFFICES ASSUME NEW j \in was, path = Normalized(zip[j].name)
                 PROVE  FALSE
      BY <1>13
    <3>1. j \in FileEntries(zip) /\ i \in FileEntries(zip) /\ i # j
      BY <1>1, <1>2, <1>3, <1>9, <1>15 DEF FilesUntil, FileEntries
    <3>2. ~Conflict(Normalized(zip[i].name), Normalized(zip[j].name))
      BY <3>1 DEF AcceptedZip
    <3> QED BY <1>3, <1>5, <3>2 DEF Conflict
  <2>3. PathsOf(st.rows) \cup {path} = {Normalized(zip[j].name) : j \in now}
    BY <1>3, <1>5, <1>13, <2>1
  <2>4. IsFiniteSet(PathsOf(st.rows) \cup {path}) /\ Cardinality(PathsOf(st.rows) \cup {path}) = a + 1
    <3>1. PICK paths : paths = PathsOf(st.rows)
      OBVIOUS
    <3>2. IsFiniteSet(paths) /\ Cardinality(paths) = a /\ path \notin paths
      BY <1>13, <2>2, <3>1
    <3>3. IsFiniteSet(paths \cup {path}) /\ Cardinality(paths \cup {path}) = a + 1
      BY <3>2, FS_AddElement
    <3> QED BY <3>1, <3>3
  <2> QED BY <2>1, <2>2, <2>3, <2>4
<1>16. ASSUME EntryType(entry) = "file", NEW status \in {"unsupported", "skipped"},
              Extract(st, entry) = [st EXCEPT !.rows = Append(@, Row(entry, status))],
              ~(size <= MaxFileBytes /\ entry.content # "archive")
       PROVE  UnpackedUntil(Extract(st, entry), zip, i)
  <2>1. PICK row \in RowShape : row = [path |-> path, status |-> status] /\ row.path = path
    <3>1. [path |-> path, status |-> status] \in RowShape
      BY <1>5, <1>16 DEF RowShape
    <3> QED BY <3>1
  <2>2. PICK rows \in Seq(RowShape) : rows = Append(st.rows, row) /\ PathsOf(rows) = PathsOf(st.rows) \cup {path}
    <3>1. st.rows \in Seq(RowShape)
      BY <1>13 DEF Unpacking
    <3> QED BY <2>1, <3>1, RowMore
  <2>4. PICK out : out = [rows |-> rows, disk |-> disk, count |-> count, bytes |-> bytes]
    OBVIOUS
  <2>5. Extract(st, entry) = out
    <3>1. Row(entry, status) = [path |-> path, status |-> status]
      BY <1>5 DEF Row
    <3>2. Extract(st, entry) = [st EXCEPT !.rows = rows]
      BY <1>16, <2>1, <2>2, <3>1
    <3> QED BY <1>20, <2>4, <3>2
  <2>6. out \in Unpacking /\ out.rows = rows
    BY <2>4 DEF Unpacking
  <2>7. out.disk = st.disk /\ out.count = st.count /\ out.bytes = st.bytes
    BY <1>21, <2>4
  <2>8. out.count <= b /\ out.bytes <= next
    <3>1. out.count = count /\ out.bytes = bytes
      BY <2>4
    <3>2. b = a + 1
      BY <1>15, <1>16
    <3>3. count <= b
      BY <1>22, <3>2
    <3> QED BY <1>24, <3>1, <3>3
  <2>9. \A j \in now : zip[j].size <= MaxFileBytes /\ zip[j].content # "archive" => Normalized(zip[j].name) \in out.disk
    BY <1>3, <1>4, <1>13, <1>15, <1>16, <2>7
  <2>10. out.disk \subseteq PathsOf(rows) /\ IsFiniteSet(out.disk) /\ Cardinality(out.disk) = out.count
    BY <1>13, <2>2, <2>7
  <2>11. /\ PathsOf(rows) = {Normalized(zip[j].name) : j \in now}
         /\ Cardinality(PathsOf(rows)) = b /\ IsFiniteSet(PathsOf(rows))
    BY <1>15, <1>16, <2>2
  <2>12. UnpackedUntil(out, zip, i)
    BY <1>7, <1>9, <1>10, <2>6, <2>8, <2>9, <2>10, <2>11 DEF UnpackedUntil
  <2> QED BY <2>5, <2>12
<1>17. CASE EntryType(entry) = "file" /\ entry.content = "archive"
  <2>1. Extract(st, entry) = [st EXCEPT !.rows = Append(@, Row(entry, "unsupported"))]
    BY <1>17 DEF Extract
  <2> QED BY <1>3, <1>16, <1>17, <2>1
<1>18. CASE EntryType(entry) = "file" /\ entry.content # "archive" /\ size > MaxFileBytes
  <2>1. Extract(st, entry) = [st EXCEPT !.rows = Append(@, Row(entry, "skipped"))]
    BY <1>4, <1>18 DEF Extract
  <2>2. ~(size <= MaxFileBytes)
    BY <1>18
  <2> QED BY <1>3, <1>16, <1>18, <2>1, <2>2
<1>19. CASE EntryType(entry) = "file" /\ entry.content # "archive" /\ ~(size > MaxFileBytes)
  <2>1. now = was \cup {i} /\ b = a + 1 /\ next = sum + size /\ path \notin PathsOf(st.rows)
    BY <1>15, <1>19
  <2>3. count < MaxFileCount
    <3>1. PICK max \in Nat : max = MaxFileCount
      OBVIOUS
    <3>2. count <= a /\ b = a + 1 /\ b <= max
      <4>1. b = a + 1
        BY <2>1
      <4>2. b <= max
        BY <1>12, <3>1
      <4> QED BY <1>22, <4>1, <4>2
    <3>3. count < max
      BY <3>2
    <3> QED BY <3>1, <3>3
  <2>4. bytes + size <= next /\ bytes + size <= MaxTotalBytes
    <3>1. MaxTotalBytes \in Nat
      OBVIOUS
    <3>2. bytes + size <= next
      <4>1. next = sum + size
        BY <2>1
      <4>2. bytes <= sum
        BY <1>22
      <4> QED BY <4>1, <4>2
    <3>3. next <= MaxTotalBytes
      BY <1>7, <1>8, <3>1
    <3> QED BY <3>1, <3>2, <3>3
  <2>5. PICK status \in {"pending", "unsupported"} : status = IF entry.content = "text" THEN "pending" ELSE "unsupported"
    OBVIOUS
  <2>6. PICK row \in RowShape : row = [path |-> path, status |-> status] /\ row.path = path
    <3>1. [path |-> path, status |-> status] \in RowShape
      BY <1>5, <2>5 DEF RowShape
    <3> QED BY <3>1
  <2>7. PICK rows \in Seq(RowShape) : rows = Append(st.rows, row) /\ PathsOf(rows) = PathsOf(st.rows) \cup {path}
    <3>1. st.rows \in Seq(RowShape)
      BY <1>13 DEF Unpacking
    <3> QED BY <2>6, <3>1, RowMore
  <2>8. PICK out : out = [rows |-> rows, disk |-> disk \cup {path}, count |-> count + 1, bytes |-> bytes + size]
    OBVIOUS
  <2>9. Extract(st, entry) = out
    <3>1. ~(entry.size > MaxFileBytes \/ st.count >= MaxFileCount \/ st.bytes + entry.size > MaxTotalBytes)
      <4>1. ~(size > MaxFileBytes)
        BY <1>19
      <4>2. ~(count >= MaxFileCount)
        BY <2>3
      <4>3. ~(bytes + size > MaxTotalBytes)
        BY <2>4
      <4> QED BY <1>4, <1>21, <4>1, <4>2, <4>3
    <3>2. EntryType(entry) # "dir" /\ entry.content # "archive"
      BY <1>19
    <3>3. Extract(st, entry)
            = [rows |-> Append(st.rows, Row(entry, IF entry.content = "text" THEN "pending" ELSE "unsupported")),
               disk |-> st.disk \cup {Normalized(entry.name)},
               count |-> st.count + 1, bytes |-> st.bytes + entry.size]
      BY <3>1, <3>2 DEF Extract
    <3>4. Row(entry, status) = [path |-> path, status |-> status]
      BY <1>5 DEF Row
    <3> QED BY <1>4, <1>5, <1>21, <2>5, <2>6, <2>7, <2>8, <3>3, <3>4
  <2>10. out \in Unpacking /\ out.rows = rows
    <3>1. disk \cup {path} \in SUBSET Places /\ count + 1 \in Nat /\ bytes + size \in Nat
      BY <1>5
    <3>2. out \in Unpacking
      BY <2>8, <3>1 DEF Unpacking
    <3> QED BY <2>8, <3>2
  <2>11. out.disk = disk \cup {path} /\ out.count = count + 1 /\ out.bytes = bytes + size
    BY <2>8
  <2>12. out.count <= b /\ out.bytes <= next
    <3>1. b = a + 1
      BY <2>1
    <3>2. count <= a
      BY <1>22
    <3>3. count + 1 <= b
      BY <3>1, <3>2
    <3>4. bytes + size <= next
      BY <2>4
    <3> QED BY <2>11, <3>3, <3>4
  <2>13. \A j \in now : zip[j].size <= MaxFileBytes /\ zip[j].content # "archive" => Normalized(zip[j].name) \in out.disk
    BY <1>3, <1>5, <1>13, <1>21, <2>1, <2>11
  <2>14. out.disk \subseteq PathsOf(rows)
    BY <1>13, <1>21, <2>7, <2>11
  <2>15. IsFiniteSet(out.disk) /\ Cardinality(out.disk) = out.count
    <3>1. path \notin disk
      BY <1>13, <1>21, <2>1
    <3>2. IsFiniteSet(disk) /\ Cardinality(disk) = count
      BY <1>13, <1>21
    <3>3. IsFiniteSet(disk \cup {path}) /\ Cardinality(disk \cup {path}) = count + 1
      BY <3>1, <3>2, FS_AddElement
    <3> QED BY <2>11, <3>3
  <2>16. /\ PathsOf(rows) = {Normalized(zip[j].name) : j \in now}
         /\ Cardinality(PathsOf(rows)) = b /\ IsFiniteSet(PathsOf(rows))
    BY <1>15, <1>19, <2>7
  <2>17. UnpackedUntil(out, zip, i)
    BY <1>7, <1>9, <1>10, <2>10, <2>12, <2>13, <2>14, <2>15, <2>16 DEF UnpackedUntil
  <2> QED BY <1>3, <2>9, <2>17
<1> QED BY <1>6, <1>14, <1>17, <1>18, <1>19

\* An entry leaves rows and files.
LEMMA ExtractType ==
  ASSUME NEW entry \in EntryShape, ~EntryRefused(entry), NEW st \in Unpacking
  PROVE  Extract(st, entry) \in Unpacking
<1>1. PICK old \in Seq(RowShape), disk \in SUBSET Places, count \in Nat, bytes \in Nat :
        st = [rows |-> old, disk |-> disk, count |-> count, bytes |-> bytes]
  BY DEF Unpacking
<1>2. PICK path \in Places, size \in Nat : path = Normalized(entry.name) /\ size = entry.size
  BY EntryLands DEF EntryShape
<1>3. \A status \in {"unsupported", "skipped", "pending"} :
        Append(old, Row(entry, status)) \in Seq(RowShape)
  <2> TAKE status \in {"unsupported", "skipped", "pending"}
  <2>1. PICK row : row = Row(entry, status)
    OBVIOUS
  <2>2. row \in RowShape
    BY <1>2, <2>1 DEF Row, RowShape
  <2> QED BY <2>1, <2>2, RowMore
<1>4. ASSUME NEW status \in {"unsupported", "skipped", "pending"}
      PROVE  [st EXCEPT !.rows = Append(@, Row(entry, status))] \in Unpacking
  <2>1. PICK rows \in Seq(RowShape) : rows = Append(old, Row(entry, status))
    BY <1>3
  <2>2. [st EXCEPT !.rows = Append(@, Row(entry, status))]
          = [rows |-> rows, disk |-> disk, count |-> count, bytes |-> bytes]
    <3>1. Append(st.rows, Row(entry, status)) = rows
      BY <1>1, <2>1
    <3>2. [st EXCEPT !.rows = Append(@, Row(entry, status))] = [st EXCEPT !.rows = rows]
      BY <3>1
    <3>3. [st EXCEPT !.rows = rows] = [rows |-> rows, disk |-> disk, count |-> count, bytes |-> bytes]
      BY <1>1
    <3> QED BY <3>2, <3>3
  <2>3. [rows |-> rows, disk |-> disk, count |-> count, bytes |-> bytes] \in Unpacking
    BY DEF Unpacking
  <2> QED BY <2>2, <2>3
<1>5. PICK status \in {"pending", "unsupported"} : status = IF entry.content = "text" THEN "pending" ELSE "unsupported"
  OBVIOUS
<1>6. [rows |-> Append(st.rows, Row(entry, status)), disk |-> st.disk \cup {Normalized(entry.name)},
       count |-> st.count + 1, bytes |-> st.bytes + entry.size] \in Unpacking
  <2>1. PICK rows \in Seq(RowShape) : rows = Append(old, Row(entry, status))
    BY <1>3, <1>5
  <2>2. PICK files \in SUBSET Places, number \in Nat, sum \in Nat :
          files = disk \cup {path} /\ number = count + 1 /\ sum = bytes + size
    <3>1. disk \cup {path} \in SUBSET Places /\ count + 1 \in Nat /\ bytes + size \in Nat
      BY <1>2
    <3> QED BY <3>1
  <2>3. [rows |-> rows, disk |-> files, count |-> number, bytes |-> sum] \in Unpacking
    BY DEF Unpacking
  <2> QED BY <1>1, <1>2, <2>1, <2>2, <2>3
<1> QED BY <1>4, <1>5, <1>6 DEF Extract

\* An archive, entry by entry.
Extractions(zip, g) ==
    g = [i \in 0..Len(zip) |-> IF i = 0 THEN NothingExtracted ELSE Extract(g[i - 1], zip[i])]

\* The archive in the end.
LEMMA ExtractFinds ==
  ASSUME NEW zip, AcceptedZip(zip)
  PROVE  UnpackedUntil(Extracted(zip), zip, Len(zip))
<1> DEFINE n == Len(zip)
           X == Unpacking
           step == [p \in (1..n) \X X |-> Extract(p[2], zip[p[1]])]
<1>0. n \in Nat /\ \A i \in 1..n : zip[i] \in EntryShape /\ ~EntryRefused(zip[i])
  BY DEF AcceptedZip
<1>1. step \in Steps(n, X)
  <2>1. ASSUME NEW p \in (1..n) \X X
        PROVE  Extract(p[2], zip[p[1]]) \in X
    <3>1. p[2] \in X /\ p[1] \in 1..n
      BY <2>1
    <3>2. zip[p[1]] \in EntryShape /\ ~EntryRefused(zip[p[1]])
      BY <1>0, <3>1
    <3> QED BY <3>1, <3>2, ExtractType
  <2> QED BY <2>1 DEF Steps
<1>2. \A i \in 1..n, x \in X : step[<<i, x>>] = Extract(x, zip[i])
  OBVIOUS
<1>3. UnpackedUntil(NothingExtracted, zip, 0)
  <2>1. NothingExtracted \in Unpacking
    <3>1. PICK rows \in Seq(RowShape), disk \in SUBSET Places : rows = <<>> /\ disk = {}
      <4>1. <<>> \in Seq(RowShape) /\ {} \in SUBSET Places
        OBVIOUS
      <4> QED BY <4>1
    <3>2. NothingExtracted = [rows |-> rows, disk |-> disk, count |-> 0, bytes |-> 0]
      BY <3>1 DEF NothingExtracted
    <3> QED BY <3>2 DEF Unpacking
  <2>2. FilesUntil(zip, 0) = {}
    BY DEF FilesUntil
  <2>3. NothingExtracted.rows = <<>> /\ NothingExtracted.disk = {} /\ NothingExtracted.count = 0 /\ NothingExtracted.bytes = 0
    BY DEF NothingExtracted
  <2>4. PathsOf(<<>>) = {}
    BY DEF PathsOf
  <2>5. IsFiniteSet({}) /\ Cardinality({}) = 0
    BY FS_EmptySet
  <2>6. SumOf(FileSizes(zip), 0) = 0
    <3>1. \A i \in 1..0 : FileSizes(zip)[i] \in Nat
      OBVIOUS
    <3> QED BY <3>1, SumOfFacts
  <2>7. {Normalized(zip[j].name) : j \in FilesUntil(zip, 0)} = {}
    BY <2>2
  <2>8. PICK st : st = NothingExtracted
    OBVIOUS
  <2>9. PathsOf(st.rows) = {} /\ st.disk = {} /\ st.count = 0 /\ st.bytes = 0
    BY <2>3, <2>4, <2>8
  <2>10. /\ PathsOf(st.rows) = {Normalized(zip[j].name) : j \in FilesUntil(zip, 0)}
         /\ Cardinality(PathsOf(st.rows)) = Cardinality(FilesUntil(zip, 0)) /\ IsFiniteSet(PathsOf(st.rows))
    BY <2>2, <2>5, <2>7, <2>9
  <2>11. st.disk \subseteq PathsOf(st.rows) /\ IsFiniteSet(st.disk) /\ Cardinality(st.disk) = st.count
    BY <2>5, <2>9
  <2>12. st.count <= Cardinality(FilesUntil(zip, 0)) /\ st.bytes <= SumOf(FileSizes(zip), 0)
    BY <2>2, <2>5, <2>6, <2>9
  <2>13. UnpackedUntil(st, zip, 0)
    BY <2>1, <2>2, <2>8, <2>10, <2>11, <2>12 DEF UnpackedUntil
  <2> QED BY <2>8, <2>13
<1>4. NothingExtracted \in X
  BY <1>3 DEF UnpackedUntil
<1> HIDE DEF step, n, X
<1>5. PICK s : Unfolds(s, n, X, NothingExtracted, step)
  BY <1>0, <1>1, <1>4, StepByStep
<1>6. s \in [0..n -> X] /\ s[0] = NothingExtracted /\ \A i \in 1..n : s[i] = step[<<i, s[i - 1]>>]
  BY <1>5 DEF Unfolds
<1>7. Extractions(zip, s)
  <2>1. s = [i \in 0..n |-> s[i]]
    BY <1>6
  <2>2. \A i \in 0..n : s[i] = IF i = 0 THEN NothingExtracted ELSE Extract(s[i - 1], zip[i])
    <3> TAKE i \in 0..n
    <3>1. i # 0 => i \in 1..n /\ s[i - 1] \in X
      BY <1>0, <1>6
    <3> QED BY <1>2, <1>6, <3>1
  <2>3. s = [i \in 0..n |-> IF i = 0 THEN NothingExtracted ELSE Extract(s[i - 1], zip[i])]
    BY <2>1, <2>2
  <2> QED BY <2>3 DEF Extractions, n
<1>8. PICK g : g = CHOOSE h : Extractions(zip, h)
  OBVIOUS
<1>9. Extractions(zip, g)
  BY <1>7, <1>8
<1>10. Extracted(zip) = g[n]
  BY <1>8 DEF Extracted, Extractions, n
<1>11. \A i \in 0..n : g[i] = IF i = 0 THEN NothingExtracted ELSE Extract(g[i - 1], zip[i])
  BY <1>9 DEF Extractions, n
<1> DEFINE holds == [i \in 0..n |-> UnpackedUntil(g[i], zip, i)]
<1>12. holds \in [0..n -> BOOLEAN]
  BY DEF UnpackedUntil
<1>13. holds[0]
  <2>1. 0 \in 0..n /\ g[0] = NothingExtracted
    BY <1>0, <1>11
  <2> QED BY <1>3, <2>1
<1>14. ASSUME NEW i \in 1..n, holds[i - 1]
       PROVE  holds[i]
  <2>1. i - 1 \in 0..n /\ i \in 0..n /\ i # 0 /\ i \in 1..Len(zip)
    BY <1>0 DEF n
  <2>2. UnpackedUntil(g[i - 1], zip, i - 1)
    BY <1>14, <2>1
  <2>3. g[i] = Extract(g[i - 1], zip[i])
    BY <1>11, <2>1
  <2>4. UnpackedUntil(g[i], zip, i)
    BY <2>1, <2>2, <2>3, ExtractFacts
  <2> QED BY <2>1, <2>4
<1> HIDE DEF holds
<1>15. n \in 0..n /\ holds[n]
  <2>1. \A i \in 0..n : holds[i]
    BY <1>0, <1>12, <1>13, <1>14, HoldsAll
  <2>2. n \in 0..n
    BY <1>0
  <2> QED BY <2>1, <2>2
<1>16. UnpackedUntil(g[n], zip, n)
  BY <1>15 DEF holds
<1> QED BY <1>10, <1>16 DEF n

ZipStates == [kind : {"zip"}, zip : Seq(EntryShape)]

\* An archive the validation accepts can be written.
LEMMA ArchivesLand == bundle \in ZipStates => ArchiveLands
<1> SUFFICES ASSUME bundle \in ZipStates, ZipAccepted(bundle.zip)
             PROVE  ArchiveLands
  BY DEF ArchiveLands
<1>1. PICK zip \in Seq(EntryShape) : zip = bundle.zip
  BY DEF ZipStates
<1>2. PICK n \in Nat : n = Len(zip) /\ DOMAIN zip = 1..n
  OBVIOUS
<1>3. FileEntries(zip) = FilesUntil(zip, n)
  BY <1>2 DEF FileEntries, FilesUntil
<1>4. ASSUME NEW i \in FileEntries(zip), NEW j \in FileEntries(zip), i # j
      PROVE  ~Conflict(Normalized(zip[i].name), Normalized(zip[j].name))
  <2>1. i \in Nat /\ j \in Nat
    BY <1>2 DEF FileEntries
  <2>2. \A k, m \in FileEntries(zip) : m < k => ~Conflict(Normalized(zip[k].name), Normalized(zip[m].name))
    BY <1>1 DEF ZipAccepted
  <2>3. CASE j < i
    BY <2>2, <2>3
  <2>4. CASE i < j
    <3>1. ~Conflict(Normalized(zip[j].name), Normalized(zip[i].name))
      BY <2>2, <2>4
    <3> QED BY <3>1 DEF Conflict
  <2> QED BY <1>4, <2>1, <2>3, <2>4
<1>5. AcceptedZip(zip)
  BY <1>1, <1>2, <1>4 DEF AcceptedZip, ZipAccepted
<1>6. PICK st : st = Extracted(zip) /\ UnpackedUntil(st, zip, n)
  BY <1>2, <1>5, ExtractFinds
<1>7. \A p \in st.disk : \E i \in FileEntries(zip) : p = Normalized(zip[i].name)
  BY <1>3, <1>6 DEF UnpackedUntil
<1>8. ASSUME NEW p \in st.disk, NEW q \in st.disk
      PROVE  ~Inside(p, q)
  <2>1. PICK i \in FileEntries(zip), j \in FileEntries(zip) : p = Normalized(zip[i].name) /\ q = Normalized(zip[j].name)
    BY <1>7
  <2>2. CASE i = j
    <3>1. p = q /\ p \in Places
      BY <1>6, <2>1, <2>2 DEF UnpackedUntil, Unpacking
    <3>2. Len(p) \in Nat
      BY <3>1 DEF Places
    <3> QED BY <3>1, <3>2 DEF Inside
  <2>3. CASE i # j
    BY <1>4, <2>1, <2>3 DEF Conflict
  <2> QED BY <2>2, <2>3
<1>9. ASSUME NEW p \in st.disk
      PROVE  p # <<>> /\ \A i \in DOMAIN p : p[i] \notin {"up", "none"}
  <2>1. PICK j \in FileEntries(zip) : p = Normalized(zip[j].name)
    BY <1>7
  <2>2. j \in 1..n
    BY <1>2 DEF FileEntries
  <2>3. zip[j] \in EntryShape /\ ~EntryRefused(zip[j])
    BY <1>2, <1>5, <2>2 DEF AcceptedZip
  <2>4. p \in Places /\ p # <<>>
    BY <2>1, <2>3, EntryLands
  <2>5. \A i \in DOMAIN p : p[i] \in {"a", "b"}
    BY <2>4 DEF Places
  <2> QED BY <2>4, <2>5
<1>10. /\ Cardinality({st.rows[i].path : i \in DOMAIN st.rows}) = Cardinality(FileEntries(zip))
       /\ Cardinality(st.disk) = st.count
       /\ \A i \in FileEntries(zip) :
            zip[i].size <= MaxFileBytes /\ zip[i].content # "archive" => Normalized(zip[i].name) \in st.disk
  BY <1>3, <1>6 DEF UnpackedUntil, PathsOf
<1> QED BY <1>1, <1>6, <1>8, <1>9, <1>10 DEF ArchiveLands

-----------------------------------------------------------------------------
(* Bundles: sections *)

TextStates == [kind : {"text"}, lines : Seq(Line), markdown : BOOLEAN]

\* The first and the last of some lines.
LEMMA MinFacts ==
  ASSUME NEW n \in Nat, NEW S \in SUBSET (1..n), S # {}
  PROVE  /\ Min(S) \in S /\ \A m \in S : Min(S) <= m
         /\ Max(S) \in S /\ \A m \in S : m <= Max(S)
<1>1. S \in SUBSET Nat
  OBVIOUS
<1>2. IsFiniteSet(S)
  <2>1. IsFiniteSet(1..n)
    <3>1. 1 \in Int /\ n \in Int
      OBVIOUS
    <3> QED BY <3>1, FS_Interval
  <2> QED BY <2>1, FS_Subset
<1>3. \E k \in S : \A m \in S : k <= m
  BY <1>1, SmallestOf
<1>4. \E k \in S : \A m \in S : m <= k
  BY <1>1, <1>2, GreatestOf
<1>5. \E k \in S : \A m \in S : k >= m
  BY <1>1, <1>4
<1>6. Max(S) \in S /\ \A m \in S : Max(S) >= m
  BY <1>5 DEF Max
<1>7. Min(S) \in S /\ \A m \in S : Min(S) <= m
  BY <1>3 DEF Min
<1>8. \A m \in S : m <= Max(S)
  BY <1>1, <1>6
<1> QED BY <1>6, <1>7, <1>8

\* What is stripped of a text is lines.
LEMMA StrippedLines ==
  ASSUME NEW text \in Seq(Line)
  PROVE  Stripped(text) \in Seq(Line)
<1>1. PICK n \in Nat : n = Len(text) /\ DOMAIN text = 1..n
  OBVIOUS
<1>2. PICK filled \in SUBSET (1..n) : filled = {i \in DOMAIN text : text[i] # "blank"}
  BY <1>1
<1>3. CASE filled = {}
  <2>1. Stripped(text) = <<>>
    BY <1>2, <1>3 DEF Stripped
  <2> QED BY <2>1
<1>4. CASE filled # {}
  <2>1. PICK a \in 1..n, b \in 1..n : a = Min(filled) /\ b = Max(filled)
    BY <1>4, MinFacts
  <2>2. Stripped(text) = SubSeq(text, a, b)
    BY <1>2, <1>4, <2>1 DEF Stripped
  <2>3. \A i \in a..b : text[i] \in Line
    BY <1>1
  <2> QED BY <1>1, <2>2, <2>3
<1> QED BY <1>3, <1>4

\* Where a section ends that begins at s: before the next one, or with the text.
EndOf(starts, n, s) == IF \E t \in starts : t > s THEN Min({t \in starts : t > s}) - 1 ELSE n

\* Each line from the first start on is in the section of the last start before it.
LEMMA StartsPartition ==
  ASSUME NEW n \in Nat, NEW starts \in SUBSET (1..n), 1 \in starts
  PROVE  /\ \A s \in starts : EndOf(starts, n, s) \in Nat
         /\ \A s, t \in starts : s < t => EndOf(starts, n, s) < t
         /\ \A i \in 1..n : \E s \in starts : s <= i /\ i <= EndOf(starts, n, s)
<1>1. ASSUME NEW s \in starts
      PROVE  /\ EndOf(starts, n, s) \in Nat
             /\ \A t \in starts : s < t => EndOf(starts, n, s) < t
             /\ \A i \in 1..n : (\A t \in starts : t <= i => t <= s) => i <= EndOf(starts, n, s)
  <2>1. s \in 1..n
    OBVIOUS
  <2>2. CASE \E t \in starts : t > s
    <3>1. PICK later \in SUBSET (1..n) : later = {t \in starts : t > s}
      OBVIOUS
    <3>2. later # {}
      BY <2>2, <3>1
    <3>3. PICK next \in later : next = Min(later) /\ \A t \in later : next <= t
      BY <3>2, MinFacts
    <3>4. EndOf(starts, n, s) = next - 1
      BY <2>2, <3>1, <3>3 DEF EndOf
    <3>5. next \in 1..n /\ next \in starts /\ next > s
      BY <3>1
    <3>6. next - 1 \in Nat
      BY <3>5
    <3>7. ASSUME NEW t \in starts, s < t
          PROVE  next - 1 < t
      <4>1. t \in later /\ t \in 1..n
        BY <2>1, <3>1, <3>7
      <4> QED BY <3>3, <3>5, <4>1
    <3>8. ASSUME NEW i \in 1..n, \A t \in starts : t <= i => t <= s
          PROVE  i <= next - 1
      <4>1. ~(next <= i)
        BY <2>1, <3>5, <3>8
      <4> QED BY <3>5, <4>1
    <3> QED BY <3>4, <3>6, <3>7, <3>8
  <2>3. CASE ~\E t \in starts : t > s
    <3>1. EndOf(starts, n, s) = n
      BY <2>3 DEF EndOf
    <3>2. \A t \in starts : ~(s < t)
      BY <2>1, <2>3
    <3> QED BY <3>1, <3>2
  <2> QED BY <2>2, <2>3
<1>2. ASSUME NEW i \in 1..n
      PROVE  \E s \in starts : s <= i /\ i <= EndOf(starts, n, s)
  <2>1. PICK before \in SUBSET (1..n) : before = {t \in starts : t <= i}
    OBVIOUS
  <2>2. before # {}
    <3>1. 1 \in before
      BY <2>1
    <3> QED BY <3>1
  <2>3. PICK s \in before : \A t \in before : t <= s
    BY <2>2, MinFacts
  <2>4. s \in starts /\ s <= i /\ \A t \in starts : t <= i => t <= s
    BY <2>1, <2>3
  <2>5. i <= EndOf(starts, n, s)
    BY <1>1, <2>4
  <2> QED BY <2>4, <2>5
<1> QED BY <1>1, <1>2

SectionsAt(lines, starts, n) ==
    {r \in {<<s, EndOf(starts, n, s)>> : s \in starts} : \E i \in r[1]..r[2] : lines[i] # "blank"}

\* The sections of a text begin at some lines, the first among them.
LEMMA SectionsBegin ==
  ASSUME NEW lines \in Seq(Line), NEW n \in Nat, n = Len(lines), n > 0, NEW markdown \in BOOLEAN
  PROVE  \E starts \in SUBSET (1..n) :
            /\ 1 \in starts
            /\ SectionsOf(lines, markdown) = SectionsAt(lines, starts, n)
<1> USE BundleConstants
<1>1. DOMAIN lines = 1..n /\ 1 \in 1..n
  OBVIOUS
<1>2. PICK starts : starts = IF markdown /\ SectionStarts(lines) # {} THEN SectionStarts(lines) ELSE WindowStarts(lines)
  OBVIOUS
<1>3. SectionStarts(lines) # {} => 1 \in SectionStarts(lines) /\ SectionStarts(lines) \in SUBSET (1..n)
  BY <1>1 DEF SectionStarts
<1>4. 1 \in WindowStarts(lines) /\ WindowStarts(lines) \in SUBSET (1..n)
  <2>1. (1 - 1) % Window = 0
    <3>1. 1 - 1 = 0
      OBVIOUS
    <3>2. 0 % Window = 0
      OBVIOUS
    <3> QED BY <3>1, <3>2
  <2> QED BY <1>1, <2>1 DEF WindowStarts
<1>5. starts \in SUBSET (1..n) /\ 1 \in starts
  BY <1>2, <1>3, <1>4
<1>6. SectionsOf(lines, markdown) = SectionsAt(lines, starts, n)
  BY <1>2 DEF SectionsOf, SectionsAt, EndOf
<1> QED BY <1>5, <1>6

\* No line of a text is lost, and none is in two sections.
LEMMA SectionsCut == bundle \in TextStates => SectionsPartition
<1> SUFFICES ASSUME bundle \in TextStates
             PROVE  SectionsPartition
  OBVIOUS
<1>1. PICK lines \in Seq(Line), markdown \in BOOLEAN : lines = Stripped(bundle.lines) /\ markdown = bundle.markdown
  BY StrippedLines DEF TextStates
<1>2. PICK n \in Nat : n = Len(lines) /\ DOMAIN lines = 1..n
  OBVIOUS
<1>3. PICK sections : sections = SectionsOf(lines, markdown)
  OBVIOUS
<1>4. CASE n = 0
  <2>1. DOMAIN lines = {}
    BY <1>2, <1>4
  <2>2. sections = {}
    BY <1>3, <2>1 DEF SectionsOf, SectionStarts, WindowStarts
  <2> QED BY <1>1, <1>3, <2>1, <2>2 DEF SectionsPartition
<1>5. CASE n > 0
  <2>1. PICK starts \in SUBSET (1..n) : 1 \in starts /\ sections = SectionsAt(lines, starts, n)
    BY <1>2, <1>3, <1>5, SectionsBegin
  <2>2. /\ \A s \in starts : EndOf(starts, n, s) \in Nat
        /\ \A s, t \in starts : s < t => EndOf(starts, n, s) < t
        /\ \A i \in 1..n : \E s \in starts : s <= i /\ i <= EndOf(starts, n, s)
    BY <2>1, StartsPartition
  <2>3. \A r \in sections : \E s \in starts : r = <<s, EndOf(starts, n, s)>> /\ r[1] = s /\ r[2] = EndOf(starts, n, s)
    BY <2>1 DEF SectionsAt
  <2>4. ASSUME NEW r \in sections, NEW q \in sections, r # q
        PROVE  r[2] < q[1] \/ q[2] < r[1]
    <3>1. PICK s \in starts, t \in starts :
            /\ r = <<s, EndOf(starts, n, s)>> /\ r[1] = s /\ r[2] = EndOf(starts, n, s)
            /\ q = <<t, EndOf(starts, n, t)>> /\ q[1] = t /\ q[2] = EndOf(starts, n, t)
      BY <2>3
    <3>2. s # t /\ s \in 1..n /\ t \in 1..n
      BY <2>4, <3>1
    <3>3. CASE s < t
      BY <2>2, <3>1, <3>3
    <3>4. CASE t < s
      BY <2>2, <3>1, <3>4
    <3> QED BY <3>2, <3>3, <3>4
  <2>5. ASSUME NEW i \in 1..n, lines[i] # "blank"
        PROVE  Cardinality({r \in sections : i \in r[1]..r[2]}) = 1
    <3>1. PICK s \in starts : s <= i /\ i <= EndOf(starts, n, s)
      BY <2>2
    <3>2. PICK r : r = <<s, EndOf(starts, n, s)>> /\ r[1] = s /\ r[2] = EndOf(starts, n, s)
      <4>1. PICK e : e = EndOf(starts, n, s)
        OBVIOUS
      <4>2. PICK r : r = <<s, e>>
        OBVIOUS
      <4>3. r[1] = s /\ r[2] = e
        BY <4>2
      <4> QED BY <4>1, <4>2, <4>3
    <3>3. s \in Nat /\ EndOf(starts, n, s) \in Nat /\ i \in s..EndOf(starts, n, s)
      BY <2>2, <3>1
    <3>4. i \in r[1]..r[2]
      BY <3>2, <3>3
    <3>5. r \in sections
      BY <2>1, <2>5, <3>2, <3>4 DEF SectionsAt
    <3>6. ASSUME NEW q \in sections, i \in q[1]..q[2]
          PROVE  q = r
      <4>1. PICK t \in starts : q = <<t, EndOf(starts, n, t)>> /\ q[1] = t /\ q[2] = EndOf(starts, n, t)
        BY <2>3
      <4>2. t <= i /\ i <= EndOf(starts, n, t) /\ t \in Nat /\ EndOf(starts, n, t) \in Nat
        BY <2>2, <3>6, <4>1
      <4>3. ~(s < t)
        BY <2>2, <3>1, <3>3, <4>2
      <4>4. ~(t < s)
        BY <2>2, <3>1, <3>3, <4>2
      <4>5. s = t
        BY <3>3, <4>2, <4>3, <4>4
      <4> QED BY <3>2, <4>1, <4>5
    <3>7. {q \in sections : i \in q[1]..q[2]} = {r}
      BY <3>4, <3>5, <3>6
    <3> QED BY <3>7, FS_Singleton
  <2> QED BY <1>1, <1>2, <1>3, <2>4, <2>5 DEF SectionsPartition
<1> QED BY <1>2, <1>4, <1>5

-----------------------------------------------------------------------------
(* Bundles: pages of a difference *)

Changes == {"added", "changed", "deleted", "unchanged"}

DiffStates == [kind : {"diff"}, base : Manifest, head : Manifest, limit : Nat \ {0}, types : SUBSET Changes,
               cursor : Nat, seen : Seq(SUBSET Nat), status : {"reading", "done"}]

Paths == 1..MaxPaths

\* The rows a client asked for.
WantedRows(base, head, types) == {p \in RowsOfDiff(base, head) : Change(base[p], head[p]) \in types}

\* The rows after a cursor.
RowsAfter(base, head, types, cursor) ==
    {p \in RowsOfDiff(base, head) :
        Change(base[p], head[p]) \in types /\ (cursor # 0 => Follows(base, head, p, cursor))}

\* The rows of these that come before p.
RowsBefore(base, head, rows) == [p \in rows |-> {q \in rows : q # p /\ ~Follows(base, head, q, p)}]

\* Rows follow one another in one order, that of the changes first.
LEMMA FollowsFacts ==
  ASSUME NEW base \in Manifest, NEW head \in Manifest
  PROVE  /\ \A p, q \in Paths : Follows(base, head, p, q) \in BOOLEAN
         /\ \A p \in Paths : ~Follows(base, head, p, p)
         /\ \A p, q \in Paths : p # q => Follows(base, head, p, q) \/ Follows(base, head, q, p)
         /\ \A p, q \in Paths : Follows(base, head, p, q) => ~Follows(base, head, q, p)
         /\ \A p, q, r \in Paths :
                Follows(base, head, p, q) /\ Follows(base, head, q, r) => Follows(base, head, p, r)
         /\ \A p, q \in Paths : Follows(base, head, p, q)
                => Rank(Change(base[q], head[q])) <= Rank(Change(base[p], head[p]))
<1> DEFINE rank == [p \in Paths |-> Rank(Change(base[p], head[p]))]
<1>1. rank \in [Paths -> Nat]
  <2>1. \A change : Rank(change) \in Nat
    BY DEF Rank
  <2> QED BY <2>1
<1>2. \A p \in Paths : rank[p] = Rank(Change(base[p], head[p]))
  OBVIOUS
<1>3. Paths \subseteq Nat
  BY BundleConstants DEF Paths
<1> HIDE DEF rank
<1>4. \A p, q \in Paths : Follows(base, head, p, q) <=> rank[p] > rank[q] \/ (rank[p] = rank[q] /\ p > q)
  BY <1>2 DEF Follows
<1>5. \A p, q \in Paths : Follows(base, head, p, q) \in BOOLEAN
  BY DEF Follows
<1>6. \A p \in Paths : rank[p] \in Nat /\ p \in Nat
  BY <1>1, <1>3
<1>7. /\ \A p \in Paths : ~Follows(base, head, p, p)
      /\ \A p, q \in Paths : p # q => Follows(base, head, p, q) \/ Follows(base, head, q, p)
      /\ \A p, q \in Paths : Follows(base, head, p, q) => ~Follows(base, head, q, p)
  BY <1>4, <1>6
<1>8. \A p, q, r \in Paths : Follows(base, head, p, q) /\ Follows(base, head, q, r) => Follows(base, head, p, r)
  BY <1>4, <1>6
<1>9. \A p, q \in Paths : Follows(base, head, p, q) => rank[q] <= rank[p]
  BY <1>4, <1>6
<1> QED BY <1>2, <1>5, <1>7, <1>8, <1>9

\* Any rows are ranked by what comes before them.
LEMMA RowsRanked ==
  ASSUME NEW base \in Manifest, NEW head \in Manifest, NEW rows \in SUBSET Paths
  PROVE  Ranks(RowsBefore(base, head, rows), rows) /\ IsFiniteSet(rows)
<1>1. PICK before : before = RowsBefore(base, head, rows)
  OBVIOUS
<1>2. before \in [rows -> SUBSET rows]
  BY <1>1 DEF RowsBefore
<1>3. \A p \in rows : \A q : q \in before[p] <=> q \in rows /\ q # p /\ ~Follows(base, head, q, p)
  BY <1>1 DEF RowsBefore
<1>4. \A p, q \in rows : q \in before[p] <=> Follows(base, head, p, q)
  BY <1>3, FollowsFacts
<1>5. \A p \in rows : p \notin before[p]
  BY <1>3
<1>6. \A p, q \in rows : q \in before[p] => before[q] \subseteq before[p]
  <2> SUFFICES ASSUME NEW p \in rows, NEW q \in rows, q \in before[p], NEW r \in before[q]
               PROVE  r \in before[p]
    OBVIOUS
  <2>1. r \in rows
    BY <1>2
  <2>2. Follows(base, head, p, q) /\ Follows(base, head, q, r)
    BY <1>4, <2>1
  <2>3. Follows(base, head, p, r)
    BY <2>1, <2>2, FollowsFacts
  <2> QED BY <1>4, <2>1, <2>3
<1>7. \A p, q \in rows : p = q \/ p \in before[q] \/ q \in before[p]
  BY <1>4, FollowsFacts
<1>8. IsFiniteSet(rows)
  <2>1. IsFiniteSet(1..MaxPaths)
    <3>1. 1 \in Int /\ MaxPaths \in Int
      BY BundleConstants
    <3> QED BY <3>1, FS_Interval
  <2> QED BY <2>1, FS_Subset DEF Paths
<1> QED BY <1>1, <1>2, <1>5, <1>6, <1>7, <1>8 DEF Ranks

\* Some of the rows, if there are any, end with one.
LEMMA LastRow ==
  ASSUME NEW base \in Manifest, NEW head \in Manifest, NEW rows \in SUBSET Paths, rows # {}
  PROVE  \E p \in rows : \A q \in rows : q = p \/ Follows(base, head, p, q)
<1>1. PICK before : before = RowsBefore(base, head, rows)
  OBVIOUS
<1>2. Ranks(before, rows) /\ IsFiniteSet(rows)
  BY <1>1, RowsRanked
<1>3. \A p \in rows : before[p] \subseteq rows /\ IsFiniteSet(before[p]) /\ Cardinality(before[p]) \in Nat
  <2> TAKE p \in rows
  <2>1. before[p] \subseteq rows
    BY <1>2 DEF Ranks
  <2> QED BY <1>2, <2>1, FS_Subset, FS_CardinalityType
<1> DEFINE counts == {Cardinality(before[p]) : p \in rows}
<1>4. counts \in SUBSET Nat /\ counts # {}
  BY <1>3
<1>5. IsFiniteSet(counts)
  <2>1. PICK n \in Nat : n = Cardinality(rows)
    BY <1>2, FS_CardinalityType
  <2>2. \A p \in rows : Cardinality(before[p]) <= n
    BY <1>2, <1>3, <2>1, FS_Subset
  <2>3. counts \subseteq 0..n
    BY <1>3, <2>2
  <2>4. IsFiniteSet(0..n)
    <3>1. 0 \in Int /\ n \in Int
      OBVIOUS
    <3> QED BY <3>1, FS_Interval
  <2> QED BY <2>3, <2>4, FS_Subset
<1>6. \E m \in counts : \A k \in counts : k <= m
  <2> HIDE DEF counts
  <2> QED BY <1>4, <1>5, GreatestOf
<1>7. PICK p \in rows : \A q \in rows : Cardinality(before[q]) <= Cardinality(before[p])
  BY <1>6
<1>8. ASSUME NEW q \in rows, q # p
      PROVE  Follows(base, head, p, q)
  <2> SUFFICES ASSUME ~Follows(base, head, p, q)
               PROVE  FALSE
    OBVIOUS
  <2>1. p \in before[q]
    BY <1>1, <1>8 DEF RowsBefore
  <2>2. before[p] \subseteq before[q] /\ p \notin before[p]
    BY <1>2, <2>1 DEF Ranks
  <2>3. PICK bp \in SUBSET rows, bq \in SUBSET rows : bp = before[p] /\ bq = before[q]
    BY <1>3
  <2>4. IsFiniteSet(bp) /\ IsFiniteSet(bq) /\ Cardinality(bp) \in Nat /\ Cardinality(bq) \in Nat
    BY <1>3, <2>3
  <2>5. Cardinality(bp \cup {p}) = Cardinality(bp) + 1
    BY <2>2, <2>3, <2>4, FS_AddElement
  <2>6. bp \cup {p} \subseteq bq
    BY <2>1, <2>2, <2>3
  <2>7. Cardinality(bp \cup {p}) <= Cardinality(bq)
    BY <2>4, <2>6, FS_Subset
  <2>8. Cardinality(bq) <= Cardinality(bp)
    BY <1>7, <2>3
  <2> QED BY <2>4, <2>5, <2>7, <2>8
<1> QED BY <1>8

\* The first of the rows, and the last of these if there are more.
IsPage(base, head, limit, rows, now, next) ==
    /\ now \subseteq rows /\ rows \subseteq Paths /\ Cardinality(now) <= limit
    /\ \A p \in now, q \in rows \ now : Follows(base, head, q, p)
    /\ next = 0 => now = rows
    /\ next # 0 => next \in now /\ \A q \in now : q = next \/ Follows(base, head, next, q)

\* A page is the first of the rows after the cursor, and the next cursor is its last.
LEMMA DiffPageFacts ==
  ASSUME NEW base \in Manifest, NEW head \in Manifest, NEW types, NEW limit \in Nat \ {0}, NEW cursor,
         NEW rows, rows = RowsAfter(base, head, types, cursor),
         NEW page, page = Page(base, head, types, limit, cursor)
  PROVE  IsPage(base, head, limit, rows, page.rows, page.next)
<1>1. rows \in SUBSET Paths
  BY DEF RowsAfter, RowsOfDiff, Manifest, Paths
<1>2. PICK before : before = RowsBefore(base, head, rows)
  OBVIOUS
<1>3. Ranks(before, rows) /\ IsFiniteSet(rows)
  BY <1>1, <1>2, RowsRanked
<1>4. PICK first : first = FirstOf(before, rows, limit)
  OBVIOUS
<1>5. /\ first \subseteq rows
      /\ IsFiniteSet(first) /\ Cardinality(first) \in Nat /\ Cardinality(first) <= limit
      /\ first # rows => Cardinality(first) = limit
      /\ \A p \in first, q \in rows \ first : p \in before[q]
  <2>1. limit \in Nat
    OBVIOUS
  <2> QED BY <1>3, <1>4, <2>1, FirstMembers
<1>6. first = {p \in rows : Cardinality({q \in rows : q # p /\ ~Follows(base, head, q, p)}) < limit}
  <2>1. \A p \in rows : before[p] = {q \in rows : q # p /\ ~Follows(base, head, q, p)}
    BY <1>2 DEF RowsBefore
  <2>2. \A p : p \in first <=> p \in rows /\ Cardinality(before[p]) < limit
    BY <1>4 DEF FirstOf
  <2> QED BY <2>1, <2>2
<1>7. page = [rows |-> first,
              next |-> IF Cardinality(rows) > limit
                       THEN CHOOSE p \in first : \A q \in first : q = p \/ Follows(base, head, p, q) ELSE 0]
  BY <1>6 DEF Page, RowsAfter
<1>8. PICK next : next = IF Cardinality(rows) > limit
                         THEN CHOOSE p \in first : \A q \in first : q = p \/ Follows(base, head, p, q) ELSE 0
  OBVIOUS
<1>9. page = [rows |-> first, next |-> next] /\ page.rows = first /\ page.next = next
  BY <1>7, <1>8
<1>10. \A p \in first, q \in rows \ first : Follows(base, head, q, p)
  <2> TAKE p \in first, q \in rows \ first
  <2>1. p \in before[q] /\ p \in rows /\ q \in rows /\ p # q
    BY <1>5
  <2>2. ~Follows(base, head, p, q)
    BY <1>2, <2>1 DEF RowsBefore
  <2> QED BY <1>1, <2>1, <2>2, FollowsFacts
<1>11. Cardinality(rows) \in Nat
  BY <1>3, FS_CardinalityType
<1>12. CASE Cardinality(rows) > limit
  <2>1. first # rows
    BY <1>5, <1>11, <1>12
  <2>2. first # {}
    <3>1. Cardinality(first) # 0
      BY <1>5, <2>1
    <3> QED BY <3>1, FS_EmptySet
  <2>3. first \in SUBSET Paths
    BY <1>1, <1>5
  <2>4. \E p \in first : \A q \in first : q = p \/ Follows(base, head, p, q)
    BY <2>2, <2>3, LastRow
  <2>5. next \in first /\ \A q \in first : q = next \/ Follows(base, head, next, q)
    BY <1>8, <1>12, <2>4
  <2>6. next # 0
    BY <2>3, <2>5, BundleConstants DEF Paths
  <2> QED BY <1>1, <1>5, <1>9, <1>10, <2>5, <2>6 DEF IsPage
<1>13. CASE ~(Cardinality(rows) > limit)
  <2>1. next = 0
    BY <1>8, <1>13
  <2>2. first = rows
    <3> SUFFICES ASSUME NEW p \in rows
                 PROVE  p \in first
      BY <1>5
    <3>1. PICK bp : bp = before[p]
      OBVIOUS
    <3>2. bp \subseteq rows /\ p \notin bp
      BY <1>3, <3>1 DEF Ranks
    <3>3. IsFiniteSet(bp) /\ Cardinality(bp) \in Nat
      BY <1>3, <3>2, FS_Subset, FS_CardinalityType
    <3>4. Cardinality(bp \cup {p}) = Cardinality(bp) + 1
      BY <3>2, <3>3, FS_AddElement
    <3>5. Cardinality(bp \cup {p}) <= Cardinality(rows)
      BY <1>3, <3>2, FS_Subset
    <3>6. Cardinality(bp) < limit
      BY <1>11, <1>13, <3>3, <3>4, <3>5
    <3> QED BY <1>4, <3>1, <3>6 DEF FirstOf
  <2> QED BY <1>1, <1>5, <1>9, <1>10, <2>1, <2>2 DEF IsPage
<1> QED BY <1>12, <1>13

SeenRows(seen) == UNION {seen[i] : i \in DOMAIN seen}

\* The pages of a client hold the rows up to its cursor, in order.
DiffRead(base, head, limit, types, cursor, seen, status) ==
    /\ \A i \in DOMAIN seen : Cardinality(seen[i]) <= limit
    /\ \A i, j \in DOMAIN seen : i < j => \A p \in seen[i], q \in seen[j] : Follows(base, head, q, p)
    /\ cursor \in {0} \cup Paths
    /\ status = "done" => SeenRows(seen) = WantedRows(base, head, types)
    /\ status = "reading" =>
         SeenRows(seen) = WantedRows(base, head, types) \ RowsAfter(base, head, types, cursor)

\* The inductive invariant of Bundles: an archive and a text are given, and the pages a client
\* has of a difference hold the rows up to its cursor.
BundleIInv ==
    \/ bundle \in ZipStates
    \/ bundle \in TextStates
    \/ /\ bundle \in DiffStates
       /\ DiffRead(bundle.base, bundle.head, bundle.limit, bundle.types, bundle.cursor, bundle.seen, bundle.status)

\* One page more.
LEMMA PageReads ==
  ASSUME NEW base \in Manifest, NEW head \in Manifest, NEW limit \in Nat \ {0}, NEW types, NEW cursor \in Nat,
         NEW seen \in Seq(SUBSET Nat), DiffRead(base, head, limit, types, cursor, seen, "reading"),
         NEW page, page = Page(base, head, types, limit, cursor),
         NEW status, status = IF page.next = 0 THEN "done" ELSE "reading"
  PROVE  /\ page.rows \in SUBSET Nat /\ page.next \in Nat
         /\ DiffRead(base, head, limit, types, page.next, Append(seen, page.rows), status)
<1>1. PICK wanted \in SUBSET Paths : wanted = WantedRows(base, head, types)
  <2>1. WantedRows(base, head, types) \in SUBSET Paths
    BY DEF WantedRows, RowsOfDiff, Manifest, Paths
  <2> QED BY <2>1
<1>2. PICK rows \in SUBSET wanted : rows = RowsAfter(base, head, types, cursor)
  <2>1. RowsAfter(base, head, types, cursor) \subseteq wanted
    BY <1>1 DEF RowsAfter, WantedRows
  <2> QED BY <2>1
<1>3. PICK now, next : now = page.rows /\ next = page.next
  OBVIOUS
<1>4. /\ now \subseteq rows /\ Cardinality(now) <= limit
      /\ \A p \in now, q \in rows \ now : Follows(base, head, q, p)
      /\ next = 0 => now = rows
      /\ next # 0 => next \in now /\ \A q \in now : q = next \/ Follows(base, head, next, q)
  <2>1. IsPage(base, head, limit, rows, page.rows, page.next)
    BY <1>2, DiffPageFacts
  <2> QED BY <1>3, <2>1 DEF IsPage
<1>5. Paths \subseteq Nat /\ 0 \notin Paths
  BY BundleConstants DEF Paths
<1>6. now \in SUBSET Nat /\ now \subseteq Paths /\ next \in {0} \cup Paths /\ next \in Nat
  <2>1. now \subseteq Paths
    BY <1>1, <1>2, <1>4
  <2>2. next = 0 \/ next \in Paths
    BY <1>4, <2>1
  <2>3. now \in SUBSET Nat
    BY <1>5, <2>1
  <2>4. next \in Nat
    <3>1. CASE next = 0
      BY <3>1
    <3>2. CASE next \in Paths
      BY <1>5, <3>2
    <3> QED BY <2>2, <3>1, <3>2
  <2> QED BY <2>1, <2>2, <2>3, <2>4
<1>7. \A p \in wanted, c \in Nat : p \in RowsAfter(base, head, types, c) <=> (c # 0 => Follows(base, head, p, c))
  BY <1>1 DEF RowsAfter, WantedRows
<1>8. SeenRows(seen) = wanted \ rows
  BY <1>1, <1>2 DEF DiffRead
<1>9. PICK n \in Nat : n = Len(seen) /\ DOMAIN seen = 1..n
  OBVIOUS
<1>10. PICK more \in Seq(SUBSET Nat) : more = Append(seen, now)
  <2>1. Append(seen, now) \in Seq(SUBSET Nat)
    BY <1>6
  <2> QED BY <2>1
<1>11. DOMAIN more = 1..(n + 1) /\ more[n + 1] = now /\ \A i \in 1..n : more[i] = seen[i]
  BY <1>6, <1>9, <1>10
<1>12. \A i \in 1..(n + 1) : i \in 1..n \/ i = n + 1
  OBVIOUS
<1>13. SeenRows(more) = (wanted \ rows) \cup now
  <2>1. \A p : p \in SeenRows(more) <=> \E i \in 1..(n + 1) : p \in more[i]
    BY <1>11 DEF SeenRows
  <2>2. \A p : p \in SeenRows(seen) <=> \E i \in 1..n : p \in seen[i]
    BY <1>9 DEF SeenRows
  <2>3. ASSUME NEW p
        PROVE  p \in SeenRows(more) <=> p \in SeenRows(seen) \/ p \in now
    <3>1. ASSUME NEW i \in 1..(n + 1), p \in more[i]
          PROVE  p \in SeenRows(seen) \/ p \in now
      <4>1. CASE i \in 1..n
        BY <1>11, <2>2, <3>1, <4>1
      <4>2. CASE i = n + 1
        BY <1>11, <3>1, <4>2
      <4> QED BY <1>12, <4>1, <4>2
    <3>2. ASSUME NEW i \in 1..n, p \in seen[i]
          PROVE  p \in SeenRows(more)
      <4>1. i \in 1..(n + 1) /\ p \in more[i]
        BY <1>11, <3>2
      <4> QED BY <2>1, <4>1
    <3>3. ASSUME p \in now
          PROVE  p \in SeenRows(more)
      <4>1. n + 1 \in 1..(n + 1) /\ p \in more[n + 1]
        BY <1>11, <3>3
      <4> QED BY <2>1, <4>1
    <3> QED BY <2>1, <2>2, <3>1, <3>2, <3>3
  <2> QED BY <1>8, <2>3
<1>14. ASSUME NEW p \in wanted \ rows
       PROVE  /\ cursor # 0 /\ cursor \in Paths /\ ~Follows(base, head, p, cursor)
              /\ \A q \in rows : Follows(base, head, q, p)
  <2>1. cursor # 0 /\ ~Follows(base, head, p, cursor)
    BY <1>2, <1>7
  <2>2. cursor \in Paths
    BY <2>1 DEF DiffRead
  <2>3. ASSUME NEW q \in rows
        PROVE  Follows(base, head, q, p)
    <3>1. Follows(base, head, q, cursor)
      BY <1>2, <1>7, <2>1
    <3>2. p \in Paths /\ q \in Paths
      BY <1>1, <1>2
    <3>3. CASE p = cursor
      BY <3>1, <3>3
    <3>4. CASE p # cursor
      <4>1. Follows(base, head, cursor, p)
        BY <2>1, <2>2, <3>2, <3>4, FollowsFacts
      <4> QED BY <2>2, <3>1, <3>2, <4>1, FollowsFacts
    <3> QED BY <3>3, <3>4
  <2> QED BY <2>1, <2>2, <2>3
<1>15. \A i \in DOMAIN more : Cardinality(more[i]) <= limit
  BY <1>4, <1>9, <1>11, <1>12 DEF DiffRead
<1>16. ASSUME NEW i \in DOMAIN more, NEW j \in DOMAIN more, i < j, NEW p \in more[i], NEW q \in more[j]
       PROVE  Follows(base, head, q, p)
  <2>1. i \in 1..n
    BY <1>11, <1>16
  <2>2. p \in seen[i] /\ i \in DOMAIN seen
    BY <1>9, <1>11, <2>1
  <2>3. CASE j \in 1..n
    <3>1. q \in seen[j] /\ j \in DOMAIN seen
      BY <1>9, <1>11, <2>3
    <3> QED BY <1>16, <2>2, <3>1 DEF DiffRead
  <2>4. CASE j = n + 1
    <3>1. q \in rows
      BY <1>4, <1>11, <2>4
    <3>2. p \in SeenRows(seen)
      BY <2>2 DEF SeenRows
    <3> QED BY <1>8, <1>14, <3>1, <3>2
  <2> QED BY <1>11, <1>12, <2>3, <2>4
<1>17. status = "done" => SeenRows(more) = wanted
  BY <1>2, <1>3, <1>4, <1>13
<1>18. ASSUME status = "reading"
       PROVE  SeenRows(more) = wanted \ RowsAfter(base, head, types, next)
  <2>1. next # 0 /\ next \in now /\ next \in Paths
    BY <1>3, <1>4, <1>6, <1>18
  <2>2. ASSUME NEW p \in wanted
        PROVE  p \in SeenRows(more) <=> ~Follows(base, head, p, next)
    <3>1. p \in Paths
      BY <1>1
    <3>2. CASE p \in wanted \ rows
      <4>1. Follows(base, head, next, p)
        BY <1>4, <1>14, <2>1, <3>2
      <4> QED BY <1>13, <2>1, <3>1, <3>2, <4>1, FollowsFacts
    <3>3. CASE p \in now
      <4>1. p = next \/ Follows(base, head, next, p)
        BY <1>4, <2>1, <3>3
      <4> QED BY <1>13, <2>1, <3>1, <3>3, <4>1, FollowsFacts
    <3>4. CASE p \in rows \ now
      <4>1. Follows(base, head, p, next)
        BY <1>4, <2>1, <3>4
      <4> QED BY <1>13, <3>4, <4>1
    <3> QED BY <3>2, <3>3, <3>4
  <2>3. \A p \in wanted : p \in RowsAfter(base, head, types, next) <=> Follows(base, head, p, next)
    BY <1>6, <1>7, <2>1
  <2>4. SeenRows(more) \subseteq wanted
    BY <1>2, <1>4, <1>13
  <2> QED BY <2>2, <2>3, <2>4
<1>19. DiffRead(base, head, limit, types, next, more, status)
  BY <1>1, <1>6, <1>15, <1>16, <1>17, <1>18 DEF DiffRead
<1> QED BY <1>3, <1>6, <1>10, <1>19

\* What is given keeps to the invariant.
LEMMA BundleStart == BundleInit => BundleIInv
<1> USE BundleConstants
<1>1. \A S : \A n \in Nat : UpTo(S, n) \subseteq Seq(S)
  BY DEF UpTo
<1>2. Component # {} /\ PlainEntry \subseteq EntryShape
  <2>1. {<<"a">>, <<"a", "b">>, <<"b", "here">>, <<"b", "none">>} \subseteq Name
    <3>1. <<"a">> \in [1..1 -> Component] /\ <<"a", "b">> \in [1..2 -> Component]
          /\ <<"b", "here">> \in [1..2 -> Component] /\ <<"b", "none">> \in [1..2 -> Component]
      BY DEF Component
    <3>2. [1..1 -> Component] \subseteq Name /\ [1..2 -> Component] \subseteq Name
      BY DEF Name
    <3> QED BY <3>1, <3>2
  <2>2. {1, 2} \subseteq Nat
    OBVIOUS
  <2> QED BY <2>1, <2>2 DEF PlainEntry, EntryShape, Component
<1>3. Entry \subseteq EntryShape
  <2>1. {0, 1, 2} \subseteq Nat
    OBVIOUS
  <2> QED BY <2>1 DEF Entry, EntryShape
<1>4. ASSUME NEW zip \in UpTo(PlainEntry, MaxEntries), bundle = [kind |-> "zip", zip |-> zip]
      PROVE  bundle \in ZipStates
  <2>1. zip \in Seq(PlainEntry)
    BY <1>1
  <2>2. zip \in Seq(EntryShape)
    BY <1>2, <2>1
  <2> QED BY <1>4, <2>2 DEF ZipStates
<1>5. ASSUME NEW a \in Entry, NEW b \in Entry, bundle = [kind |-> "zip", zip |-> <<a, b>>]
      PROVE  bundle \in ZipStates
  <2>1. <<a, b>> \in Seq(EntryShape)
    BY <1>3
  <2> QED BY <1>5, <2>1 DEF ZipStates
<1>6. ASSUME NEW lines \in UpTo(Line, MaxTextLines), NEW markdown \in BOOLEAN,
             bundle = [kind |-> "text", lines |-> lines, markdown |-> markdown]
      PROVE  bundle \in TextStates
  <2>1. lines \in Seq(Line)
    BY <1>1
  <2> QED BY <1>6, <2>1 DEF TextStates
<1>7. ASSUME NEW base \in Manifest, NEW head \in Manifest, NEW limit \in 1..MaxPaths,
             NEW types \in {{"added", "deleted"}, {"added", "changed", "deleted", "unchanged"}},
             bundle = [kind |-> "diff", base |-> base, head |-> head, limit |-> limit, types |-> types,
                       cursor |-> 0, seen |-> <<>>, status |-> "reading"]
      PROVE  BundleIInv
  <2>1. PICK seen \in Seq(SUBSET Nat) : seen = <<>>
    <3>1. <<>> \in Seq(SUBSET Nat)
      OBVIOUS
    <3> QED BY <3>1
  <2>2. limit \in Nat \ {0} /\ types \in SUBSET Changes
    <3>1. limit \in Nat \ {0}
      OBVIOUS
    <3> QED BY <3>1 DEF Changes
  <2>3. bundle \in DiffStates
    BY <1>7, <2>1, <2>2 DEF DiffStates
  <2>4. DOMAIN seen = {} /\ SeenRows(seen) = {}
    BY <2>1 DEF SeenRows
  <2>5. RowsAfter(base, head, types, 0) = WantedRows(base, head, types)
    BY DEF RowsAfter, WantedRows
  <2>6. WantedRows(base, head, types) \ RowsAfter(base, head, types, 0) = {}
    BY <2>5
  <2>7. DiffRead(base, head, limit, types, 0, seen, "reading")
    BY <2>4, <2>6 DEF DiffRead
  <2> QED BY <1>7, <2>1, <2>3, <2>7 DEF BundleIInv
<1> QED BY <1>4, <1>5, <1>6, <1>7 DEF BundleInit, BundleIInv

\* So does a page.
LEMMA BundleStep == BundleIInv /\ [BundleNext]_bundle => BundleIInv'
<1>1. ASSUME BundleIInv, ReadDiff
      PROVE  BundleIInv'
  <2>1. bundle.kind = "diff" /\ bundle.status = "reading"
    BY <1>1 DEF ReadDiff
  <2>2. /\ bundle \in DiffStates
        /\ DiffRead(bundle.base, bundle.head, bundle.limit, bundle.types, bundle.cursor, bundle.seen, bundle.status)
    BY <1>1, <2>1 DEF BundleIInv, ZipStates, TextStates
  <2>3. PICK base \in Manifest, head \in Manifest, limit \in Nat \ {0}, types \in SUBSET Changes,
             cursor \in Nat, seen \in Seq(SUBSET Nat) :
          bundle = [kind |-> "diff", base |-> base, head |-> head, limit |-> limit, types |-> types,
                    cursor |-> cursor, seen |-> seen, status |-> "reading"]
    BY <2>1, <2>2 DEF DiffStates
  <2>4. DiffRead(base, head, limit, types, cursor, seen, "reading")
    BY <2>2, <2>3
  <2>5. PICK page : page = Page(base, head, types, limit, cursor)
    OBVIOUS
  <2>6. PICK status \in {"reading", "done"} : status = IF page.next = 0 THEN "done" ELSE "reading"
    OBVIOUS
  <2>7. /\ page.rows \in SUBSET Nat /\ page.next \in Nat
        /\ DiffRead(base, head, limit, types, page.next, Append(seen, page.rows), status)
    BY <2>4, <2>5, <2>6, PageReads
  <2>8. PICK more \in Seq(SUBSET Nat), next \in Nat : more = Append(seen, page.rows) /\ next = page.next
    <3>1. Append(seen, page.rows) \in Seq(SUBSET Nat)
      BY <2>7
    <3> QED BY <2>7, <3>1
  <2>9. bundle' = [bundle EXCEPT !.seen = more, !.cursor = next, !.status = status]
    <3>1. bundle.base = base /\ bundle.head = head /\ bundle.types = types /\ bundle.limit = limit
          /\ bundle.cursor = cursor /\ bundle.seen = seen /\ bundle.status = "reading"
      BY <2>3
    <3>2. bundle' = [bundle EXCEPT !.seen = Append(@, page.rows), !.cursor = page.next,
                                   !.status = IF page.next = 0 THEN "done" ELSE @]
      BY <1>1, <2>5, <3>1 DEF ReadDiff
    <3>3. Append(bundle.seen, page.rows) = more /\ (IF page.next = 0 THEN "done" ELSE bundle.status) = status
      BY <2>6, <2>8, <3>1
    <3> QED BY <2>8, <3>2, <3>3
  <2>10. bundle' = [kind |-> "diff", base |-> base, head |-> head, limit |-> limit, types |-> types,
                    cursor |-> next, seen |-> more, status |-> status]
    BY <2>3, <2>9
  <2>11. DiffRead(base, head, limit, types, next, more, status)
    BY <2>7, <2>8
  <2>12. PICK now : now = bundle'
    OBVIOUS
  <2>13. now \in DiffStates
    BY <2>10, <2>12 DEF DiffStates
  <2>14. DiffRead(now.base, now.head, now.limit, now.types, now.cursor, now.seen, now.status)
    BY <2>10, <2>11, <2>12
  <2> QED BY <2>12, <2>13, <2>14 DEF BundleIInv, DiffStates, ZipStates, TextStates, DiffRead, Manifest,
             SeenRows, WantedRows, RowsAfter, Follows
<1>2. ASSUME BundleIInv, UNCHANGED bundle
      PROVE  BundleIInv'
  BY <1>2 DEF BundleIInv
<1> QED BY <1>1, <1>2 DEF BundleNext

\* Bundles keep to the invariant, for any entries, texts, manifests and limits.
THEOREM BundleInvariance == BundleSpec => []BundleIInv
<1> QED BY BundleStart, BundleStep, PTL DEF BundleSpec

\* A client gets every row it asked for once, in order.
LEMMA PagesHold == BundleIInv => PagesHoldTheDiff
<1> SUFFICES ASSUME BundleIInv, bundle.kind = "diff"
             PROVE  PagesHoldTheDiff
  BY DEF PagesHoldTheDiff
<1>1. /\ bundle \in DiffStates
      /\ DiffRead(bundle.base, bundle.head, bundle.limit, bundle.types, bundle.cursor, bundle.seen, bundle.status)
  BY DEF BundleIInv, ZipStates, TextStates
<1>2. PICK base \in Manifest, head \in Manifest, seen \in Seq(SUBSET Nat), n \in Nat :
        base = bundle.base /\ head = bundle.head /\ seen = bundle.seen /\ n = Len(seen) /\ DOMAIN seen = 1..n
  BY <1>1 DEF DiffStates
<1>3. /\ \A i \in DOMAIN seen : Cardinality(seen[i]) <= bundle.limit
      /\ \A i, j \in DOMAIN seen : i < j => \A p \in seen[i], q \in seen[j] : Follows(base, head, q, p)
      /\ bundle.status = "done" => SeenRows(seen) = WantedRows(base, head, bundle.types)
      /\ SeenRows(seen) \subseteq WantedRows(base, head, bundle.types)
  <2>1. bundle.status \in {"reading", "done"}
    BY <1>1 DEF DiffStates
  <2> QED BY <1>1, <1>2, <2>1 DEF DiffRead
<1>4. \A i \in DOMAIN seen : seen[i] \subseteq Paths
  <2>1. WantedRows(base, head, bundle.types) \subseteq Paths
    BY DEF WantedRows, RowsOfDiff, Manifest, Paths
  <2>2. \A i \in DOMAIN seen : seen[i] \subseteq SeenRows(seen)
    BY DEF SeenRows
  <2> QED BY <1>3, <2>1, <2>2
<1>5. ASSUME NEW i \in DOMAIN seen, NEW j \in DOMAIN seen, i < j
      PROVE  /\ seen[i] \cap seen[j] = {}
             /\ \A p \in seen[i], q \in seen[j] :
                  Rank(Change(base[p], head[p])) <= Rank(Change(base[q], head[q]))
  <2>1. \A p \in seen[i], q \in seen[j] : Follows(base, head, q, p) /\ p \in Paths /\ q \in Paths
    BY <1>3, <1>4, <1>5
  <2>2. \A p \in seen[i], q \in seen[j] : Rank(Change(base[p], head[p])) <= Rank(Change(base[q], head[q]))
    BY <2>1, FollowsFacts
  <2>3. \A p \in seen[i] : p \notin seen[j]
    BY <2>1, FollowsFacts
  <2> QED BY <2>2, <2>3
<1>6. ASSUME NEW i \in DOMAIN seen, NEW j \in DOMAIN seen, i # j
      PROVE  seen[i] \cap seen[j] = {}
  <2>1. i < j \/ j < i
    BY <1>2, <1>6
  <2> QED BY <1>5, <2>1
<1>7. bundle.status = "done" => SeenRows(seen)
        = {p \in RowsOfDiff(base, head) : Change(base[p], head[p]) \in bundle.types}
  BY <1>3 DEF WantedRows
<1> QED BY <1>2, <1>3, <1>5, <1>6, <1>7 DEF PagesHoldTheDiff, SeenRows

\* A folder bundle is unpacked, cut into sections and compared without loss, for any archives,
\* texts, manifests, windows and limits.
THEOREM BundlesFaithful == BundleSpec => []BundlesAreFaithful
<1>1. BundleIInv => BundlesAreFaithful
  <2>1. BundleIInv => ArchiveLands
    <3>1. bundle.kind = "zip" /\ BundleIInv => bundle \in ZipStates
      BY DEF BundleIInv, TextStates, DiffStates
    <3> QED BY <3>1, ArchivesLand DEF ArchiveLands
  <2>2. BundleIInv => SectionsPartition
    <3>1. bundle.kind = "text" /\ BundleIInv => bundle \in TextStates
      BY DEF BundleIInv, ZipStates, DiffStates
    <3> QED BY <3>1, SectionsCut DEF SectionsPartition
  <2> QED BY <2>1, <2>2, PagesHold DEF BundlesAreFaithful
<1> QED BY <1>1, BundleInvariance, PTL

-----------------------------------------------------------------------------
(* Retrieval: rankings *)

\* The members of a sequence, and how many there are when none is twice in it.
LEMMA MembersOf ==
  ASSUME NEW S, NEW s \in Seq(S)
  PROVE  /\ Range(s) \subseteq S /\ Range(s) = {s[i] : i \in 1..Len(s)}
         /\ IsFiniteSet(Range(s)) /\ Cardinality(Range(s)) \in Nat
         /\ IsInjective(s) => Cardinality(Range(s)) = Len(s)
<1>1. PICK n \in Nat : n = Len(s) /\ DOMAIN s = 1..n /\ s \in [1..n -> S]
  OBVIOUS
<1>2. PICK R : R = Range(s)
  OBVIOUS
<1>3. R = {s[i] : i \in 1..n} /\ R \subseteq S
  BY <1>1, <1>2 DEF Range
<1>4. s \in Surjection(1..n, R)
  <2>1. s \in [1..n -> R] /\ \A x \in R : \E i \in 1..n : s[i] = x
    BY <1>1, <1>3
  <2> QED BY <2>1 DEF Surjection
<1>5. IsFiniteSet(1..n) /\ Cardinality(1..n) = n
  <2>1. 1 \in Int /\ n \in Int
    OBVIOUS
  <2> QED BY <2>1, FS_Interval
<1>6. IsFiniteSet(R) /\ (Cardinality(R) = Cardinality(1..n) <=> s \in Injection(1..n, R))
  BY <1>4, <1>5, FS_Surjection
<1>7. Cardinality(R) \in Nat
  BY <1>6, FS_CardinalityType
<1>8. IsInjective(s) => s \in Injection(1..n, R)
  BY <1>1, <1>3 DEF Injection
<1> QED BY <1>1, <1>2, <1>3, <1>5, <1>6, <1>7, <1>8

\* One member more.
LEMMA OneMore ==
  ASSUME NEW S, NEW s \in Seq(S), NEW x \in S
  PROVE  /\ Append(s, x) \in Seq(S) /\ Range(Append(s, x)) = Range(s) \cup {x}
         /\ Len(Append(s, x)) = Len(s) + 1
         /\ IsInjective(s) /\ x \notin Range(s) => IsInjective(Append(s, x))
<1>1. PICK n \in Nat : n = Len(s) /\ DOMAIN s = 1..n
  OBVIOUS
<1>2. PICK t : t = Append(s, x)
  OBVIOUS
<1>3. t \in Seq(S) /\ Len(t) = n + 1
  BY <1>1, <1>2
<1>4. DOMAIN t = 1..(n + 1) /\ t[n + 1] = x /\ \A i \in 1..n : t[i] = s[i]
  BY <1>1, <1>2, <1>3
<1>5. \A i : i \in 1..(n + 1) <=> i \in 1..n \/ i = n + 1
  OBVIOUS
<1>6. Range(t) = Range(s) \cup {x}
  BY <1>1, <1>4, <1>5 DEF Range
<1>7. ASSUME IsInjective(s), x \notin Range(s)
      PROVE  IsInjective(t)
  <2>1. \A i, j \in 1..n : s[i] = s[j] => i = j
    BY <1>1, <1>7 DEF IsInjective
  <2>2. \A i \in 1..n : s[i] # x
    BY <1>1, <1>7 DEF Range
  <2>3. \A i, j \in 1..(n + 1) : t[i] = t[j] => i = j
    BY <1>4, <1>5, <2>1, <2>2
  <2> QED BY <1>4, <2>3 DEF IsInjective
<1> QED BY <1>1, <1>2, <1>3, <1>6, <1>7

\* The first members.
LEMMA FirstOnes ==
  ASSUME NEW S, NEW s \in Seq(S), NEW m \in 0..Len(s)
  PROVE  /\ SubSeq(s, 1, m) \in Seq(S) /\ Len(SubSeq(s, 1, m)) = m
         /\ \A i \in 1..m : SubSeq(s, 1, m)[i] = s[i]
         /\ Range(SubSeq(s, 1, m)) = {s[i] : i \in 1..m} /\ Range(SubSeq(s, 1, m)) \subseteq Range(s)
         /\ IsInjective(s) => IsInjective(SubSeq(s, 1, m))
<1>1. PICK n \in Nat : n = Len(s) /\ DOMAIN s = 1..n
  OBVIOUS
<1>2. PICK t : t = SubSeq(s, 1, m)
  OBVIOUS
<1>3. m \in Nat /\ m <= n /\ \A i \in 1..m : i \in 1..n
  BY <1>1
<1>4. t \in Seq(S) /\ Len(t) = m
  BY <1>1, <1>2, <1>3
<1>5. DOMAIN t = 1..m /\ \A i \in 1..m : t[i] = s[i]
  BY <1>1, <1>2, <1>3, <1>4
<1>6. Range(t) = {s[i] : i \in 1..m} /\ Range(t) \subseteq Range(s)
  BY <1>1, <1>3, <1>5 DEF Range
<1>7. IsInjective(s) => IsInjective(t)
  BY <1>1, <1>3, <1>5 DEF IsInjective
<1> QED BY <1>2, <1>4, <1>5, <1>6, <1>7

\* Two sequences with nothing in common, one after the other.
LEMMA OneAfterOther ==
  ASSUME NEW S, NEW s \in Seq(S), NEW t \in Seq(S)
  PROVE  /\ s \o t \in Seq(S) /\ Len(s \o t) = Len(s) + Len(t)
         /\ Range(s \o t) = Range(s) \cup Range(t)
         /\ IsInjective(s) /\ IsInjective(t) /\ Range(s) \cap Range(t) = {} => IsInjective(s \o t)
<1>1. PICK n \in Nat, m \in Nat : n = Len(s) /\ DOMAIN s = 1..n /\ m = Len(t) /\ DOMAIN t = 1..m
  OBVIOUS
<1>2. PICK u : u = s \o t
  OBVIOUS
<1>3. u \in Seq(S) /\ Len(u) = n + m
  BY <1>1, <1>2
<1>4. /\ DOMAIN u = 1..(n + m)
      /\ \A i \in 1..n : u[i] = s[i]
      /\ \A i \in 1..m : u[n + i] = t[i]
  BY <1>1, <1>2, <1>3
<1>5. \A i \in 1..(n + m) : i \in 1..n \/ (i > n /\ i - n \in 1..m /\ i = n + (i - n))
  OBVIOUS
<1>6. \A i \in 1..n : i \in 1..(n + m)
  OBVIOUS
<1>7. \A i \in 1..m : n + i \in 1..(n + m)
  OBVIOUS
<1>8. \A i \in 1..(n + m) : i > n /\ i - n \in 1..m => u[i] = t[i - n]
  BY <1>4, <1>5
<1>9. Range(u) = Range(s) \cup Range(t)
  <2>1. Range(u) = {u[i] : i \in 1..(n + m)} /\ Range(s) = {s[i] : i \in 1..n} /\ Range(t) = {t[i] : i \in 1..m}
    BY <1>1, <1>4 DEF Range
  <2>2. \A i \in 1..(n + m) : u[i] \in Range(s) \cup Range(t)
    BY <1>4, <1>5, <1>8, <2>1
  <2>3. \A i \in 1..n : s[i] \in Range(u)
    BY <1>4, <1>6, <2>1
  <2>4. \A i \in 1..m : t[i] \in Range(u)
    BY <1>4, <1>7, <2>1
  <2> QED BY <2>1, <2>2, <2>3, <2>4
<1>10. ASSUME IsInjective(s), IsInjective(t), Range(s) \cap Range(t) = {}
       PROVE  IsInjective(u)
  <2>1. \A i, j \in 1..n : s[i] = s[j] => i = j
    BY <1>1, <1>10 DEF IsInjective
  <2>2. \A i, j \in 1..m : t[i] = t[j] => i = j
    BY <1>1, <1>10 DEF IsInjective
  <2>3. \A i \in 1..n, j \in 1..m : s[i] # t[j]
    BY <1>1, <1>10 DEF Range
  <2>4. ASSUME NEW i \in 1..(n + m), NEW j \in 1..(n + m), u[i] = u[j]
        PROVE  i = j
    <3>1. CASE i \in 1..n /\ j \in 1..n
      BY <1>4, <2>1, <2>4, <3>1
    <3>2. CASE i \in 1..n /\ j > n /\ j - n \in 1..m
      BY <1>4, <1>8, <2>3, <2>4, <3>2
    <3>3. CASE j \in 1..n /\ i > n /\ i - n \in 1..m
      BY <1>4, <1>8, <2>3, <2>4, <3>3
    <3>4. CASE i > n /\ i - n \in 1..m /\ j > n /\ j - n \in 1..m
      <4>1. t[i - n] = t[j - n]
        BY <1>8, <2>4, <3>4
      <4>2. i - n = j - n
        BY <2>2, <3>4, <4>1
      <4> QED BY <1>1, <3>4, <4>2
    <3> QED BY <1>5, <3>1, <3>2, <3>3, <3>4
  <2> QED BY <1>4, <2>4 DEF IsInjective
<1> QED BY <1>1, <1>2, <1>3, <1>9, <1>10

\* Two scores of each chunk, which rank any two chunks.
Scores(score, chunks) == \A c \in chunks : score[c][1] \in Int /\ score[c][2] \in Int

\* The chunks above each.
AllAbove(score, chunks) == [c \in chunks |-> {d \in chunks : Above(score, d, c)}]

LEMMA AboveRanks ==
  ASSUME NEW chunks \in SUBSET Nat, NEW score, Scores(score, chunks)
  PROVE  Ranks(AllAbove(score, chunks), chunks)
<1>1. PICK before : before = AllAbove(score, chunks)
  OBVIOUS
<1>2. /\ before \in [chunks -> SUBSET chunks]
      /\ \A c, d \in chunks : d \in before[c] <=> Above(score, d, c)
  BY <1>1 DEF AllAbove
<1>3. ASSUME NEW c \in chunks
      PROVE  ~Above(score, c, c)
  <2>1. score[c][1] \in Int /\ score[c][2] \in Int /\ c \in Nat
    BY DEF Scores
  <2> QED BY <2>1 DEF Above
<1>4. ASSUME NEW c \in chunks, NEW d \in chunks, NEW e \in chunks, Above(score, d, c), Above(score, e, d)
      PROVE  Above(score, e, c)
  <2>1. /\ score[c][1] \in Int /\ score[c][2] \in Int /\ c \in Nat
        /\ score[d][1] \in Int /\ score[d][2] \in Int /\ d \in Nat
        /\ score[e][1] \in Int /\ score[e][2] \in Int /\ e \in Nat
    BY DEF Scores
  <2> QED BY <1>4, <2>1 DEF Above
<1>5. ASSUME NEW c \in chunks, NEW d \in chunks
      PROVE  c = d \/ Above(score, c, d) \/ Above(score, d, c)
  <2>1. /\ score[c][1] \in Int /\ score[c][2] \in Int /\ c \in Nat
        /\ score[d][1] \in Int /\ score[d][2] \in Int /\ d \in Nat
    BY DEF Scores
  <2> QED BY <2>1 DEF Above
<1>6. \A c \in chunks : c \notin before[c]
  BY <1>2, <1>3
<1>7. \A c, d \in chunks : d \in before[c] => before[d] \subseteq before[c]
  <2> SUFFICES ASSUME NEW c \in chunks, NEW d \in chunks, d \in before[c], NEW e \in before[d]
               PROVE  e \in before[c]
    OBVIOUS
  <2>1. e \in chunks
    BY <1>2
  <2>2. Above(score, d, c) /\ Above(score, e, d)
    BY <1>2, <2>1
  <2>3. Above(score, e, c)
    BY <1>4, <2>1, <2>2
  <2> QED BY <1>2, <2>1, <2>3
<1>8. \A c, d \in chunks : c = d \/ c \in before[d] \/ d \in before[c]
  BY <1>2, <1>5
<1> QED BY <1>1, <1>2, <1>6, <1>7, <1>8 DEF Ranks

\* In an order that ranks, some member has exactly that many before it.
LEMMA OneAtEachPlace ==
  ASSUME NEW S, IsFiniteSet(S), NEW before, Ranks(before, S), NEW i \in 1..Cardinality(S)
  PROVE  \E c \in S : Cardinality(before[c]) = i - 1
<1>1. PICK n \in Nat : n = Cardinality(S)
  BY FS_CardinalityType
<1>2. i \in Nat /\ i - 1 \in Nat /\ i <= n
  BY <1>1
<1>3. PICK low : low = FirstOf(before, S, i - 1)
  OBVIOUS
<1>4. PICK high : high = FirstOf(before, S, i)
  OBVIOUS
<1>5. IsFiniteSet(low) /\ Cardinality(low) \in Nat /\ Cardinality(low) <= i - 1
  BY <1>2, <1>3, FirstMembers
<1>6. high \subseteq S /\ Cardinality(high) \in Nat /\ (high # S => Cardinality(high) = i)
  BY <1>2, <1>4, FirstMembers
<1>7. Cardinality(high) >= i
  BY <1>1, <1>2, <1>6
<1>8. PICK c \in high : c \notin low
  <2> SUFFICES ASSUME high \subseteq low
               PROVE  FALSE
    OBVIOUS
  <2>1. Cardinality(high) <= Cardinality(low)
    BY <1>5, FS_Subset
  <2> QED BY <1>2, <1>5, <1>6, <1>7, <2>1
<1>9. c \in S /\ Cardinality(before[c]) < i /\ ~(Cardinality(before[c]) < i - 1)
  BY <1>3, <1>4, <1>6, <1>8 DEF FirstOf
<1>10. Cardinality(before[c]) \in Nat
  <2>1. before[c] \subseteq S
    BY <1>9 DEF Ranks
  <2>2. IsFiniteSet(before[c])
    BY <2>1, FS_Subset
  <2> QED BY <2>2, FS_CardinalityType
<1>11. Cardinality(before[c]) = i - 1
  BY <1>2, <1>9, <1>10
<1> QED BY <1>9, <1>11

\* Sorting keeps every chunk, once, and puts none before one above it.
LEMMA SortingSorts ==
  ASSUME NEW chunks \in SUBSET Nat, IsFiniteSet(chunks), NEW score, Scores(score, chunks)
  PROVE  /\ Ranked(chunks, score) \in Seq(chunks) /\ IsInjective(Ranked(chunks, score))
         /\ Range(Ranked(chunks, score)) = chunks /\ Len(Ranked(chunks, score)) = Cardinality(chunks)
         /\ \A i, j \in 1..Cardinality(chunks) :
               i < j => Above(score, Ranked(chunks, score)[i], Ranked(chunks, score)[j])
<1>1. PICK n \in Nat : n = Cardinality(chunks)
  BY FS_CardinalityType
<1>2. PICK before : before = AllAbove(score, chunks)
  OBVIOUS
<1>3. Ranks(before, chunks)
  BY <1>2, AboveRanks
<1>4. PICK ranking : ranking = Ranked(chunks, score)
  OBVIOUS
<1>13. PICK places : places = {<<c, Cardinality({d \in chunks : Above(score, d, c)})>> : c \in chunks}
  OBVIOUS
<1>5. ranking = [i \in 1..n |-> (CHOOSE p \in places : p[2] = i - 1)[1]]
  BY <1>1, <1>4, <1>13 DEF Ranked
<1>6. places = {<<c, Cardinality(before[c])>> : c \in chunks} /\ \A c, d \in chunks : d \in before[c] <=> Above(score, d, c)
  <2>1. \A c \in chunks : before[c] = {d \in chunks : Above(score, d, c)}
    BY <1>2 DEF AllAbove
  <2> QED BY <1>13, <2>1
<1>7. ASSUME NEW i \in 1..n
      PROVE  ranking[i] \in chunks /\ Cardinality(before[ranking[i]]) = i - 1
  <2>1. \E c \in chunks : Cardinality(before[c]) = i - 1
    BY <1>1, <1>3, OneAtEachPlace
  <2>2. PICK p : p = CHOOSE q \in places : q[2] = i - 1
    OBVIOUS
  <2>3. \E q \in places : q[2] = i - 1
    <3>1. PICK c \in chunks : Cardinality(before[c]) = i - 1
      BY <2>1
    <3>2. <<c, Cardinality(before[c])>> \in places
      BY <1>6
    <3>3. <<c, Cardinality(before[c])>>[2] = i - 1
      BY <3>1
    <3> QED BY <3>2, <3>3
  <2>4. p \in places /\ p[2] = i - 1
    BY <2>2, <2>3
  <2>5. PICK c \in chunks : p = <<c, Cardinality(before[c])>>
    BY <1>6, <2>4
  <2>6. ranking[i] = c
    <3>1. ranking[i] = p[1]
      BY <1>5, <2>2
    <3> QED BY <2>5, <3>1
  <2> QED BY <2>4, <2>5, <2>6
<1>8. ranking \in Seq(chunks) /\ Len(ranking) = n /\ DOMAIN ranking = 1..n
  <2>1. \A i \in 1..n : (CHOOSE p \in places : p[2] = i - 1)[1] \in chunks
    BY <1>5, <1>7
  <2>2. ranking \in [1..n -> chunks]
    BY <1>5, <2>1
  <2> QED BY <2>2
<1>9. \A i, j \in 1..n : ranking[i] = ranking[j] => i = j
  <2> SUFFICES ASSUME NEW i \in 1..n, NEW j \in 1..n, ranking[i] = ranking[j]
               PROVE  i = j
    OBVIOUS
  <2>1. i - 1 = j - 1
    BY <1>7
  <2> QED BY <2>1
<1>10. IsInjective(ranking)
  BY <1>8, <1>9 DEF IsInjective
<1>11. Range(ranking) = chunks
  <2>1. Range(ranking) \subseteq chunks /\ Cardinality(Range(ranking)) = n
    BY <1>8, <1>10, MembersOf
  <2> QED BY <1>1, <2>1, FS_Subset
<1>12. ASSUME NEW i \in 1..n, NEW j \in 1..n, i < j
       PROVE  Above(score, ranking[i], ranking[j])
  <2>1. PICK c \in chunks, d \in chunks : c = ranking[i] /\ d = ranking[j]
    BY <1>7
  <2>2. Cardinality(before[c]) = i - 1 /\ Cardinality(before[d]) = j - 1
    BY <1>7, <2>1
  <2>3. c # d
    BY <1>9, <1>12, <2>1
  <2>4. d \notin before[c]
    <3> SUFFICES ASSUME d \in before[c]
                 PROVE  FALSE
      OBVIOUS
    <3>1. before[d] \subseteq before[c] /\ before[c] \subseteq chunks
      BY <1>3 DEF Ranks
    <3>2. IsFiniteSet(before[c])
      BY <3>1, FS_Subset
    <3>3. Cardinality(before[d]) <= Cardinality(before[c])
      BY <3>1, <3>2, FS_Subset
    <3> QED BY <1>12, <2>2, <3>3
  <2>5. c \in before[d]
    BY <1>3, <2>3, <2>4 DEF Ranks
  <2> QED BY <1>6, <2>1, <2>5
<1> QED BY <1>1, <1>4, <1>8, <1>10, <1>11, <1>12

\* What has been emitted of a ranking.
Emission == [out : Seq(ChunkIds), series : SUBSET {Corpus[c].series : c \in ChunkIds}]

\* One chunk more, and perhaps one sibling of it: none is emitted twice.
LEMMA EmitFacts ==
  ASSUME NEW ranking \in Seq(ChunkIds), NEW k \in Nat, NEW acc \in Emission, NEW i \in 1..Len(ranking)
  PROVE  /\ Emit(ranking, k, acc, ranking[i]) \in Emission
         /\ IsInjective(acc.out) /\ Range(acc.out) \subseteq Range(ranking) =>
              /\ IsInjective(Emit(ranking, k, acc, ranking[i]).out)
              /\ Range(Emit(ranking, k, acc, ranking[i]).out) \subseteq Range(ranking)
              /\ Range(acc.out) \cup {ranking[i]} \subseteq Range(Emit(ranking, k, acc, ranking[i]).out)
<1> DEFINE Series == {Corpus[d].series : d \in ChunkIds}
<1>1. PICK out \in Seq(ChunkIds), series \in SUBSET Series : acc = [out |-> out, series |-> series]
  BY DEF Emission
<1>2. acc.out = out /\ acc.series = series
  BY <1>1
<1>3. PICK n \in Nat : n = Len(ranking) /\ Range(ranking) = {ranking[j] : j \in 1..n} /\ \A j \in 1..n : ranking[j] \in ChunkIds
  <2>1. Len(ranking) \in Nat /\ \A j \in 1..Len(ranking) : ranking[j] \in ChunkIds
    OBVIOUS
  <2> QED BY <2>1, MembersOf
<1>4. PICK c \in ChunkIds : c = ranking[i] /\ c \in Range(ranking)
  BY <1>3
<1>5. Corpus[c].series \in Series
  OBVIOUS
<1> HIDE DEF Series
<1>6. PICK siblings : siblings = Siblings(ranking, k, out, c)
  OBVIOUS
<1>7. PICK new : new = Emit(ranking, k, acc, c)
  OBVIOUS
<1>8. CASE c \in Range(out)
  <2>1. new = acc
    BY <1>2, <1>7, <1>8 DEF Emit
  <2> QED BY <1>2, <1>4, <1>7, <1>8, <2>1
<1>9. CASE c \notin Range(out) /\ (Corpus[c].series \in {NoText} \cup series \/ siblings = {})
  <2>1. PICK more \in Seq(ChunkIds) : more = Append(out, c)
    BY OneMore
  <2>2. Range(more) = Range(out) \cup {c} /\ (IsInjective(out) => IsInjective(more))
    BY <1>9, <2>1, OneMore
  <2>3. new = [acc EXCEPT !.out = Append(@, c)]
    BY <1>2, <1>6, <1>7, <1>9 DEF Emit
  <2>4. new = [out |-> more, series |-> series]
    <3>1. [acc EXCEPT !.out = Append(@, c)] = [acc EXCEPT !.out = more]
      BY <1>2, <2>1
    <3>2. [acc EXCEPT !.out = more] = [out |-> more, series |-> series]
      BY <1>1
    <3> QED BY <2>3, <3>1, <3>2
  <2>5. new \in Emission /\ new.out = more
    BY <2>4 DEF Emission, Series
  <2> QED BY <1>2, <1>4, <1>7, <2>2, <2>5
<1>10. CASE c \notin Range(out) /\ ~(Corpus[c].series \in {NoText} \cup series \/ siblings = {})
  <2>1. PICK m \in siblings : m = Min(siblings)
    <3>1. siblings \in SUBSET Nat
      BY <1>6, RetrievalConstants DEF Siblings, Lower, Higher
    <3>2. \E m \in siblings : \A j \in siblings : m <= j
      BY <1>10, <3>1, SmallestOf
    <3> QED BY <3>2 DEF Min
  <2>2. m \in 1..n /\ ranking[m] # c /\ ranking[m] \notin Range(out)
    BY <1>3, <1>6, RetrievalConstants DEF Siblings, Lower, Higher
  <2>3. PICK d \in ChunkIds : d = ranking[m] /\ d # c /\ d \notin Range(out) /\ d \in Range(ranking)
    BY <1>3, <2>2
  <2>4. PICK more \in Seq(ChunkIds) : more = Append(out, c)
    BY OneMore
  <2>5. Range(more) = Range(out) \cup {c} /\ (IsInjective(out) => IsInjective(more))
    BY <1>10, <2>4, OneMore
  <2>6. PICK all \in Seq(ChunkIds) : all = Append(more, d)
    BY OneMore
  <2>7. Range(all) = Range(more) \cup {d} /\ (IsInjective(more) => IsInjective(all))
    BY <2>3, <2>5, <2>6, OneMore
  <2>8. new = [out |-> Append(Append(out, c), ranking[Min(siblings)]), series |-> series \cup {Corpus[c].series}]
    BY <1>2, <1>6, <1>7, <1>10 DEF Emit
  <2>9. PICK named \in SUBSET Series : named = series \cup {Corpus[c].series}
    BY <1>5
  <2>10. new = [out |-> all, series |-> named]
    BY <2>1, <2>3, <2>4, <2>6, <2>8, <2>9
  <2>11. new \in Emission /\ new.out = all
    BY <2>10 DEF Emission, Series
  <2> QED BY <1>2, <1>4, <1>7, <2>3, <2>5, <2>7, <2>11
<1> QED BY <1>8, <1>9, <1>10

\* A ranking, chunk by chunk.
Emissions(ranking, k, g) ==
    g = [i \in 0..Len(ranking) |->
            IF i = 0 THEN [out |-> <<>>, series |-> {}] ELSE Emit(ranking, k, g[i - 1], ranking[i])]

\* Promotion permutes a ranking.
LEMMA PromotionPermutes ==
  ASSUME NEW ranking \in Seq(ChunkIds), IsInjective(ranking), NEW k \in Nat
  PROVE  /\ Promote(ranking, k) \in Seq(ChunkIds) /\ IsInjective(Promote(ranking, k))
         /\ Range(Promote(ranking, k)) = Range(ranking)
<1> DEFINE n == Len(ranking)
           X == Emission
           first == [out |-> <<>>, series |-> {}]
           step == [p \in (1..n) \X X |-> Emit(ranking, k, p[2], ranking[p[1]])]
<1>0. n \in Nat
  OBVIOUS
<1>1. step \in Steps(n, X)
  <2>1. ASSUME NEW p \in (1..n) \X X
        PROVE  Emit(ranking, k, p[2], ranking[p[1]]) \in X
    <3>1. p[2] \in X /\ p[1] \in 1..n
      BY <2>1
    <3> QED BY <3>1, EmitFacts
  <2> QED BY <2>1 DEF Steps
<1>2. \A i \in 1..n, x \in X : step[<<i, x>>] = Emit(ranking, k, x, ranking[i])
  OBVIOUS
<1>3. first \in X /\ first.out = <<>>
  <2>1. PICK out \in Seq(ChunkIds), series \in SUBSET {Corpus[c].series : c \in ChunkIds} : out = <<>> /\ series = {}
    <3>1. <<>> \in Seq(ChunkIds) /\ {} \in SUBSET {Corpus[c].series : c \in ChunkIds}
      OBVIOUS
    <3> QED BY <3>1
  <2>2. first = [out |-> out, series |-> series]
    BY <2>1
  <2> QED BY <2>1, <2>2 DEF Emission
<1> HIDE DEF step, n, X, first
<1>5. PICK s : Unfolds(s, n, X, first, step)
  BY <1>0, <1>1, <1>3, StepByStep
<1>6. s \in [0..n -> X] /\ s[0] = first /\ \A i \in 1..n : s[i] = step[<<i, s[i - 1]>>]
  BY <1>5 DEF Unfolds
<1>7. Emissions(ranking, k, s)
  <2>1. s = [i \in 0..n |-> s[i]]
    BY <1>6
  <2>2. \A i \in 0..n : s[i] = IF i = 0 THEN first ELSE Emit(ranking, k, s[i - 1], ranking[i])
    <3> TAKE i \in 0..n
    <3>1. i # 0 => i \in 1..n /\ s[i - 1] \in X
      BY <1>0, <1>6
    <3> QED BY <1>2, <1>6, <3>1
  <2>3. s = [i \in 0..n |-> IF i = 0 THEN first ELSE Emit(ranking, k, s[i - 1], ranking[i])]
    BY <2>1, <2>2
  <2> QED BY <2>3 DEF Emissions, n, first
<1>8. PICK g : g = CHOOSE h : Emissions(ranking, k, h)
  OBVIOUS
<1>9. Emissions(ranking, k, g)
  BY <1>7, <1>8
<1>10. ~(k <= 1) => Promote(ranking, k) = g[n].out
  BY <1>8 DEF Promote, Emissions, n
<1>11. \A i \in 0..n : g[i] = IF i = 0 THEN first ELSE Emit(ranking, k, g[i - 1], ranking[i])
  BY <1>9 DEF Emissions, n, first
<1> DEFINE Sound(x, i) == /\ x \in X /\ IsInjective(x.out) /\ Range(x.out) \subseteq Range(ranking)
                          /\ \A j \in 1..i : ranking[j] \in Range(x.out)
<1> DEFINE holds == [i \in 0..n |-> Sound(g[i], i)]
<1>12. holds \in [0..n -> BOOLEAN]
  OBVIOUS
<1>13. holds[0]
  <2>1. 0 \in 0..n /\ g[0] = first
    BY <1>0, <1>11
  <2>2. IsInjective(<<>>) /\ Range(<<>>) = {}
    BY DEF IsInjective, Range
  <2>3. Sound(first, 0)
    BY <1>3, <2>2
  <2> HIDE DEF Sound
  <2> QED BY <2>1, <2>3
<1>14. ASSUME NEW i \in 1..n, holds[i - 1]
       PROVE  holds[i]
  <2>1. i - 1 \in 0..n /\ i \in 0..n /\ i # 0 /\ i \in 1..Len(ranking)
    BY <1>0 DEF n
  <2>2. Sound(g[i - 1], i - 1)
    <3> HIDE DEF Sound
    <3> QED BY <1>14, <2>1
  <2>3. PICK x \in Emission : x = g[i - 1]
    BY <2>2 DEF X
  <2>9. PICK y : y = Emit(ranking, k, x, ranking[i])
    OBVIOUS
  <2>4. g[i] = y
    BY <1>11, <2>1, <2>3, <2>9
  <2>5. IsInjective(x.out) /\ Range(x.out) \subseteq Range(ranking) /\ \A j \in 1..(i - 1) : ranking[j] \in Range(x.out)
    BY <2>2, <2>3
  <2>6. /\ y \in Emission /\ IsInjective(y.out) /\ Range(y.out) \subseteq Range(ranking)
        /\ Range(x.out) \cup {ranking[i]} \subseteq Range(y.out)
    BY <2>1, <2>5, <2>9, EmitFacts
  <2>7. \A j \in 1..i : j \in 1..(i - 1) \/ j = i
    OBVIOUS
  <2>8. \A j \in 1..i : ranking[j] \in Range(y.out)
    BY <2>5, <2>6, <2>7
  <2>10. Sound(y, i)
    BY <2>6, <2>8 DEF X
  <2> HIDE DEF Sound
  <2> QED BY <2>1, <2>4, <2>10
<1> HIDE DEF holds
<1>15. n \in 0..n /\ holds[n]
  <2>1. \A i \in 0..n : holds[i]
    BY <1>0, <1>12, <1>13, <1>14, HoldsAll
  <2>2. n \in 0..n
    BY <1>0
  <2> QED BY <2>1, <2>2
<1>16. Sound(g[n], n)
  BY <1>15 DEF holds
<1>17. PICK x \in Emission : x = g[n]
  BY <1>16 DEF X
<1>18. x.out \in Seq(ChunkIds) /\ IsInjective(x.out) /\ Range(x.out) \subseteq Range(ranking)
  BY <1>16, <1>17 DEF Emission
<1>19. Range(ranking) \subseteq Range(x.out)
  <2>1. Range(ranking) = {ranking[j] : j \in 1..n}
    BY MembersOf DEF n
  <2>2. \A j \in 1..n : ranking[j] \in Range(x.out)
    BY <1>16, <1>17
  <2> QED BY <2>1, <2>2
<1>20. CASE k <= 1
  BY <1>20 DEF Promote
<1>21. CASE ~(k <= 1)
  <2>1. Promote(ranking, k) = x.out
    BY <1>10, <1>17, <1>21
  <2> QED BY <1>18, <1>19, <2>1
<1> QED BY <1>20, <1>21

-----------------------------------------------------------------------------
(* Retrieval: selections *)

\* No two chunks of a set have one text or one path.
Broad(S) ==
    \A c, d \in S : c # d =>
        Corpus[c].hash # Corpus[d].hash /\ (Corpus[c].path = Corpus[d].path => Corpus[c].path = NoText)

\* What crowds a chunk out goes on doing so when more is selected.
LEMMA CrowdedStays ==
  ASSUME NEW T, IsFiniteSet(T), NEW S \in SUBSET T, NEW cap \in Int, NEW c, Crowded(c, S, cap)
  PROVE  Crowded(c, T, cap)
<1>1. PICK s : s = {d \in S : Corpus[d].family = Corpus[c].family}
  OBVIOUS
<1>2. PICK t : t = {d \in T : Corpus[d].family = Corpus[c].family}
  OBVIOUS
<1>3. PICK u : u = {d \in S : Corpus[d].resource = Corpus[c].resource}
  OBVIOUS
<1>4. PICK v : v = {d \in T : Corpus[d].resource = Corpus[c].resource}
  OBVIOUS
<1>5. IsFiniteSet(t) /\ IsFiniteSet(v)
  BY <1>2, <1>4, FS_Subset
<1>6. s \subseteq t /\ u \subseteq v
  BY <1>1, <1>2, <1>3, <1>4
<1>7. IsFiniteSet(s) /\ IsFiniteSet(u)
  BY <1>5, <1>6, FS_Subset
<1>8. Cardinality(s) <= Cardinality(t) /\ Cardinality(u) <= Cardinality(v)
  BY <1>5, <1>6, FS_Subset
<1>9. /\ Cardinality(s) \in Nat /\ Cardinality(t) \in Nat
      /\ Cardinality(u) \in Nat /\ Cardinality(v) \in Nat
  BY <1>5, <1>7, FS_CardinalityType
<1>10. CASE \E d \in S : Corpus[d].hash = Corpus[c].hash
  BY <1>10 DEF Crowded
<1>11. CASE \E d \in S : Corpus[d].path = Corpus[c].path /\ Corpus[c].path # NoText
  BY <1>11 DEF Crowded
<1>12. CASE Cardinality(s) >= 2
  <2>1. Cardinality(t) >= 2
    BY <1>8, <1>9, <1>12
  <2> QED BY <1>2, <2>1 DEF Crowded
<1>13. CASE Cardinality(u) >= cap
  <2>1. Cardinality(v) >= cap
    BY <1>8, <1>9, <1>13
  <2> QED BY <1>4, <2>1 DEF Crowded
<1> QED BY <1>1, <1>3, <1>10, <1>11, <1>12, <1>13 DEF Crowded

\* What has been placed of a ranking.
Placement == [selected : Seq(ChunkIds), deferred : Seq(ChunkIds)]

\* As far as a ranking is placed: none is lost until the selection is full, and what is
\* deferred is crowded out.
PlacedUntil(acc, ranking, k, cap, i) ==
    /\ acc \in Placement
    /\ Len(acc.selected) <= k
    /\ IsInjective(acc.selected) /\ IsInjective(acc.deferred)
    /\ Range(acc.selected) \cap Range(acc.deferred) = {}
    /\ Range(acc.selected) \cup Range(acc.deferred) \subseteq {ranking[j] : j \in 1..i}
    /\ Len(acc.selected) < k =>
            {ranking[j] : j \in 1..i} \subseteq Range(acc.selected) \cup Range(acc.deferred)
    /\ \A c \in Range(acc.deferred) : Crowded(c, Range(acc.selected), cap)
    /\ Broad(Range(acc.selected))

LEMMA PlaceType ==
  ASSUME NEW k \in Nat, NEW cap, NEW acc \in Placement, NEW c \in ChunkIds
  PROVE  Place(k, cap, acc, c) \in Placement
<1>1. PICK selected \in Seq(ChunkIds), deferred \in Seq(ChunkIds) :
        acc = [selected |-> selected, deferred |-> deferred]
  BY DEF Placement
<1>2. PICK more \in Seq(ChunkIds), late \in Seq(ChunkIds) : more = Append(selected, c) /\ late = Append(deferred, c)
  <2>1. Append(selected, c) \in Seq(ChunkIds) /\ Append(deferred, c) \in Seq(ChunkIds)
    OBVIOUS
  <2> QED BY <2>1
<1>3. [acc EXCEPT !.selected = Append(@, c)] = [selected |-> more, deferred |-> deferred]
  <2>1. [acc EXCEPT !.selected = Append(@, c)] = [acc EXCEPT !.selected = more]
    BY <1>1, <1>2
  <2>2. [acc EXCEPT !.selected = more] = [selected |-> more, deferred |-> deferred]
    BY <1>1
  <2> QED BY <2>1, <2>2
<1>4. [acc EXCEPT !.deferred = Append(@, c)] = [selected |-> selected, deferred |-> late]
  <2>1. [acc EXCEPT !.deferred = Append(@, c)] = [acc EXCEPT !.deferred = late]
    BY <1>1, <1>2
  <2>2. [acc EXCEPT !.deferred = late] = [selected |-> selected, deferred |-> late]
    BY <1>1
  <2> QED BY <2>1, <2>2
<1>5. [selected |-> more, deferred |-> deferred] \in Placement /\ [selected |-> selected, deferred |-> late] \in Placement
  BY DEF Placement
<1> QED BY <1>3, <1>4, <1>5 DEF Place

\* One chunk more.
LEMMA PlaceFacts ==
  ASSUME NEW ranking \in Seq(ChunkIds), IsInjective(ranking), NEW k \in Nat, NEW cap \in Int,
         NEW i \in 1..Len(ranking), NEW acc, PlacedUntil(acc, ranking, k, cap, i - 1)
  PROVE  PlacedUntil(Place(k, cap, acc, ranking[i]), ranking, k, cap, i)
<1>1. PICK selected \in Seq(ChunkIds), deferred \in Seq(ChunkIds) :
        acc = [selected |-> selected, deferred |-> deferred]
  BY DEF PlacedUntil, Placement
<1>2. acc.selected = selected /\ acc.deferred = deferred
  BY <1>1
<1>3. PICK c \in ChunkIds : c = ranking[i]
  OBVIOUS
<1>4. PICK was, now : was = {ranking[j] : j \in 1..(i - 1)} /\ now = {ranking[j] : j \in 1..i}
  OBVIOUS
<1>5. now = was \cup {c} /\ c \notin was
  <2>1. i \in Nat /\ \A j : j \in 1..i <=> j \in 1..(i - 1) \/ j = i
    OBVIOUS
  <2>2. \A j \in 1..(i - 1) : ranking[j] # ranking[i]
    BY DEF IsInjective
  <2> QED BY <1>3, <1>4, <2>1, <2>2
<1>6. PICK S, D : S = Range(selected) /\ D = Range(deferred)
  OBVIOUS
<1>7. /\ Len(selected) <= k /\ IsInjective(selected) /\ IsInjective(deferred)
      /\ S \cap D = {} /\ S \cup D \subseteq was /\ (Len(selected) < k => was \subseteq S \cup D)
      /\ Broad(S)
  BY <1>2, <1>4, <1>6 DEF PlacedUntil
<1>8. \A d \in D : Crowded(d, S, cap)
  BY <1>2, <1>6 DEF PlacedUntil
<1>9. c \notin S /\ c \notin D
  BY <1>5, <1>7
<1>10. Len(selected) \in Nat
  OBVIOUS
<1>11. CASE Len(selected) >= k
  <2>1. Place(k, cap, acc, ranking[i]) = acc
    BY <1>2, <1>11 DEF Place
  <2>2. S \cup D \subseteq now
    BY <1>5, <1>7
  <2>3. ~(Len(selected) < k)
    BY <1>10, <1>11
  <2>4. acc \in Placement
    BY DEF PlacedUntil
  <2>5. PlacedUntil(acc, ranking, k, cap, i)
    BY <1>2, <1>4, <1>6, <1>7, <1>8, <2>2, <2>3, <2>4 DEF PlacedUntil
  <2> QED BY <2>1, <2>5
<1>12. CASE Len(selected) < k /\ Crowded(c, S, cap)
  <2>1. PICK late \in Seq(ChunkIds) : late = Append(deferred, c)
    BY OneMore
  <2>2. Range(late) = D \cup {c} /\ IsInjective(late)
    BY <1>6, <1>7, <1>9, <2>1, OneMore
  <2>3. PICK out : out = [selected |-> selected, deferred |-> late]
    OBVIOUS
  <2>4. Place(k, cap, acc, c) = out
    <3>1. Place(k, cap, acc, c) = [acc EXCEPT !.deferred = Append(@, c)]
      BY <1>2, <1>6, <1>10, <1>12 DEF Place
    <3>2. [acc EXCEPT !.deferred = Append(@, c)] = [acc EXCEPT !.deferred = late]
      BY <1>1, <2>1
    <3>3. [acc EXCEPT !.deferred = late] = out
      BY <1>1, <2>3
    <3> QED BY <3>1, <3>2, <3>3
  <2>5. out \in Placement /\ out.selected = selected /\ out.deferred = late
    BY <2>3 DEF Placement
  <2>6. S \cap Range(late) = {} /\ S \cup Range(late) = now
    BY <1>5, <1>7, <1>9, <1>12, <2>2
  <2>7. \A d \in Range(late) : Crowded(d, S, cap)
    BY <1>8, <1>12, <2>2
  <2>8. PlacedUntil(out, ranking, k, cap, i)
    BY <1>4, <1>6, <1>7, <2>2, <2>5, <2>6, <2>7 DEF PlacedUntil
  <2> QED BY <1>3, <2>4, <2>8
<1>13. CASE Len(selected) < k /\ ~Crowded(c, S, cap)
  <2>1. PICK more \in Seq(ChunkIds) : more = Append(selected, c)
    BY OneMore
  <2>2. Range(more) = S \cup {c} /\ IsInjective(more) /\ Len(more) = Len(selected) + 1
    BY <1>6, <1>7, <1>9, <2>1, OneMore
  <2>3. PICK out : out = [selected |-> more, deferred |-> deferred]
    OBVIOUS
  <2>4. Place(k, cap, acc, c) = out
    <3>1. Place(k, cap, acc, c) = [acc EXCEPT !.selected = Append(@, c)]
      BY <1>2, <1>6, <1>10, <1>13 DEF Place
    <3>2. [acc EXCEPT !.selected = Append(@, c)] = [acc EXCEPT !.selected = more]
      BY <1>1, <2>1
    <3>3. [acc EXCEPT !.selected = more] = out
      BY <1>1, <2>3
    <3> QED BY <3>1, <3>2, <3>3
  <2>5. out \in Placement /\ out.selected = more /\ out.deferred = deferred
    BY <2>3 DEF Placement
  <2>6. Len(more) <= k
    BY <1>10, <1>13, <2>2
  <2>7. Range(more) \cap D = {} /\ Range(more) \cup D = now
    BY <1>5, <1>7, <1>9, <1>13, <2>2
  <2>8. \A d \in D : Crowded(d, Range(more), cap)
    <3>1. IsFiniteSet(Range(more)) /\ S \in SUBSET Range(more)
      BY <2>2, MembersOf
    <3> QED BY <1>8, <3>1, CrowdedStays
  <2>9. Broad(Range(more))
    <3>1. \A d \in S : Corpus[d].hash # Corpus[c].hash /\ (Corpus[d].path = Corpus[c].path => Corpus[c].path = NoText)
      BY <1>13 DEF Crowded
    <3>2. \A d \in S : Corpus[c].hash # Corpus[d].hash /\ (Corpus[c].path = Corpus[d].path => Corpus[c].path = NoText)
      BY <3>1
    <3>3. \A d \in S : Corpus[d].hash # Corpus[c].hash /\ (Corpus[d].path = Corpus[c].path => Corpus[d].path = NoText)
      BY <3>1
    <3>4. Broad(S \cup {c})
      BY <1>7, <3>2, <3>3 DEF Broad
    <3> QED BY <2>2, <3>4
  <2>10. PlacedUntil(out, ranking, k, cap, i)
    BY <1>4, <1>6, <1>7, <2>2, <2>5, <2>6, <2>7, <2>8, <2>9 DEF PlacedUntil
  <2> QED BY <1>3, <2>4, <2>10
<1>14. Len(selected) >= k \/ Len(selected) < k
  BY <1>10
<1> QED BY <1>11, <1>12, <1>13, <1>14

\* A ranking, chunk by chunk.
Placements(ranking, k, cap, g) ==
    g = [i \in 0..Len(ranking) |->
            IF i = 0 THEN [selected |-> <<>>, deferred |-> <<>>] ELSE Place(k, cap, g[i - 1], ranking[i])]

\* What is placed in the end.
Placed(ranking, k, cap) == (CHOOSE g : Placements(ranking, k, cap, g))[Len(ranking)]

LEMMA PlacedInTheEnd ==
  ASSUME NEW ranking \in Seq(ChunkIds), IsInjective(ranking), NEW k \in Nat, NEW cap \in Int
  PROVE  PlacedUntil(Placed(ranking, k, cap), ranking, k, cap, Len(ranking))
<1> DEFINE n == Len(ranking)
           X == Placement
           first == [selected |-> <<>>, deferred |-> <<>>]
           step == [p \in (1..n) \X X |-> Place(k, cap, p[2], ranking[p[1]])]
<1>0. n \in Nat /\ \A i \in 1..n : ranking[i] \in ChunkIds
  OBVIOUS
<1>1. step \in Steps(n, X)
  <2>1. ASSUME NEW p \in (1..n) \X X
        PROVE  Place(k, cap, p[2], ranking[p[1]]) \in X
    <3>1. p[2] \in X /\ p[1] \in 1..n
      BY <2>1
    <3> QED BY <1>0, <3>1, PlaceType
  <2> QED BY <2>1 DEF Steps
<1>2. \A i \in 1..n, x \in X : step[<<i, x>>] = Place(k, cap, x, ranking[i])
  OBVIOUS
<1>3. first \in X /\ first.selected = <<>> /\ first.deferred = <<>>
  <2>1. PICK out \in Seq(ChunkIds) : out = <<>>
    <3>1. <<>> \in Seq(ChunkIds)
      OBVIOUS
    <3> QED BY <3>1
  <2>2. first = [selected |-> out, deferred |-> out]
    BY <2>1
  <2> QED BY <2>1, <2>2 DEF Placement
<1> HIDE DEF step, n, X, first
<1>5. PICK s : Unfolds(s, n, X, first, step)
  BY <1>0, <1>1, <1>3, StepByStep
<1>6. s \in [0..n -> X] /\ s[0] = first /\ \A i \in 1..n : s[i] = step[<<i, s[i - 1]>>]
  BY <1>5 DEF Unfolds
<1>7. Placements(ranking, k, cap, s)
  <2>1. s = [i \in 0..n |-> s[i]]
    BY <1>6
  <2>2. \A i \in 0..n : s[i] = IF i = 0 THEN first ELSE Place(k, cap, s[i - 1], ranking[i])
    <3> TAKE i \in 0..n
    <3>1. i # 0 => i \in 1..n /\ s[i - 1] \in X
      BY <1>0, <1>6
    <3> QED BY <1>2, <1>6, <3>1
  <2>3. s = [i \in 0..n |-> IF i = 0 THEN first ELSE Place(k, cap, s[i - 1], ranking[i])]
    BY <2>1, <2>2
  <2> QED BY <2>3 DEF Placements, n, first
<1>8. PICK g : g = CHOOSE h : Placements(ranking, k, cap, h)
  OBVIOUS
<1>9. Placements(ranking, k, cap, g)
  BY <1>7, <1>8
<1>10. Placed(ranking, k, cap) = g[n]
  BY <1>8 DEF Placed, n
<1>11. \A i \in 0..n : g[i] = IF i = 0 THEN first ELSE Place(k, cap, g[i - 1], ranking[i])
  BY <1>9 DEF Placements, n, first
<1> DEFINE holds == [i \in 0..n |-> PlacedUntil(g[i], ranking, k, cap, i)]
<1>12. holds \in [0..n -> BOOLEAN]
  BY DEF PlacedUntil
<1>13. holds[0]
  <2>1. 0 \in 0..n /\ g[0] = first
    BY <1>0, <1>11
  <2>2. IsInjective(<<>>) /\ Range(<<>>) = {} /\ Len(<<>>) = 0
    BY DEF IsInjective, Range
  <2>3. {ranking[j] : j \in 1..0} = {}
    OBVIOUS
  <2>4. Broad({})
    BY DEF Broad
  <2>5. Len(<<>>) <= k
    BY <2>2
  <2>6. PlacedUntil(first, ranking, k, cap, 0)
    BY <1>3, <2>2, <2>3, <2>4, <2>5 DEF PlacedUntil, X
  <2> QED BY <2>1, <2>6
<1>14. ASSUME NEW i \in 1..n, holds[i - 1]
       PROVE  holds[i]
  <2>1. i - 1 \in 0..n /\ i \in 0..n /\ i # 0 /\ i \in 1..Len(ranking)
    BY <1>0 DEF n
  <2>2. PlacedUntil(g[i - 1], ranking, k, cap, i - 1)
    BY <1>14, <2>1
  <2>3. g[i] = Place(k, cap, g[i - 1], ranking[i])
    BY <1>11, <2>1
  <2>4. PlacedUntil(g[i], ranking, k, cap, i)
    BY <2>1, <2>2, <2>3, PlaceFacts
  <2> QED BY <2>1, <2>4
<1> HIDE DEF holds
<1>15. n \in 0..n /\ holds[n]
  <2>1. \A i \in 0..n : holds[i]
    BY <1>0, <1>12, <1>13, <1>14, HoldsAll
  <2>2. n \in 0..n
    BY <1>0
  <2> QED BY <2>1, <2>2
<1>16. PlacedUntil(g[n], ranking, k, cap, n)
  BY <1>15 DEF holds
<1> QED BY <1>10, <1>16 DEF n

LEMMA CapIsNumber ==
  ASSUME NEW ranking \in Seq(ChunkIds), NEW k \in Nat
  PROVE  ResourceCap(ranking, k) \in Int
<1>1. PICK R : R = {Corpus[c].resource : c \in Range(ranking)}
  OBVIOUS
<1>2. IsFiniteSet(R)
  <2>1. IsFiniteSet(Range(ranking))
    BY MembersOf
  <2>2. PICK members : members = Range(ranking) /\ IsFiniteSet(members)
    BY <2>1
  <2>3. PICK f : f = [c \in members |-> Corpus[c].resource]
    OBVIOUS
  <2>4. f \in Surjection(members, R)
    BY <1>1, <2>2, <2>3 DEF Surjection
  <2> QED BY <2>2, <2>4, FS_Surjection
<1>3. Cardinality(R) \in Nat
  BY <1>2, FS_CardinalityType
<1>4. PICK target \in Nat : target = Lower(Cardinality(R), k)
  BY <1>3 DEF Lower
<1>5. target # 0 => (k + target - 1) \div target \in Int
  OBVIOUS
<1> QED BY <1>1, <1>4, <1>5 DEF ResourceCap

\* What is selected of a ranking: as much as there is room for, and a near-duplicate only
\* when what is left out is crowded out.
WellSelected(hits, ranking, k) ==
    /\ hits \in Seq(ChunkIds) /\ IsInjective(hits) /\ Range(hits) \subseteq Range(ranking)
    /\ Len(hits) = Lower(k, Cardinality(Range(ranking)))
    /\ ~Broad(Range(hits)) =>
            \A c \in Range(ranking) \ Range(hits) : Crowded(c, Range(hits), ResourceCap(ranking, k))

LEMMA DiversifyFills ==
  ASSUME NEW ranking \in Seq(ChunkIds), IsInjective(ranking), NEW k \in Nat
  PROVE  WellSelected(Diversify(ranking, k), ranking, k)
<1>1. PICK cap \in Int : cap = ResourceCap(ranking, k)
  BY CapIsNumber
<1>2. PICK end : end = Placed(ranking, k, cap)
  OBVIOUS
<1>3. PlacedUntil(end, ranking, k, cap, Len(ranking))
  BY <1>2, PlacedInTheEnd
<1>4. PICK selected \in Seq(ChunkIds), deferred \in Seq(ChunkIds) :
        end = [selected |-> selected, deferred |-> deferred]
  BY <1>3 DEF PlacedUntil, Placement
<1>5. end.selected = selected /\ end.deferred = deferred
  BY <1>4
<1>6. PICK R, S, D : R = Range(ranking) /\ S = Range(selected) /\ D = Range(deferred)
  OBVIOUS
<1>7. PICK n \in Nat : n = Len(ranking) /\ R = {ranking[j] : j \in 1..n} /\ IsFiniteSet(R) /\ Cardinality(R) = n
  <2>1. Len(ranking) \in Nat
    OBVIOUS
  <2> QED BY <1>6, <2>1, MembersOf
<1>8. /\ Len(selected) <= k /\ IsInjective(selected) /\ IsInjective(deferred)
      /\ S \cap D = {} /\ S \cup D \subseteq R /\ (Len(selected) < k => R \subseteq S \cup D)
      /\ Broad(S)
  BY <1>3, <1>5, <1>6, <1>7 DEF PlacedUntil
<1>9. \A d \in D : Crowded(d, S, cap)
  BY <1>3, <1>5, <1>6 DEF PlacedUntil
<1>10. PICK a \in Nat, b \in Nat : a = Len(selected) /\ b = Len(deferred)
  OBVIOUS
<1>11. IsFiniteSet(S) /\ IsFiniteSet(D) /\ Cardinality(S) = a /\ Cardinality(D) = b
  BY <1>6, <1>8, <1>10, MembersOf
<1>12. a + b <= n /\ (a < k => a + b = n)
  <2>1. Cardinality(S \cup D) = Cardinality(S) + Cardinality(D) - Cardinality(S \cap D)
    BY <1>11, FS_Union
  <2>2. Cardinality(S \cap D) = 0
    BY <1>8, FS_EmptySet
  <2>3. Cardinality(S \cup D) = a + b
    BY <1>11, <2>1, <2>2
  <2>4. Cardinality(S \cup D) <= n
    <3>1. S \cup D \in SUBSET R
      BY <1>8
    <3> QED BY <1>7, <3>1, FS_Subset
  <2>5. a < k => S \cup D = R
    BY <1>8, <1>10
  <2> QED BY <1>7, <2>3, <2>4, <2>5
<1>13. a <= k
  BY <1>8, <1>10
<1>14. PICK m \in 0..b : m = Lower(b, k - a)
  <2>1. k - a \in Nat
    BY <1>13
  <2>2. Lower(b, k - a) \in 0..b
    BY <2>1 DEF Lower
  <2> QED BY <2>2
<1>15. a + m = Lower(k, n) /\ (m # 0 => a < k)
  BY <1>12, <1>13, <1>14 DEF Lower
<1>16. PICK rest \in Seq(ChunkIds) : rest = SubSeq(deferred, 1, m)
  BY <1>10, FirstOnes
<1>17. Len(rest) = m /\ IsInjective(rest) /\ Range(rest) \subseteq D
  BY <1>6, <1>8, <1>10, <1>16, FirstOnes
<1>18. PICK hits \in Seq(ChunkIds) : hits = selected \o rest
  BY OneAfterOther
<1>19. Range(hits) = S \cup Range(rest) /\ Len(hits) = a + m /\ IsInjective(hits)
  <2>1. Range(selected) \cap Range(rest) = {}
    BY <1>6, <1>8, <1>17
  <2>2. Range(hits) = Range(selected) \cup Range(rest) /\ Len(hits) = Len(selected) + Len(rest)
    BY <1>18, OneAfterOther
  <2>3. IsInjective(hits)
    BY <1>8, <1>17, <1>18, <2>1, OneAfterOther
  <2> QED BY <1>6, <1>10, <1>17, <2>2, <2>3
<1>20. Diversify(ranking, k) = hits
  <2>1. Diversify(ranking, k)
          = end.selected \o SubSeq(end.deferred, 1, Lower(Len(end.deferred), k - Len(end.selected)))
    BY <1>1, <1>2 DEF Diversify, Placed, Placements
  <2> QED BY <1>5, <1>10, <1>14, <1>16, <1>18, <2>1
<1>21. Range(hits) \subseteq R
  BY <1>8, <1>17, <1>19
<1>22. ASSUME ~Broad(Range(hits)), NEW c \in R \ Range(hits)
       PROVE  Crowded(c, Range(hits), cap)
  <2>1. m # 0
    <3> SUFFICES ASSUME m = 0
                 PROVE  FALSE
      OBVIOUS
    <3>1. Range(rest) = {rest[i] : i \in 1..0}
      BY <1>17, MembersOf
    <3>3. Range(rest) = {}
      BY <3>1
    <3>2. Range(hits) = S
      BY <1>19, <3>3
    <3> QED BY <1>8, <1>22, <3>2
  <2>2. R \subseteq S \cup D
    BY <1>8, <1>10, <1>15, <2>1
  <2>3. c \in D
    BY <1>19, <2>2
  <2>4. IsFiniteSet(Range(hits)) /\ S \in SUBSET Range(hits)
    BY <1>18, <1>19, MembersOf
  <2> QED BY <1>9, <2>3, <2>4, CrowdedStays
<1> QED BY <1>1, <1>6, <1>7, <1>15, <1>18, <1>19, <1>20, <1>21, <1>22 DEF WellSelected

LEMMA SelectionSelects ==
  ASSUME NEW ranking \in Seq(ChunkIds), IsInjective(ranking), NEW k \in Nat, NEW secondStage \in BOOLEAN
  PROVE  WellSelected(Select(ranking, k, secondStage), ranking, k)
<1>1. PICK order \in Seq(ChunkIds) : order = IF secondStage THEN Promote(ranking, k) ELSE ranking
  BY PromotionPermutes
<1>2. IsInjective(order) /\ Range(order) = Range(ranking)
  BY <1>1, PromotionPermutes
<1>3. Select(ranking, k, secondStage) = Diversify(order, k)
  BY <1>1 DEF Select
<1>4. ResourceCap(order, k) = ResourceCap(ranking, k)
  BY <1>2 DEF ResourceCap
<1>5. WellSelected(Diversify(order, k), order, k)
  BY <1>2, DiversifyFills
<1> QED BY <1>2, <1>3, <1>4, <1>5 DEF WellSelected

-----------------------------------------------------------------------------
(* Retrieval: packets *)

Profiles == {RetrievalProfiles[name] : name \in DOMAIN RetrievalProfiles}

ScoredChunks == [ChunkIds -> {0, 1}]

Retrieving == {"started", "lexical", "vector", "ranked", "succeeded"}

Packets ==
    [at : Retrieving, profile : Profiles, k : Nat, limit : Nat, config : Configs,
     vectorStatus : {"ok", "namespace_mismatch", "no_embeddings"},
     seen : SUBSET ChunkIds, found : SUBSET ChunkIds,
     lexical : ScoredChunks, vector : ScoredChunks, graph : ScoredChunks, rerank : ScoredChunks,
     batch : Seq(ChunkIds), hits : Seq(ChunkIds)]

RankedPackets == [at : {"ranking"}, ranking : Rankings, k : TopKs, secondStage : BOOLEAN]

\* What a statement found it could see; there is no batch before the ranking, and no hit
\* before the end.
FoundIsSeen(p) ==
    /\ p.found \subseteq p.seen /\ Range(p.batch) \subseteq p.found /\ Range(p.hits) \subseteq Range(p.batch)
    /\ p.at \in {"started", "lexical", "vector"} => Range(p.batch) = {}
    /\ p.at # "succeeded" => Range(p.hits) = {}

Comparable(config) == {c \in ChunkIds : Retrievable(c) /\ NamespaceOf(c) = Namespace(config)}

\* As long as no resource has changed, the status says what the vector statement will
\* find, and once it has run, what it found.
VectorsMatch(p) ==
    changes = 0 =>
        /\ p.at \in {"started", "lexical"} /\ Comparable(p.config) # {} => p.vectorStatus = "ok"
        /\ (\E c \in ChunkIds : p.vector[c] > 0) => p.vectorStatus = "ok"

\* The batch is the best of what was found.
BestOfFound(p) ==
    p.profile.capped =>
        /\ Len(p.batch) <= Pool.max
        /\ \A c \in Range(p.batch), d \in p.found \ Range(p.batch) : Stage1(p, c) >= Stage1(p, d)

PacketIsSound ==
    /\ packet \in Packets
    /\ packet.at \in {"started", "lexical"} => {c \in ChunkIds : Retrievable(c)} \subseteq packet.seen
    /\ FoundIsSeen(packet)
    /\ VectorsMatch(packet)
    /\ packet.profile.capped => packet.limit <= Pool.max
    /\ packet.at = "ranked" => BestOfFound(packet)

\* The inductive invariant.
RetrievalIInv ==
    /\ embeddedBy \in [Resources -> Configs] /\ changes \in Nat
    /\ \/ packet.at \in {"none", "failed"}
       \/ packet \in RankedPackets
       \/ PacketIsSound
       \/ packet.at = "selected" /\ SelectionFills /\ BreadthFirst

\* The numbers of a profile.
LEMMA ProfilesFacts ==
  ASSUME NEW profile \in Profiles
  PROVE  /\ profile.lexical \in Nat /\ profile.vector \in Nat /\ profile.graph \in Nat
         /\ profile.rerank \in Nat /\ profile.multiplier \in Nat
         /\ profile.capped \in BOOLEAN /\ profile.secondStage \in BOOLEAN
<1>1. PICK name \in DOMAIN RetrievalProfiles : profile = RetrievalProfiles[name]
  BY DEF Profiles
<1>2. name \in {"lexical", "vector", "hybrid", "hybrid_rerank", "graph", "retrieval_v2_rerank"}
  BY <1>1 DEF RetrievalProfiles
<1>3. CASE name = "lexical"
  BY <1>1, <1>3 DEF RetrievalProfiles, Plain
<1>4. CASE name = "vector"
  BY <1>1, <1>4 DEF RetrievalProfiles, Plain
<1>5. CASE name = "hybrid"
  BY <1>1, <1>5 DEF RetrievalProfiles, Plain
<1>6. CASE name = "graph"
  BY <1>1, <1>6 DEF RetrievalProfiles, Plain
<1>7. CASE name = "retrieval_v2_rerank"
  BY <1>1, <1>7 DEF RetrievalProfiles, Plain
<1>8. CASE name = "hybrid_rerank"
  BY <1>1, <1>8 DEF RetrievalProfiles, Plain
<1> QED BY <1>2, <1>3, <1>4, <1>5, <1>6, <1>7, <1>8

LEMMA LimitFacts ==
  ASSUME NEW profile \in Profiles, NEW k \in Nat
  PROVE  /\ CandidateLimit(profile, k) \in Nat
         /\ profile.capped => CandidateLimit(profile, k) <= Pool.max
<1>1. PICK wanted \in Nat : wanted = k * profile.multiplier
  <2>1. k * profile.multiplier \in Nat
    BY ProfilesFacts
  <2> QED BY <2>1
<1>2. PICK low \in Nat, high \in Nat : low = Pool.min /\ high = Pool.max
  BY RetrievalConstants
<1>3. PICK flag \in BOOLEAN : flag = profile.capped
  BY ProfilesFacts
<1>4. PICK limit \in Nat : limit = Higher(wanted, low)
  BY DEF Higher
<1>5. CandidateLimit(profile, k) = IF flag THEN Lower(limit, high) ELSE limit
  BY <1>1, <1>2, <1>3, <1>4 DEF CandidateLimit
<1>6. Lower(limit, high) \in Nat /\ Lower(limit, high) <= high
  BY DEF Lower
<1> QED BY <1>2, <1>3, <1>5, <1>6

LEMMA Stage1Facts ==
  ASSUME NEW p, p.profile \in Profiles, p.lexical \in ScoredChunks, p.vector \in ScoredChunks,
         p.graph \in ScoredChunks, NEW c \in ChunkIds
  PROVE  Stage1(p, c) \in Int
<1>1. p.lexical[c] \in {0, 1} /\ p.vector[c] \in {0, 1} /\ p.graph[c] \in {0, 1}
  BY DEF ScoredChunks
<1>2. p.profile.lexical \in Nat /\ p.profile.vector \in Nat /\ p.profile.graph \in Nat
  BY ProfilesFacts
<1>3. PICK a \in Nat, b \in Nat, d \in Nat : a = p.profile.lexical /\ b = p.profile.vector /\ d = p.profile.graph
  BY <1>2
<1>4. PICK x \in {0, 1}, y \in {0, 1}, z \in {0, 1} : x = p.lexical[c] /\ y = p.vector[c] /\ z = p.graph[c]
  BY <1>1
<1>5. a * x \in Int /\ b * y \in Int /\ d * z \in Int
  OBVIOUS
<1>6. Stage1(p, c) = a * x + b * y + d * z
  BY <1>3, <1>4 DEF Stage1
<1> QED BY <1>5, <1>6

LEMMA ChunksAreNumbers == ChunkIds \in SUBSET Nat /\ IsFiniteSet(ChunkIds)
<1>1. PICK n \in Nat : n = Len(Corpus) /\ ChunkIds = 1..n
  BY RetrievalConstants DEF ChunkIds
<1>2. 1 \in Int /\ n \in Int
  OBVIOUS
<1>3. IsFiniteSet(1..n)
  BY <1>2, FS_Interval
<1>4. 1..n \in SUBSET Nat
  OBVIOUS
<1> QED BY <1>1, <1>3, <1>4

\* The pool holds chunks that were found, and the best of them when it is capped.
LEMMA PoolIsBest ==
  ASSUME NEW p, p.profile \in Profiles, p.lexical \in ScoredChunks, p.vector \in ScoredChunks,
         p.graph \in ScoredChunks, p.found \in SUBSET ChunkIds, p.limit \in Nat,
         NEW batch, batch = BoundedPool(p)
  PROVE  /\ batch \in Seq(ChunkIds) /\ Range(batch) \subseteq p.found
         /\ p.profile.capped => Len(batch) <= p.limit
         /\ \A c \in Range(batch), d \in p.found \ Range(batch) : Stage1(p, c) >= Stage1(p, d)
<1>1. PICK found \in SUBSET ChunkIds : found = p.found
  OBVIOUS
<1>2. found \in SUBSET Nat /\ IsFiniteSet(found)
  BY ChunksAreNumbers, FS_Subset
<1>3. PICK score : score = [c \in found |-> <<Stage1(p, c), Corpus[c].prior>>]
  OBVIOUS
<1>4. \A c \in found : Stage1(p, c) \in Int
  BY Stage1Facts
<1>5. \A c \in found : score[c][1] = Stage1(p, c) /\ score[c][2] = Corpus[c].prior
  BY <1>3
<1>6. Scores(score, found)
  <2>1. \A c \in found : Corpus[c].prior \in Int
    BY RetrievalConstants DEF ChunkIds
  <2> QED BY <1>4, <1>5, <2>1 DEF Scores
<1>7. PICK ranked : ranked = Ranked(found, score)
  OBVIOUS
<1>8. PICK n \in Nat : n = Cardinality(found)
  BY <1>2, FS_CardinalityType
<1>9. /\ ranked \in Seq(found) /\ Range(ranked) = found /\ Len(ranked) = n
      /\ \A i, j \in 1..n : i < j => Above(score, ranked[i], ranked[j])
  BY <1>2, <1>6, <1>7, <1>8, SortingSorts
<1>10. PICK m \in 0..n : m = Lower(n, p.limit)
  BY DEF Lower
<1>11. PICK flag \in BOOLEAN : flag = p.profile.capped
  BY ProfilesFacts
<1>12. batch = IF flag THEN SubSeq(ranked, 1, m) ELSE ranked
  BY <1>1, <1>3, <1>7, <1>9, <1>10, <1>11 DEF BoundedPool
<1>13. CASE flag
  <2>1. batch = SubSeq(ranked, 1, m)
    BY <1>12, <1>13
  <2>2. m \in 0..Len(ranked)
    BY <1>9
  <2>3. /\ batch \in Seq(found) /\ Len(batch) = m /\ Range(batch) = {ranked[i] : i \in 1..m}
        /\ Range(batch) \subseteq found
    <3>1. ranked \in Seq(found) /\ Range(ranked) = found
      BY <1>9
    <3>2. batch \in Seq(found) /\ Len(batch) = m
      BY <2>1, <2>2, <3>1, FirstOnes
    <3>3. Range(batch) = {ranked[i] : i \in 1..m} /\ Range(batch) \subseteq Range(ranked)
      BY <2>1, <2>2, <3>1, FirstOnes
    <3> QED BY <3>1, <3>2, <3>3
  <2>4. Len(batch) <= p.limit
    BY <1>10, <2>3 DEF Lower
  <2>5. batch \in Seq(ChunkIds)
    BY <2>3
  <2>6. ASSUME NEW c \in Range(batch), NEW d \in found \ Range(batch)
        PROVE  Stage1(p, c) >= Stage1(p, d)
    <3>1. PICK i \in 1..m : c = ranked[i]
      BY <2>3
    <3>2. found = {ranked[j] : j \in 1..n}
      BY <1>9, MembersOf
    <3>3. PICK j \in 1..n : d = ranked[j]
      BY <3>2
    <3>4. j \notin 1..m
      BY <2>3, <3>3
    <3>5. i \in 1..n /\ i < j
      BY <3>4
    <3>6. Above(score, c, d)
      BY <1>9, <3>1, <3>3, <3>5
    <3>7. c \in found /\ d \in found
      BY <2>3
    <3>8. score[c][1] >= score[d][1]
      <4>1. score[c][1] \in Int /\ score[d][1] \in Int
        BY <1>4, <1>5, <3>7
      <4> QED BY <3>6, <4>1 DEF Above
    <3> QED BY <1>5, <3>7, <3>8
  <2> QED BY <1>1, <2>3, <2>4, <2>5, <2>6
<1>14. CASE ~flag
  <2>1. batch = ranked
    BY <1>12, <1>14
  <2>2. batch \in Seq(ChunkIds) /\ Range(batch) = found
    BY <1>9, <2>1
  <2> QED BY <1>1, <1>11, <1>14, <2>2
<1> QED BY <1>13, <1>14

LEMMA RetrievalBegins == RetrievalInit => RetrievalIInv
<1> SUFFICES ASSUME RetrievalInit
             PROVE  RetrievalIInv
  OBVIOUS
<1>1. embeddedBy \in [Resources -> Configs] /\ changes \in Nat
  BY DEF RetrievalInit
<1>2. packet = [at |-> "none"] => packet.at \in {"none", "failed"}
  OBVIOUS
<1>3. packet = [at |-> "none"] \/ packet \in RankedPackets
  BY DEF RetrievalInit, RankedPackets
<1> QED BY <1>1, <1>2, <1>3 DEF RetrievalIInv

LEMMA StartKeeps ==
  ASSUME RetrievalIInv, NEW name \in DOMAIN RetrievalProfiles, NEW k \in PacketTopKs, NEW config \in Configs,
         StartPacket(name, k, config)
  PROVE  RetrievalIInv'
<1>1. PICK profile \in Profiles : profile = RetrievalProfiles[name]
  BY DEF Profiles
<1>2. k \in Nat
  BY RetrievalConstants
<1>3. PICK limit \in Nat : limit = CandidateLimit(profile, k) /\ (profile.capped => limit <= Pool.max)
  BY <1>2, LimitFacts
<1>4. PICK status \in {"ok", "namespace_mismatch", "no_embeddings"} : status = VectorStatus(config)
  BY DEF VectorStatus
<1>5. Comparable(config) # {} => status = "ok"
  BY <1>4 DEF VectorStatus, Comparable
<1>6. PICK seen \in SUBSET ChunkIds : seen = {c \in ChunkIds : Retrievable(c)}
  OBVIOUS
<1>7. PICK none \in ScoredChunks : none = NoScores /\ \A c \in ChunkIds : none[c] = 0
  <2>1. NoScores \in ScoredChunks /\ \A c \in ChunkIds : NoScores[c] = 0
    BY DEF NoScores, ScoredChunks
  <2> QED BY <2>1
<1>8. PICK empty \in Seq(ChunkIds) : empty = <<>> /\ Range(empty) = {}
  <2>1. <<>> \in Seq(ChunkIds) /\ Range(<<>>) = {}
    BY DEF Range
  <2> QED BY <2>1
<1>9. PICK nothing \in SUBSET ChunkIds : nothing = {}
  OBVIOUS
<1>10. PICK new : new = [at |-> "started", profile |-> profile, k |-> k, limit |-> limit, config |-> config,
                         vectorStatus |-> status, seen |-> seen, found |-> nothing,
                         lexical |-> none, vector |-> none, graph |-> none, rerank |-> none,
                         batch |-> empty, hits |-> empty]
  OBVIOUS
<1>11. packet' = new
  BY <1>1, <1>3, <1>4, <1>6, <1>7, <1>8, <1>9, <1>10 DEF StartPacket
<1>12. new \in Packets
  BY <1>2, <1>10 DEF Packets, Retrieving
<1>13. /\ new.at = "started" /\ new.profile = profile /\ new.limit = limit /\ new.config = config
       /\ new.vectorStatus = status /\ new.seen = seen /\ new.found = nothing
       /\ new.vector = none /\ new.batch = empty /\ new.hits = empty
  BY <1>10
<1>14. UNCHANGED <<served, embeddedBy, purged, changes>>
  BY DEF StartPacket
<1>15. embeddedBy' \in [Resources -> Configs] /\ changes' \in Nat
  BY <1>14 DEF RetrievalIInv
<1>16. {c \in ChunkIds : Retrievable(c)}' = seen
  BY <1>6, <1>14 DEF Retrievable
<1>17. FoundIsSeen(new)
  BY <1>8, <1>9, <1>13 DEF FoundIsSeen
<1>18. Comparable(config)' = Comparable(config)
  BY <1>14 DEF Comparable, Retrievable, NamespaceOf
<1>19. VectorsMatch(new)'
  <2>1. \A c \in ChunkIds : ~(none[c] > 0)
    BY <1>7
  <2> QED BY <1>5, <1>13, <1>18, <2>1 DEF VectorsMatch
<1>20. PacketIsSound'
  BY <1>3, <1>11, <1>12, <1>13, <1>16, <1>17, <1>19 DEF PacketIsSound, FoundIsSeen, VectorsMatch
<1> QED BY <1>15, <1>20 DEF RetrievalIInv

\* A packet that is being built is sound.
LEMMA BuiltIsSound ==
  ASSUME RetrievalIInv, packet.at \in Retrieving
  PROVE  PacketIsSound
BY DEF RetrievalIInv, Retrieving, RankedPackets

LEMMA LexicalKeeps ==
  ASSUME RetrievalIInv, LexicalSearch
  PROVE  RetrievalIInv'
<1>1. packet.at = "started" /\ UNCHANGED <<served, embeddedBy, purged, changes>>
  BY DEF LexicalSearch
<1>2. PacketIsSound
  BY <1>1, BuiltIsSound DEF Retrieving
<1>3. PICK rows \in SUBSET LexicalRows :
        packet' = [packet EXCEPT !.at = "lexical", !.found = rows,
                     !.lexical = [c \in ChunkIds |-> IF c \in rows THEN 1 ELSE 0]]
  BY DEF LexicalSearch
<1>4. PICK scores \in ScoredChunks : scores = [c \in ChunkIds |-> IF c \in rows THEN 1 ELSE 0]
  <2>1. [c \in ChunkIds |-> IF c \in rows THEN 1 ELSE 0] \in ScoredChunks
    BY DEF ScoredChunks
  <2> QED BY <2>1
<1>5. PICK new : new = [packet EXCEPT !.at = "lexical", !.found = rows, !.lexical = scores]
  OBVIOUS
<1>6. packet \in Packets /\ rows \in SUBSET ChunkIds
  BY <1>2 DEF PacketIsSound, LexicalRows
<1>7. new \in Packets
  BY <1>5, <1>6 DEF Packets, Retrieving
<1>8. /\ new.at = "lexical" /\ new.found = rows /\ new.profile = packet.profile /\ new.limit = packet.limit
      /\ new.config = packet.config /\ new.vectorStatus = packet.vectorStatus
      /\ new.seen = packet.seen /\ new.vector = packet.vector
      /\ new.batch = packet.batch /\ new.hits = packet.hits
  BY <1>5, <1>6 DEF Packets
<1>9. packet'.at = "lexical" /\ packet' = new
  BY <1>3, <1>4, <1>5, <1>8
<1>10. FoundIsSeen(packet) /\ VectorsMatch(packet) /\ (packet.profile.capped => packet.limit <= Pool.max)
       /\ {c \in ChunkIds : Retrievable(c)} \subseteq packet.seen
  BY <1>1, <1>2 DEF PacketIsSound
<1>11. FoundIsSeen(new)
  <2>1. rows \subseteq packet.seen
    BY <1>10 DEF LexicalRows
  <2> QED BY <1>1, <1>8, <1>10, <2>1 DEF FoundIsSeen
<1>12. VectorsMatch(new)'
  <2>1. Comparable(new.config)' = Comparable(new.config)
    BY <1>1 DEF Comparable, Retrievable, NamespaceOf
  <2> QED BY <1>1, <1>8, <1>10, <2>1 DEF VectorsMatch
<1>13. {c \in ChunkIds : Retrievable(c)}' \subseteq new.seen
  BY <1>1, <1>8, <1>10 DEF Retrievable
<1>14. PacketIsSound'
  BY <1>7, <1>8, <1>9, <1>10, <1>11, <1>12, <1>13 DEF PacketIsSound, FoundIsSeen, VectorsMatch
<1>15. embeddedBy' \in [Resources -> Configs] /\ changes' \in Nat
  BY <1>1 DEF RetrievalIInv
<1> QED BY <1>14, <1>15 DEF RetrievalIInv

LEMMA VectorKeeps ==
  ASSUME RetrievalIInv, VectorSearch
  PROVE  RetrievalIInv'
<1>1. packet.at = "lexical" /\ UNCHANGED <<served, embeddedBy, purged, changes>>
  BY DEF VectorSearch
<1>2. PacketIsSound
  BY <1>1, BuiltIsSound DEF Retrieving
<1>3. PICK rows \in SUBSET VectorRows(packet.config) :
        packet' = [packet EXCEPT !.at = "vector", !.found = @ \cup rows,
                     !.vector = [c \in ChunkIds |-> IF c \in rows THEN 1 ELSE 0]]
  BY DEF VectorSearch
<1>4. PICK scores \in ScoredChunks : scores = [c \in ChunkIds |-> IF c \in rows THEN 1 ELSE 0]
  <2>1. [c \in ChunkIds |-> IF c \in rows THEN 1 ELSE 0] \in ScoredChunks
    BY DEF ScoredChunks
  <2> QED BY <2>1
<1>5. packet \in Packets /\ rows \in SUBSET ChunkIds
  BY <1>2 DEF PacketIsSound, VectorRows
<1>6. PICK found \in SUBSET ChunkIds : found = packet.found \cup rows
  <2>1. packet.found \in SUBSET ChunkIds
    BY <1>5 DEF Packets
  <2> QED BY <1>5, <2>1
<1>7. PICK new : new = [packet EXCEPT !.at = "vector", !.found = found, !.vector = scores]
  OBVIOUS
<1>8. new \in Packets
  BY <1>5, <1>7 DEF Packets, Retrieving
<1>9. /\ new.at = "vector" /\ new.found = found /\ new.profile = packet.profile /\ new.limit = packet.limit
      /\ new.config = packet.config /\ new.vectorStatus = packet.vectorStatus
      /\ new.seen = packet.seen /\ new.vector = scores
      /\ new.batch = packet.batch /\ new.hits = packet.hits
  BY <1>5, <1>7 DEF Packets
<1>10. packet' = new
  BY <1>3, <1>4, <1>6, <1>7
<1>11. FoundIsSeen(packet) /\ VectorsMatch(packet) /\ (packet.profile.capped => packet.limit <= Pool.max)
       /\ {c \in ChunkIds : Retrievable(c)} \subseteq packet.seen
  BY <1>1, <1>2 DEF PacketIsSound
<1>12. FoundIsSeen(new)
  <2>1. rows \subseteq packet.seen
    BY <1>11 DEF VectorRows
  <2> QED BY <1>1, <1>6, <1>9, <1>11, <2>1 DEF FoundIsSeen
<1>13. embeddedBy' \in [Resources -> Configs] /\ changes' \in Nat
  BY <1>1 DEF RetrievalIInv
<1>14. VectorsMatch(new)'
  <2>1. \A c \in ChunkIds : scores[c] > 0 => c \in rows
    BY <1>4
  <2>2. rows \subseteq Comparable(packet.config)
    BY <1>3 DEF VectorRows, Comparable
  <2> QED BY <1>1, <1>9, <1>11, <2>1, <2>2 DEF VectorsMatch
<1>15. PacketIsSound'
  BY <1>8, <1>9, <1>10, <1>11, <1>12, <1>14 DEF PacketIsSound, FoundIsSeen, VectorsMatch
<1> QED BY <1>13, <1>15 DEF RetrievalIInv

LEMMA RankKeeps ==
  ASSUME RetrievalIInv, ScoreGraphAndRerank
  PROVE  RetrievalIInv'
<1>1. packet.at = "vector" /\ UNCHANGED <<served, embeddedBy, purged, changes>>
  BY DEF ScoreGraphAndRerank
<1>2. PacketIsSound
  BY <1>1, BuiltIsSound DEF Retrieving
<1> DEFINE Graded(linked) == [packet EXCEPT !.graph = [c \in ChunkIds |-> IF c \in linked THEN 1 ELSE 0]]
            Ordered(linked, liked) ==
              [Graded(linked) EXCEPT !.at = "ranked", !.batch = BoundedPool(Graded(linked)),
                 !.rerank = [c \in ChunkIds |-> IF c \in liked THEN 1 ELSE 0]]
<1>21. \E linked \in SUBSET (IF "graph" \in packet.profile.use
                            THEN {c \in packet.found : Corpus[c].resource \notin purged} ELSE {}) :
        \E liked \in SUBSET (IF "rerank" \in packet.profile.use THEN Range(BoundedPool(Graded(linked))) ELSE {}) :
            packet' = Ordered(linked, liked)
  BY DEF ScoreGraphAndRerank
<1> HIDE DEF Graded, Ordered
<1>22. PICK linked, liked : packet' = Ordered(linked, liked)
  BY <1>21
<1> USE DEF Graded, Ordered
<1>23. PICK graded : graded = Graded(linked)
  OBVIOUS
<1>24. PICK pool : pool = BoundedPool(graded)
  OBVIOUS
<1>3. /\ graded = [packet EXCEPT !.graph = [c \in ChunkIds |-> IF c \in linked THEN 1 ELSE 0]]
      /\ pool = BoundedPool(graded)
      /\ packet' = [graded EXCEPT !.at = "ranked", !.batch = pool,
                       !.rerank = [c \in ChunkIds |-> IF c \in liked THEN 1 ELSE 0]]
  BY <1>22, <1>23, <1>24
<1>4. PICK graph \in ScoredChunks : graph = [c \in ChunkIds |-> IF c \in linked THEN 1 ELSE 0]
  <2>1. [c \in ChunkIds |-> IF c \in linked THEN 1 ELSE 0] \in ScoredChunks
    BY DEF ScoredChunks
  <2> QED BY <2>1
<1>5. PICK rerank \in ScoredChunks : rerank = [c \in ChunkIds |-> IF c \in liked THEN 1 ELSE 0]
  <2>1. [c \in ChunkIds |-> IF c \in liked THEN 1 ELSE 0] \in ScoredChunks
    BY DEF ScoredChunks
  <2> QED BY <2>1
<1>6. packet \in Packets
  BY <1>2 DEF PacketIsSound
<1>7. graded = [packet EXCEPT !.graph = graph]
  BY <1>3, <1>4
<1>8. graded \in Packets
  BY <1>6, <1>7 DEF Packets
<1>9. /\ graded.profile = packet.profile /\ graded.limit = packet.limit /\ graded.config = packet.config
      /\ graded.vectorStatus = packet.vectorStatus 
      /\ graded.seen = packet.seen /\ graded.found = packet.found
      /\ graded.vector = packet.vector /\ graded.hits = packet.hits
  BY <1>6, <1>7 DEF Packets
<1>10. /\ pool \in Seq(ChunkIds) /\ Range(pool) \subseteq graded.found
       /\ graded.profile.capped => Len(pool) <= graded.limit
       /\ \A c \in Range(pool), d \in graded.found \ Range(pool) : Stage1(graded, c) >= Stage1(graded, d)
  <2>1. /\ graded.profile \in Profiles /\ graded.lexical \in ScoredChunks /\ graded.vector \in ScoredChunks
        /\ graded.graph \in ScoredChunks /\ graded.found \in SUBSET ChunkIds /\ graded.limit \in Nat
    BY <1>8 DEF Packets
  <2> QED BY <1>3, <2>1, PoolIsBest
<1>11. PICK new : new = [graded EXCEPT !.at = "ranked", !.batch = pool, !.rerank = rerank]
  OBVIOUS
<1>12. packet' = new
  BY <1>3, <1>5, <1>11
<1>13. new \in Packets
  BY <1>8, <1>10, <1>11 DEF Packets, Retrieving
<1>14. /\ new.at = "ranked" /\ new.profile = graded.profile /\ new.limit = graded.limit
       /\ new.config = graded.config /\ new.vectorStatus = graded.vectorStatus
       /\ new.seen = graded.seen /\ new.found = graded.found
       /\ new.batch = pool /\ new.hits = graded.hits
       /\ new.lexical = graded.lexical /\ new.vector = graded.vector /\ new.graph = graded.graph
  BY <1>8, <1>11 DEF Packets
<1>15. FoundIsSeen(packet) /\ VectorsMatch(packet) /\ (packet.profile.capped => packet.limit <= Pool.max)
  BY <1>2 DEF PacketIsSound
<1>16. FoundIsSeen(new)
  <2>1. Range(packet.hits) = {}
    BY <1>1, <1>15 DEF FoundIsSeen
  <2> QED BY <1>9, <1>10, <1>14, <1>15, <2>1 DEF FoundIsSeen
<1>17. VectorsMatch(new)'
  BY <1>1, <1>9, <1>14, <1>15 DEF VectorsMatch
<1>18. BestOfFound(new)
  <2>1. \A c : Stage1(new, c) = Stage1(graded, c)
    BY <1>14 DEF Stage1
  <2>2. \A c \in Range(pool), d \in new.found \ Range(pool) : Stage1(new, c) >= Stage1(new, d)
    BY <1>10, <1>14, <2>1
  <2>3. ASSUME new.profile.capped
        PROVE  Len(pool) <= Pool.max
    <3>1. Len(pool) <= packet.limit /\ packet.limit <= Pool.max
      BY <1>9, <1>10, <1>14, <1>15, <2>3
    <3>2. Len(pool) \in Nat /\ packet.limit \in Nat /\ Pool.max \in Nat
      BY <1>6, <1>10, RetrievalConstants DEF Packets
    <3> QED BY <3>1, <3>2
  <2> QED BY <1>14, <2>2, <2>3 DEF BestOfFound
<1>19. PacketIsSound'
  BY <1>9, <1>12, <1>13, <1>14, <1>15, <1>16, <1>17, <1>18
     DEF PacketIsSound, FoundIsSeen, VectorsMatch, BestOfFound, Stage1
<1>20. embeddedBy' \in [Resources -> Configs] /\ changes' \in Nat
  BY <1>1 DEF RetrievalIInv
<1> QED BY <1>19, <1>20 DEF RetrievalIInv

LEMMA RecordKeeps ==
  ASSUME RetrievalIInv, RecordPacket
  PROVE  RetrievalIInv'
<1>1. packet.at = "ranked" /\ UNCHANGED <<served, embeddedBy, purged, changes>>
  BY DEF RecordPacket
<1>2. PacketIsSound
  BY <1>1, BuiltIsSound DEF Retrieving
<1>3. packet \in Packets
  BY <1>2 DEF PacketIsSound
<1>4. embeddedBy' \in [Resources -> Configs] /\ changes' \in Nat
  BY <1>1 DEF RetrievalIInv
<1>5. PICK kept : kept = {c \in Range(packet.batch) : WithOverlap(packet, c)}
  OBVIOUS
<1>6. PICK score : score = [c \in kept |-> <<FinalScore(packet, c), 0>>]
  OBVIOUS
<1>7. PICK hits : hits = Select(Ranked(kept, score), packet.k, packet.profile.secondStage)
  OBVIOUS
<1>8. \/ packet' = [at |-> "failed"]
      \/ packet' = [packet EXCEPT !.at = "succeeded", !.hits = hits]
  BY <1>5, <1>6, <1>7 DEF RecordPacket
<1>9. kept \in SUBSET ChunkIds
  <2>1. packet.batch \in Seq(ChunkIds)
    BY <1>3 DEF Packets
  <2>2. Range(packet.batch) \subseteq ChunkIds
    BY <2>1, MembersOf
  <2> QED BY <1>5, <2>2
<1>10. kept \in SUBSET Nat /\ IsFiniteSet(kept)
  BY <1>9, ChunksAreNumbers, FS_Subset
<1>11. Scores(score, kept)
  <2> SUFFICES ASSUME NEW c \in kept
               PROVE  score[c][1] \in Int /\ score[c][2] \in Int
    BY DEF Scores
  <2>1. score[c] = <<FinalScore(packet, c), 0>>
    BY <1>6
  <2>2. /\ packet.profile \in Profiles /\ packet.lexical \in ScoredChunks /\ packet.vector \in ScoredChunks
        /\ packet.graph \in ScoredChunks /\ packet.rerank \in ScoredChunks
    BY <1>3 DEF Packets
  <2>3. c \in ChunkIds
    BY <1>9
  <2>4. PICK first \in Int : first = Stage1(packet, c)
    BY <2>2, <2>3, Stage1Facts
  <2>5. PICK prior \in Int : prior = Corpus[c].prior
    BY <2>3, RetrievalConstants DEF ChunkIds
  <2>6. PICK liked \in {0, 1} : liked = packet.rerank[c]
    BY <2>2, <2>3 DEF ScoredChunks
  <2>7. PICK weight \in Nat : weight = packet.profile.rerank
    BY <2>2, ProfilesFacts
  <2>8. weight * liked \in Int
    OBVIOUS
  <2>9. FinalScore(packet, c) \in Int
    BY <2>4, <2>5, <2>6, <2>7, <2>8 DEF FinalScore
  <2> QED BY <2>1, <2>9
<1>12. PICK ranking : ranking = Ranked(kept, score)
  OBVIOUS
<1>13. ranking \in Seq(kept) /\ IsInjective(ranking) /\ Range(ranking) = kept
  BY <1>10, <1>11, <1>12, SortingSorts
<1>14. ranking \in Seq(ChunkIds)
  BY <1>9, <1>13
<1>15. hits \in Seq(ChunkIds) /\ Range(hits) \subseteq kept
  <2>1. packet.k \in Nat /\ packet.profile.secondStage \in BOOLEAN
    <3>1. packet.k \in Nat /\ packet.profile \in Profiles
      BY <1>3 DEF Packets
    <3> QED BY <3>1, ProfilesFacts
  <2>2. WellSelected(Select(ranking, packet.k, packet.profile.secondStage), ranking, packet.k)
    BY <1>13, <1>14, <2>1, SelectionSelects
  <2> QED BY <1>7, <1>12, <1>13, <2>2 DEF WellSelected
<1>16. CASE packet' = [at |-> "failed"]
  <2>1. packet'.at = "failed"
    BY <1>16
  <2> QED BY <1>4, <2>1 DEF RetrievalIInv
<1>17. CASE packet' = [packet EXCEPT !.at = "succeeded", !.hits = hits]
  <2>1. PICK new : new = [packet EXCEPT !.at = "succeeded", !.hits = hits]
    OBVIOUS
  <2>2. packet' = new
    BY <1>17, <2>1
  <2>3. new \in Packets
    BY <1>3, <1>15, <2>1 DEF Packets, Retrieving
  <2>4. /\ new.at = "succeeded" /\ new.profile = packet.profile /\ new.limit = packet.limit
        /\ new.config = packet.config /\ new.vectorStatus = packet.vectorStatus
        /\ new.seen = packet.seen /\ new.found = packet.found
        /\ new.vector = packet.vector /\ new.batch = packet.batch /\ new.hits = hits
    BY <1>3, <2>1 DEF Packets
  <2>5. FoundIsSeen(packet) /\ VectorsMatch(packet) /\ (packet.profile.capped => packet.limit <= Pool.max)
    BY <1>2 DEF PacketIsSound
  <2>6. FoundIsSeen(new)
    <3>1. Range(hits) \subseteq Range(packet.batch)
      BY <1>5, <1>15
    <3> QED BY <2>4, <2>5, <3>1 DEF FoundIsSeen
  <2>7. VectorsMatch(new)'
    BY <1>1, <2>4, <2>5 DEF VectorsMatch
  <2>8. PacketIsSound'
    BY <2>2, <2>3, <2>4, <2>5, <2>6, <2>7 DEF PacketIsSound, FoundIsSeen, VectorsMatch
  <2> QED BY <1>4, <2>8 DEF RetrievalIInv
<1> QED BY <1>8, <1>16, <1>17

LEMMA FailKeeps ==
  ASSUME RetrievalIInv, FailPacket
  PROVE  RetrievalIInv'
<1>1. packet' = [at |-> "failed"] /\ embeddedBy' = embeddedBy /\ changes' = changes
  BY DEF FailPacket
<1>2. packet'.at = "failed"
  BY <1>1
<1>3. embeddedBy' \in [Resources -> Configs] /\ changes' \in Nat
  BY <1>1 DEF RetrievalIInv
<1> QED BY <1>2, <1>3 DEF RetrievalIInv

LEMMA ReserveKeeps ==
  ASSUME RetrievalIInv, NEW r \in Resources, Reserve(r)
  PROVE  RetrievalIInv'
<1>1. /\ packet.at \in {"started", "lexical", "vector", "ranked"} /\ packet' = Seen(packet)
      /\ embeddedBy' = embeddedBy /\ purged' = purged /\ changes' = changes + 1 /\ changes \in Nat
  BY DEF Reserve, RetrievalIInv
<1>2. PacketIsSound
  BY <1>1, BuiltIsSound DEF Retrieving
<1>3. packet \in Packets
  BY <1>2 DEF PacketIsSound
<1>4. embeddedBy' \in [Resources -> Configs] /\ changes' \in Nat /\ changes' # 0
  BY <1>1 DEF RetrievalIInv
<1>5. CASE packet.at \in {"vector", "ranked"}
  <2>1. packet' = packet
    BY <1>1, <1>5 DEF Seen
  <2>2. VectorsMatch(packet)'
    BY <1>4 DEF VectorsMatch
  <2>3. PacketIsSound'
    BY <1>2, <1>5, <2>1, <2>2 DEF PacketIsSound, FoundIsSeen, BestOfFound, Stage1
  <2> QED BY <1>4, <2>3 DEF RetrievalIInv
<1>6. CASE packet.at \in {"started", "lexical"}
  <2>1. PICK now \in SUBSET ChunkIds : now = {c \in ChunkIds : Retrievable(c)}'
    OBVIOUS
  <2>2. now = {c \in ChunkIds : Corpus[c].resource \notin purged /\ served'[Corpus[c].resource] = Corpus[c].snapshot}
    BY <1>1, <2>1 DEF Retrievable
  <2>3. PICK seen \in SUBSET ChunkIds : seen = packet.seen \cup now
    <3>1. packet.seen \in SUBSET ChunkIds
      BY <1>3 DEF Packets
    <3> QED BY <3>1
  <2>4. PICK new : new = [packet EXCEPT !.seen = seen]
    OBVIOUS
  <2>5. packet' = new
    <3>1. Seen(packet) = [packet EXCEPT !.seen = @ \cup now]
      BY <1>6, <2>2 DEF Seen
    <3> QED BY <1>1, <2>3, <2>4, <3>1
  <2>6. new \in Packets
    BY <1>3, <2>4 DEF Packets
  <2>7. /\ new.at = packet.at /\ new.profile = packet.profile /\ new.limit = packet.limit
        /\ new.config = packet.config /\ new.vectorStatus = packet.vectorStatus
        /\ new.seen = seen /\ new.found = packet.found
        /\ new.vector = packet.vector /\ new.batch = packet.batch /\ new.hits = packet.hits
    BY <1>3, <2>4 DEF Packets
  <2>8. FoundIsSeen(packet) /\ VectorsMatch(packet) /\ (packet.profile.capped => packet.limit <= Pool.max)
    BY <1>2 DEF PacketIsSound
  <2>9. FoundIsSeen(new)
    BY <2>3, <2>7, <2>8 DEF FoundIsSeen
  <2>10. VectorsMatch(new)'
    BY <1>4 DEF VectorsMatch
  <2>11. PacketIsSound'
    BY <1>6, <2>1, <2>3, <2>5, <2>6, <2>7, <2>8, <2>9, <2>10 DEF PacketIsSound, FoundIsSeen, VectorsMatch
  <2> QED BY <1>4, <2>11 DEF RetrievalIInv
<1> QED BY <1>1, <1>5, <1>6

LEMMA PurgeKeeps ==
  ASSUME RetrievalIInv, NEW r \in Resources, PurgeChunks(r)
  PROVE  RetrievalIInv'
<1>1. /\ packet.at \in {"started", "lexical", "vector", "ranked"} /\ packet' = packet
      /\ embeddedBy' = embeddedBy /\ served' = served /\ purged' = purged \cup {r}
      /\ changes' = changes
  BY DEF PurgeChunks
<1>2. PacketIsSound
  BY <1>1, BuiltIsSound DEF Retrieving
<1>3. {c \in ChunkIds : Retrievable(c)}' \subseteq {c \in ChunkIds : Retrievable(c)}
  BY <1>1 DEF Retrievable
<1>4. VectorsMatch(packet)'
  <2>1. Comparable(packet.config)' \subseteq Comparable(packet.config)
    BY <1>1 DEF Comparable, Retrievable, NamespaceOf
  <2> QED BY <1>1, <1>2, <2>1 DEF PacketIsSound, VectorsMatch
<1>5. PacketIsSound'
  BY <1>1, <1>2, <1>3, <1>4 DEF PacketIsSound, FoundIsSeen, BestOfFound, Stage1
<1>6. embeddedBy' \in [Resources -> Configs] /\ changes' \in Nat
  BY <1>1 DEF RetrievalIInv
<1> QED BY <1>5, <1>6 DEF RetrievalIInv

LEMMA SelectKeeps ==
  ASSUME RetrievalIInv, SelectHits
  PROVE  RetrievalIInv'
<1>1. packet.at = "ranking" /\ embeddedBy' = embeddedBy /\ changes' = changes
  BY DEF SelectHits
<1>2. packet \in RankedPackets
  BY <1>1 DEF RetrievalIInv, PacketIsSound, Packets, Retrieving
<1>3. PICK ranking \in Rankings, k \in TopKs, secondStage \in BOOLEAN :
        packet.ranking = ranking /\ packet.k = k /\ packet.secondStage = secondStage
  BY <1>2 DEF RankedPackets
<1>4. ranking \in Seq(ChunkIds) /\ IsInjective(ranking)
  <2>1. IsRanking(ranking) /\ \E n \in 1..Len(Corpus) : ranking \in [1..n -> ChunkIds]
    BY <1>3 DEF Rankings
  <2>2. PICK n \in 1..Len(Corpus) : ranking \in [1..n -> ChunkIds]
    BY <2>1
  <2>3. n \in Nat
    BY RetrievalConstants
  <2>4. ranking \in Seq(ChunkIds)
    BY <2>2, <2>3
  <2> QED BY <2>1, <2>4 DEF IsRanking
<1>5. k \in Nat
  BY <1>3, RetrievalConstants
<1>6. PICK hits : hits = Select(ranking, k, secondStage)
  OBVIOUS
<1>7. WellSelected(hits, ranking, k)
  BY <1>4, <1>5, <1>6, SelectionSelects
<1>8. PICK new : new = [at |-> "selected", from |-> Range(ranking), k |-> k, order |-> ranking, hits |-> hits]
  OBVIOUS
<1>9. packet' = new
  BY <1>3, <1>6, <1>8 DEF SelectHits
<1>10. /\ new.at = "selected" /\ new.from = Range(ranking) /\ new.k = k
       /\ new.order = ranking /\ new.hits = hits
  BY <1>8
<1>11. /\ packet'.at = "selected" /\ packet'.from = Range(ranking) /\ packet'.k = k
       /\ packet'.order = ranking /\ packet'.hits = hits
  BY <1>9, <1>10
<1>12. SelectionFills'
  BY <1>7, <1>11 DEF SelectionFills, WellSelected
<1>13. BreadthFirst'
  <2> SUFFICES ASSUME \E c, d \in Range(hits) :
                        /\ c # d
                        /\ \/ Corpus[c].hash = Corpus[d].hash
                           \/ Corpus[c].path = Corpus[d].path /\ Corpus[c].path # NoText,
                      NEW c \in Range(ranking) \ Range(hits)
               PROVE  \/ {d \in Range(hits) : Corpus[d].hash = Corpus[c].hash} # {}
                      \/ {d \in Range(hits) : Corpus[d].path = Corpus[c].path} # {}
                      \/ Cardinality({d \in Range(hits) : Corpus[d].family = Corpus[c].family}) >= 2
                      \/ Cardinality({d \in Range(hits) : Corpus[d].resource = Corpus[c].resource})
                            >= ResourceCap(ranking, k)
    BY <1>11 DEF BreadthFirst
  <2>1. ~Broad(Range(hits))
    BY DEF Broad
  <2>2. Crowded(c, Range(hits), ResourceCap(ranking, k))
    BY <1>7, <2>1 DEF WellSelected
  <2> QED BY <2>2 DEF Crowded
<1>14. embeddedBy' \in [Resources -> Configs] /\ changes' \in Nat
  BY <1>1 DEF RetrievalIInv
<1> QED BY <1>11, <1>12, <1>13, <1>14 DEF RetrievalIInv

\* What the invariant says of the properties.
LEMMA RetrievalHolds == RetrievalIInv => RetrievalIsSound
<1> SUFFICES ASSUME RetrievalIInv
             PROVE  RetrievalIsSound
  OBVIOUS
<1>1. CASE packet.at \in {"none", "failed"}
  BY <1>1 DEF RetrievalIsSound, EvidenceWasServed, StatusForetells, BatchIsBest, SelectionFills, BreadthFirst
<1>2. CASE packet \in RankedPackets
  <2>1. packet.at = "ranking"
    BY <1>2 DEF RankedPackets
  <2> QED BY <2>1 DEF RetrievalIsSound, EvidenceWasServed, StatusForetells, BatchIsBest, SelectionFills, BreadthFirst
<1>3. CASE PacketIsSound
  <2>1. packet.at \in Retrieving
    BY <1>3 DEF PacketIsSound, Packets
  <2>2. packet.at # "selected"
    BY <2>1 DEF Retrieving
  <2>3. SelectionFills /\ BreadthFirst
    BY <2>2 DEF SelectionFills, BreadthFirst
  <2>4. EvidenceWasServed
    BY <1>3 DEF PacketIsSound, FoundIsSeen, EvidenceWasServed
  <2>5. StatusForetells
    BY <1>3 DEF PacketIsSound, VectorsMatch, StatusForetells
  <2>6. BatchIsBest
    BY <1>3 DEF PacketIsSound, BestOfFound, BatchIsBest
  <2> QED BY <2>3, <2>4, <2>5, <2>6 DEF RetrievalIsSound
<1>4. CASE packet.at = "selected" /\ SelectionFills /\ BreadthFirst
  BY <1>4 DEF RetrievalIsSound, EvidenceWasServed, StatusForetells, BatchIsBest
<1> QED BY <1>1, <1>2, <1>3, <1>4 DEF RetrievalIInv

\* The inductive invariant of Retrieval: what is found was seen, the status of the
\* vectors holds until a resource changes, and the batch is the best of what was found (retrieve_context_candidates).
THEOREM RetrievalInvariance == RetrievalSpec => []RetrievalIInv
<1>1. RetrievalInit => RetrievalIInv
  BY RetrievalBegins
<1>2. RetrievalIInv /\ [RetrievalNext]_retrievalVars => RetrievalIInv'
  <2> SUFFICES ASSUME RetrievalIInv, [RetrievalNext]_retrievalVars
               PROVE  RetrievalIInv'
    OBVIOUS
  <2>1. CASE UNCHANGED retrievalVars
    <3>1. /\ packet' = packet /\ embeddedBy' = embeddedBy /\ served' = served
          /\ purged' = purged /\ changes' = changes
      BY <2>1 DEF retrievalVars
    <3>2. PacketIsSound => PacketIsSound'
      BY <3>1 DEF PacketIsSound, FoundIsSeen, VectorsMatch, BestOfFound, Stage1, Retrievable,
                  Comparable, NamespaceOf
    <3>3. SelectionFills => SelectionFills'
      BY <3>1 DEF SelectionFills
    <3>4. BreadthFirst => BreadthFirst'
      BY <3>1 DEF BreadthFirst
    <3> QED BY <3>1, <3>2, <3>3, <3>4 DEF RetrievalIInv
  <2>2. CASE \E name \in DOMAIN RetrievalProfiles, k \in PacketTopKs, config \in Configs :
                StartPacket(name, k, config)
    BY <2>2, StartKeeps
  <2>3. CASE LexicalSearch
    BY <2>3, LexicalKeeps
  <2>4. CASE VectorSearch
    BY <2>4, VectorKeeps
  <2>5. CASE ScoreGraphAndRerank
    BY <2>5, RankKeeps
  <2>6. CASE RecordPacket
    BY <2>6, RecordKeeps
  <2>7. CASE FailPacket
    BY <2>7, FailKeeps
  <2>8. CASE SelectHits
    BY <2>8, SelectKeeps
  <2>9. CASE \E r \in Resources : Reserve(r)
    BY <2>9, ReserveKeeps
  <2>10. CASE \E r \in Resources : PurgeChunks(r)
    BY <2>10, PurgeKeeps
  <2> QED BY <2>1, <2>2, <2>3, <2>4, <2>5, <2>6, <2>7, <2>8, <2>9, <2>10 DEF RetrievalNext
<1> QED BY <1>1, <1>2, PTL DEF RetrievalSpec

\* A packet cites what was served while it was built, reports a vector status that the
\* statement bears out, and fills its selection with breadth first (retrieval.py, context_packets.py).
THEOREM RetrievalSound == RetrievalSpec => []RetrievalIsSound
<1>1. RetrievalIInv => RetrievalIsSound
  BY RetrievalHolds
<1> QED BY <1>1, RetrievalInvariance, PTL

=============================================================================
