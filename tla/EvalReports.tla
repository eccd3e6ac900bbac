---------------------------- MODULE EvalReports ----------------------------
(***************************************************************************)
(* The manifest and the graded report of an evaluation: the requests a     *)
(* manifest is cut into, and the validation of a report against it.  The   *)
(* only state is the case at hand, which nothing changes.  A question is   *)
(* its number; a rate is a pair, of the checks that passed and of those    *)
(* that apply.                                                             *)
(***************************************************************************)
EXTENDS Integers, Sequences, FiniteSets, FiniteSetsExt

CONSTANTS
    MaxManifest,       \* bounds the questions of a manifest
    MaxBatch,          \* MAX_API_BATCH_QUESTIONS
    CharLimits         \* the context sizes a question may ask for

ASSUME ReportConstants == MaxManifest \in Nat /\ MaxBatch \in Nat \ {0} /\ CharLimits \subseteq Nat

VARIABLE report

Grades == {"PASS", "PARTIAL", "FAIL"}
Checks == {"wrong_repo", "support", "abstained"}
Statuses == {"pass", "partial", "fail", "not_applicable"}

Results == [of : 1..2, grade : Grades, checks : [Checks -> Statuses]]

\* The results whose checks all ended alike.
Uniform == {r \in Results : \E s \in Statuses : \A c \in Checks : r.checks[c] = s}

\* What a report says of the embeddings it was made with.
Qualities == {"none", "production", "dev", "dev_allowed"}

-----------------------------------------------------------------------------
(* Manifests *)

\* validate_manifest, validate_question: a question is a control (expected_unanswerable)
\* or expects resources; one control at least.
ValidManifest(qs) ==
    /\ qs # <<>>
    /\ \A i \in DOMAIN qs : qs[i].control => qs[i].expects = {} /\ qs[i].criteria
    /\ \E i \in DOMAIN qs : qs[i].control

\* question_batches: the k-th slice
Batch(qs, size, k) == SubSeq(qs, (k - 1) * size + 1, Min({k * size, Len(qs)}))

BatchCount(qs, size) == (Len(qs) + size - 1) \div size

\* api_eval_payloads: no resources means all of them.
Request(qs) ==
    [questions |-> [i \in DOMAIN qs |-> [id |-> qs[i].id, chars |-> qs[i].chars]],
     max_chars |-> Max({qs[i].chars : i \in DOMAIN qs})]

Payloads(qs, size) == [k \in 1..BatchCount(qs, size) |-> Request(Batch(qs, size, k))]

-----------------------------------------------------------------------------
(* Reports *)

\* _derived_check_rate
Rate(results, check) ==
    LET applying == {i \in DOMAIN results : results[i].checks[check] # "not_applicable"}
    IN  IF applying = {} THEN <<1, 1>>
        ELSE <<Cardinality({i \in applying : results[i].checks[check] = "pass"}),
               Cardinality(applying)>>

FailedChecks(results) ==
    {f \in (DOMAIN results) \X Checks : results[f[1]].checks[f[2]] = "fail"}

Graded(results, grade) == \E i \in DOMAIN results : results[i].grade = grade

\* Mutant: a FAIL grade blocks only when a check failed as well.
BlocksWhenChecked(results) == Graded(results, "FAIL") /\ FailedChecks(results) # {}

Blocks(results) == Graded(results, "FAIL") \/ FailedChecks(results) # {}

\* _assert_report_aggregate_matches_results: the verdict a report must state.
ExpectedVerdict(results, quality) ==
    IF Blocks(results) THEN "BLOCK"
    ELSE IF Graded(results, "PARTIAL") \/ quality = "dev" THEN "RISK" ELSE "PASS"

\* The aggregate a report must state.
Aggregate(results, quality) ==
    [rates |-> [c \in Checks |-> Rate(results, c)],
     failures |-> [c \in Checks |-> Cardinality({f \in FailedChecks(results) : f[2] = c})],
     verdict |-> ExpectedVerdict(results, quality)]

\* validate_grade_report: each question of the manifest is graded once.
ValidReport(asked, results, stated, quality) ==
    /\ results # <<>>
    /\ \A i, j \in DOMAIN results : results[i].of = results[j].of => i = j
    /\ stated = Aggregate(results, quality)
    /\ {results[i].of : i \in DOMAIN results} = asked

-----------------------------------------------------------------------------
(* The cases *)

ManifestsOf(n) ==
    {[i \in 1..n |-> [id |-> i, control |-> i \in m.controls, chars |-> m.chars[i],
                      expects |-> IF i \in m.named THEN {i} ELSE {}, criteria |-> TRUE]] :
        m \in [controls : SUBSET (1..n), named : SUBSET (1..n), chars : [1..n -> CharLimits]]}

ReportsInit ==
    \/ \E n \in 1..MaxManifest, size \in 1..MaxBatch : \E qs \in ManifestsOf(n) :
          ValidManifest(qs) /\ report = [kind |-> "manifest", questions |-> qs, size |-> size]
    \/ \E asked \in {{1}, {1, 2}}, quality \in Qualities, first \in {r \in Results : r.of = 1} :
          \E rest \in {<<>>} \cup {<<r>> : r \in Uniform} :
             report = [kind |-> "report", asked |-> asked, results |-> <<first>> \o rest,
                       quality |-> quality]

ReportsNext == UNCHANGED report

ReportsSpec == ReportsInit /\ [][ReportsNext]_report

-----------------------------------------------------------------------------
(* Properties *)

\* Every question of a manifest is sent once, in order, in requests no larger than the API
\* takes, and none is sent with less context than it asks for.  (eval_manifest.py:
\* question_batches, api_eval_payloads)
NoQuestionIsLost ==
    report.kind = "manifest" =>
        LET qs == report.questions
            sent == Payloads(qs, report.size)
        IN  /\ \A i \in DOMAIN qs : \E k \in DOMAIN sent : \E j \in DOMAIN sent[k].questions :
                  /\ sent[k].questions[j].id = i
                  /\ sent[k].max_chars >= qs[i].chars
                  /\ i = (k - 1) * report.size + j
            /\ \A k \in DOMAIN sent : Len(sent[k].questions) \in 1..report.size

Rank(verdict) == CASE verdict = "PASS" -> 0 [] verdict = "RISK" -> 1 [] verdict = "BLOCK" -> 2

Worse(status) == CASE status \in {"pass", "not_applicable"} -> {"partial", "fail"}
                   [] status = "partial" -> {"fail"}
                   [] status = "fail" -> {}

WorseGrade(grade) == CASE grade = "PASS" -> {"PARTIAL", "FAIL"}
                       [] grade = "PARTIAL" -> {"FAIL"}
                       [] grade = "FAIL" -> {}

\* Whatever is graded worse, the verdict is no better; and the report that passes graded
\* every question of its manifest PASS, with no rate below what partial answers take from
\* it and with embeddings fit for the verdict.  (_assert_report_aggregate_matches_results)
VerdictsFollowGrades ==
    report.kind = "report" =>
        LET rs == report.results
            now == Aggregate(rs, report.quality)
            rank(results) == Rank(Aggregate(results, report.quality).verdict)
        IN  /\ \A i \in DOMAIN rs :
                  /\ \A c \in Checks : \A s \in Worse(rs[i].checks[c]) :
                        rank([rs EXCEPT ![i].checks[c] = s]) >= Rank(now.verdict)
                  /\ \A g \in WorseGrade(rs[i].grade) :
                        rank([rs EXCEPT ![i].grade = g]) >= Rank(now.verdict)
            /\ ValidReport(report.asked, rs, now, report.quality) /\ now.verdict = "PASS" =>
                  /\ \A q \in report.asked : \E i \in DOMAIN rs : rs[i].of = q /\ rs[i].grade = "PASS"
                  /\ \A c \in Checks : now.rates[c][1] < now.rates[c][2] =>
                        \E i \in DOMAIN rs : rs[i].checks[c] = "partial"
                  /\ report.quality # "dev"

\* A manifest is sent whole and its report is graded soundly.  (eval_manifest.py)
EvalsAreHonest == NoQuestionIsLost /\ VerdictsFollowGrades

=============================================================================
