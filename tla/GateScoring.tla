------------------------------ MODULE GateScoring ------------------------------
(***************************************************************************)
(* How a Gate A campaign is scored: which files an evaluated agent may     *)
(* touch, how blinded rows are given back to their lanes, and the verdict  *)
(* of the independent gate and of the founder-controlled internal outcome. *)
(***************************************************************************)
EXTENDS Integers, Sequences, FiniteSets, FiniteSetsExt

CONSTANTS
    Tasks,          \* the held-out tasks (twelve in the code)
    Controls,       \* the negative controls (six)
    SuccessMin,     \* ai_task_success_min
    WinMargin,      \* win_margin_vs_best_automated_min, ai_uplift_min_tasks
    HumanGap,       \* task_gap_vs_human_max
    RegressionsMax, \* baseline_regressions_max
    MaxParts,       \* bounds the components of a path and of a pattern
    MaxMapping,     \* bounds the entries of a randomized mapping
    MaxEvents       \* bounds the events of a trace

\* The success floor is at most the number of tasks (9 of 12), and a reason's subject has a
\* type: no task is taken for a control, the run or an attempt.
ASSUME ScoringConstants ==
    /\ {SuccessMin, WinMargin, HumanGap, RegressionsMax, MaxParts, MaxMapping, MaxEvents} \subseteq Nat
    /\ IsFiniteSet(Tasks) /\ IsFiniteSet(Controls)
    /\ SuccessMin <= Cardinality(Tasks)
    /\ Tasks \cap (Controls \cup {"gate-a-run", "attempt 2"}) = {}

VARIABLE scored    \* the piece of evidence that is judged

Automated == {"current_deterministic", "direct_tools_no_sourcebrief"}

\* real_static is left out: it is scored as current_deterministic is.
Lanes == Automated \union {"ai_compiled", "human_authored"}

-----------------------------------------------------------------------------
(* _repo_relative_path, _path_glob_matches, _validate_task_path and the search scope *)

PathPart == {"a", "ab", "b"}

PatternPart == PathPart \union {"*", "a*", "**"}

Lists(n, S) == UNION {[1..k -> S] : k \in 1..n}

TaskPaths == Lists(MaxParts, PathPart)

Patterns == Lists(MaxParts, PatternPart)

\* fnmatchcase on one component
FitsPattern(part, pattern) ==
    \/ pattern = "*" \/ part = pattern
    \/ pattern = "a*" /\ part \in {"a", "ab"}

GlobMatches(path, pattern) ==
    LET Matches[at \in (0..Len(path)) \X (0..Len(pattern))] ==
            LET i == at[1]
                j == at[2]
            IN  IF j = Len(pattern) THEN i = Len(path)
                ELSE IF pattern[j + 1] = "**"
                     THEN Matches[<<i, j + 1>>] \/ (i < Len(path) /\ Matches[<<i + 1, j>>])
                     ELSE /\ i < Len(path) /\ FitsPattern(path[i + 1], pattern[j + 1])
                          /\ Matches[<<i + 1, j + 1>>]
    IN  Matches[<<0, 0>>]

Literal(pattern) == \A j \in DOMAIN pattern : pattern[j] \in PathPart

Under(path, directory) == Len(directory) < Len(path) /\ SubSeq(path, 1, Len(directory)) = directory

\* A pattern without wildcard also forbids what is below it, but allows only itself.
Forbidden(path, patterns) ==
    \E p \in patterns : GlobMatches(path, p) \/ (Literal(p) /\ Under(path, p))

MayWrite(path, allowed, forbidden) ==
    ~Forbidden(path, forbidden) /\ \E p \in allowed : GlobMatches(path, p)

\* The text of a pattern before its first "*", without a slash at its end.
LiteralPrefix(pattern) ==
    LET wild == {j \in DOMAIN pattern : pattern[j] \notin PathPart}
        first == Min(wild)
    IN  IF wild = {} THEN pattern
        ELSE SubSeq(pattern, 1, first - 1) \o (IF pattern[first] = "a*" THEN <<"a">> ELSE <<>>)

\* Mutant: only a forbidden path below the searched directory is seen.
OverlapsBelow(path, prefix) == prefix = <<>> \/ prefix = path \/ Under(prefix, path)

Overlaps(path, prefix) ==
    prefix = <<>> \/ prefix = path \/ Under(prefix, path) \/ Under(path, prefix)

MaySearch(path, forbidden) ==
    ~Forbidden(path, forbidden) /\ \A p \in forbidden : ~Overlaps(path, LiteralPrefix(p))

-----------------------------------------------------------------------------
(* The randomized mapping, and a held-out or control row judged against it *)

BlindLanes == {"ai_compiled", "direct_tools_no_sourcebrief"}

Slots == 1..Cardinality(BlindLanes)

Entries == [lane : BlindLanes, item : {"task", "control"}, slot : Slots]

Distinct(e, f) == <<e.item, e.lane>> # <<f.item, f.lane>> /\ <<e.item, e.slot>> # <<f.item, f.slot>>

MappingAccepted(mapping) ==
    /\ \A i, j \in DOMAIN mapping : i < j => Distinct(mapping[i], mapping[j])
    /\ {<<e.item, e.lane>> : e \in {mapping[i] : i \in DOMAIN mapping}} = {"task", "control"} \X BlindLanes

\* A row names its lane, its slot and the sandbox receipt it ran under.
RowAccepted(mapping, row) ==
    /\ \E i \in DOMAIN mapping : mapping[i] = [lane |-> row.lane, item |-> row.item, slot |-> row.slot]
    /\ row.sandbox = row.lane

-----------------------------------------------------------------------------
(* What the agent did in a row: _validate_tool_trace and the checks of the row itself *)

Tools == {"read", "search", "write", "pytest", "lint"}

\* The root of the tests
TestsRoot == "b"

\* pytest may also be given the task's own identifier, which is no path.
MayRun(tool, path, allowed, forbidden) ==
    /\ ~Forbidden(path, forbidden)
    /\ path[1] = TestsRoot \/ (tool = "lint" /\ \E p \in allowed : path[1] = p[1])

OperationAllowed(op, work) ==
    \/ op.tool = "read" /\ ~Forbidden(op.path, work.forbidden)
    \/ op.tool = "write" /\ MayWrite(op.path, work.allowed, work.forbidden)
    \/ op.tool = "search" /\ MaySearch(op.path, work.forbidden)
    \/ op.tool \in {"pytest", "lint"} /\ MayRun(op.tool, op.path, work.allowed, work.forbidden)

Written(ops) == {ops[i].path : i \in {j \in DOMAIN ops : ops[j].tool = "write"}}

\* The success of a held-out row is recomputed, never taken from it.
DerivedSuccess(work) == work.exit = 0 /\ work.supported

WorkAccepted(work) ==
    /\ \A i \in DOMAIN work.ops : OperationAllowed(work.ops[i], work)
    /\ work.changed = Written(work.ops)
    /\ \A path \in work.changed : MayWrite(path, work.allowed, work.forbidden)
    /\ work.success = DerivedSuccess(work)

-----------------------------------------------------------------------------
(* validate_gate_a_report *)

Count(outcome, lane) == Cardinality(outcome.solved[lane])

BestAutomated(outcome) == Max({Count(outcome, lane) : lane \in Automated})

CoBest(outcome) == {lane \in Automated : Count(outcome, lane) = BestAutomated(outcome)}

Regressions(outcome) ==
    (UNION {outcome.solved[lane] : lane \in CoBest(outcome)}) \ outcome.solved["ai_compiled"]

\* Mutant: the gap to the human pack is measured both ways.
BehindHumanEither(outcome) ==
    \/ Count(outcome, "human_authored") - Count(outcome, "ai_compiled") > HumanGap
    \/ Count(outcome, "ai_compiled") - Count(outcome, "human_authored") > HumanGap

BehindHuman(outcome) == Count(outcome, "human_authored") - Count(outcome, "ai_compiled") > HumanGap

WholeRun == {"gate-a-run"}

\* One category of failure and the subjects its reasons must name.
Category(name, holds, subjects) == IF holds THEN {[category |-> name, subjects |-> subjects]} ELSE {}

\* Budgets other than the compiler's are one flag: over the first-use, the review or the
\* cost budget.
Failures(outcome) ==
    LET ai == outcome.solved["ai_compiled"]
        low == Cardinality(ai) < SuccessMin
    IN  Category("success floor", low, Tasks \ ai)
        \union Category("win margin", Cardinality(ai) - BestAutomated(outcome) < WinMargin, WholeRun)
        \union Category("human gap", BehindHuman(outcome), WholeRun)
        \union Category("regressions", Cardinality(Regressions(outcome)) > RegressionsMax, Regressions(outcome))
        \union Category("controls", outcome.failedControls["ai_compiled"] # {},
                        outcome.failedControls["ai_compiled"])
        \union Category("abstention", outcome.abstained # {} /\ low, outcome.abstained)
        \union Category("compile budget", outcome.badAttempts # {}, outcome.badAttempts)
        \union Category("economics", outcome.overBudget, WholeRun)

Reasons(outcome) == UNION {{<<f.category, s>> : s \in f.subjects} : f \in Failures(outcome)}

Verdict(outcome) == IF Failures(outcome) = {} THEN "PASS" ELSE "FAIL"

-----------------------------------------------------------------------------
(* validate_internal_outcome: a second scorer of the same five lanes *)

TooManyRegressions(n) == n > RegressionsMax

InternalFailures(outcome) ==
    LET ai == Count(outcome, "ai_compiled")
        If(name, holds) == IF holds THEN {name} ELSE {}
    IN  {"execution evidence incomplete", "economics evidence incomplete"}
        \union If("success floor", ai < SuccessMin)
        \union If("win margin", ai - BestAutomated(outcome) < WinMargin)
        \union If("regressions", TooManyRegressions(Cardinality(Regressions(outcome))))
        \union If("human gap", Count(outcome, "human_authored") - ai > 1)
        \union If("controls", \E lane \in Lanes : outcome.failedControls[lane] # {})
        \union If("budget", outcome.overBudget)

InternalVerdict(outcome) == IF InternalFailures(outcome) = {} THEN "PASS" ELSE "FAIL"

\* While evidence is incomplete, no positive uplift is shown.
ShownUplift(outcome) ==
    LET uplift == Count(outcome, "ai_compiled") - BestAutomated(outcome)
    IN  IF InternalFailures(outcome) \intersect {"execution evidence incomplete", "economics evidence incomplete"} # {}
        THEN Min({uplift, 0})
        ELSE uplift

\* What one retained event of a trace shows: the start of the thread, the end of the
\* turn, or a command, which may reach the network or use SourceBrief.
Events == {"thread", "completed", "command", "network", "product", "mcp"}

Uses(trace, words) == \E i \in DOMAIN trace : trace[i] \in words

TraceAccepted(lane, trace) ==
    /\ ~Uses(trace, {"network", "mcp"})
    /\ lane = "direct_tools_no_sourcebrief" => ~Uses(trace, {"product"})
    /\ {"thread", "completed"} \subseteq {trace[i] : i \in DOMAIN trace}
    /\ {trace[i] : i \in DOMAIN trace} \intersect {"command", "product"} # {}

-----------------------------------------------------------------------------
(* The pieces of evidence *)

WorkPaths == Lists(2, {"a", TestsRoot})

Operations == [tool : Tools, path : WorkPaths]

\* supported: the agent answered, with exact support and every metric complete
Works == UNION {[ops : {ops}, changed : {{}, Written(ops)}, allowed : {{<<"a", "**">>}}, exit : 0..1,
                 forbidden : {{<<"a", "b">>}, {<<"a">>}, {<<"**", "b">>}, {<<"b", "*">>}},
                 supported : BOOLEAN, success : BOOLEAN] : ops \in Lists(2, Operations)}

\* A task that was solved was not abstained from.
Outcomes ==
    {o \in [solved : [Lanes -> SUBSET Tasks], abstained : SUBSET Tasks, badAttempts : {{}, {"attempt 2"}},
            failedControls : {[lane \in Lanes |-> IF lane = who THEN Controls ELSE {}] : who \in {"ai_compiled", "human_authored", "none"}},
            overBudget : BOOLEAN] : o.abstained \intersect o.solved["ai_compiled"] = {}}

Piece(part, of) == [part |-> part, of |-> of]

ScoringInit == scored = Piece("none", {})

ShowPath == \E path \in TaskPaths, pattern \in Patterns :
    scored' = Piece("path", [path |-> path, pattern |-> pattern])

ShowMapping == \E mapping \in Lists(MaxMapping, Entries) :
    scored' = Piece("mapping", mapping)

ShowWork == \E work \in Works : scored' = Piece("work", work)

ShowTrace == \E trace \in Lists(MaxEvents, Events) :
    scored' = Piece("trace", trace)

ShowOutcome == \E outcome \in Outcomes :
    scored' = Piece("outcome", outcome)

ScoringNext == scored.part = "none" /\ (ShowPath \/ ShowMapping \/ ShowWork \/ ShowTrace \/ ShowOutcome)

ScoringSpec == ScoringInit /\ [][ScoringNext]_scored

-----------------------------------------------------------------------------
(* Properties *)

\* A path is matched by a pattern exactly when the pattern can be laid over it: each part
\* over one component, "**" over any number, none included (_path_glob_matches).
GlobIsExact ==
    scored.part = "path" =>
        (GlobMatches(scored.of.path, scored.of.pattern)
            <=> \E cut \in [0..Len(scored.of.pattern) -> 0..Len(scored.of.path)] :
                    /\ cut[0] = 0 /\ cut[Len(scored.of.pattern)] = Len(scored.of.path)
                    /\ \A j \in DOMAIN scored.of.pattern :
                        IF scored.of.pattern[j] = "**" THEN cut[j - 1] <= cut[j]
                        ELSE /\ cut[j] = cut[j - 1] + 1
                             /\ FitsPattern(scored.of.path[cut[j]], scored.of.pattern[j]))

\* Where an agent may search, no file it finds is forbidden to it.  Patterns that mix
\* text and "*" in one component are excepted: the code compares their text with whole
\* components.
SearchStaysOutside ==
    scored.part = "path" /\ MaySearch(scored.of.path, {scored.of.pattern})
                         /\ (\A j \in DOMAIN scored.of.pattern : scored.of.pattern[j] # "a*")
        => \A file \in TaskPaths : (file = scored.of.path \/ Under(file, scored.of.path)) => ~Forbidden(file, {scored.of.pattern})

\* The files an operation reads or changes; a test or lint run may read more.
Touched(op) ==
    CASE op.tool = "search" -> {file \in TaskPaths : file = op.path \/ Under(file, op.path)}
      [] op.tool \in {"read", "write"} -> {op.path}
      [] OTHER -> {}

\* In an accepted row the agent read, searched and changed no forbidden file, changed
\* allowed files only, and every one of them is in the row.
WorkIsClean ==
    scored.part = "work" /\ WorkAccepted(scored.of) =>
        \A i \in DOMAIN scored.of.ops :
            /\ \A file \in Touched(scored.of.ops[i]) : ~Forbidden(file, scored.of.forbidden)
            /\ scored.of.ops[i].tool = "write" =>
                  /\ scored.of.ops[i].path \in scored.of.changed
                  /\ \E p \in scored.of.allowed : GlobMatches(scored.of.ops[i].path, p)

\* Behind a blinded slot of an item there is one lane: an accepted row counts for the
\* lane whose sandbox it ran in, and for no other.
Unblinded ==
    scored.part = "mapping" /\ MappingAccepted(scored.of) =>
        \A row \in [lane : BlindLanes, item : {"task", "control"}, slot : Slots, sandbox : BlindLanes] :
            RowAccepted(scored.of, row) =>
                {scored.of[i].lane : i \in {j \in DOMAIN scored.of :
                    scored.of[j].item = row.item /\ scored.of[j].slot = row.slot}} = {row.sandbox}

\* Every failed campaign says of whom: a report that is accepted as FAIL carries reasons,
\* one that is accepted as PASS carries none, and a task named as failed was not solved.
FailuresAreNamed ==
    scored.part = "outcome" =>
        /\ (Verdict(scored.of) = "PASS") <=> (Reasons(scored.of) = {})
        /\ \A r \in Reasons(scored.of) : r[2] \notin scored.of.solved["ai_compiled"]

Improved(outcome, task) ==
    [outcome EXCEPT !.solved["ai_compiled"] = @ \union {task}, !.abstained = @ \ {task}]

\* A candidate that passes still passes when it solves one task more.
BetterNeverFails ==
    scored.part = "outcome" /\ Verdict(scored.of) = "PASS" =>
        \A task \in Tasks : Verdict(Improved(scored.of, task)) = "PASS"

Compared == {"success floor", "win margin", "regressions", "human gap"}

\* The founder's scorer, written apart, finds the same shortcomings of the same
\* outcomes as the gate's; it never passes a campaign nor shows an uplift above none.
SignalsAgree ==
    scored.part = "outcome" =>
        /\ InternalFailures(scored.of) \intersect Compared
             = {f.category : f \in Failures(scored.of)} \intersect Compared
        /\ InternalVerdict(scored.of) = "FAIL" /\ ShownUplift(scored.of) <= 0

\* No event of an accepted trace reached the network or an MCP server, nor, in the direct
\* lane, SourceBrief.
TracesAreClean ==
    scored.part = "trace" =>
        \A lane \in Lanes : TraceAccepted(lane, scored.of) =>
            \A i \in DOMAIN scored.of :
                /\ scored.of[i] \notin {"network", "mcp"}
                /\ lane = "direct_tools_no_sourcebrief" => scored.of[i] # "product"

\* An evaluated agent's access is contained: the path rules mean what they say, accepted
\* rows and traces kept to them, and each row counts for the lane it ran in.
AccessIsContained ==
    GlobIsExact /\ SearchStaysOutside /\ WorkIsClean /\ Unblinded /\ TracesAreClean

\* A verdict is earned: failures are named, a better candidate does no worse, and the
\* two scorers agree.
VerdictIsEarned == FailuresAreNamed /\ BetterNeverFails /\ SignalsAgree

================================================================================
