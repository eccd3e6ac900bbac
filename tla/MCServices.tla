----------------------------- MODULE MCServices -----------------------------
(***************************************************************************)
(* TLC instances of what the API answers to people and agents: accounts,   *)
(* remote code, the runtime tools, agent answers, evaluations and the      *)
(* packages of skill exports.  They share no state, so one run checks them *)
(* side by side: part says which of them moves, and the others stay as     *)
(* they began.                                                             *)
(***************************************************************************)
EXTENDS MCAccounts, RemoteCode, CodeReads, RuntimeReads, AgentAnswers, EvalRuns, EvalReports,
        SkillPackages, TLC

VARIABLE part

servicesVars == <<part, accountVars, codeVars, probe, readVars, asked, evalVars, report,
                  packageVars>>

\* The file of the second snapshot has two chunks.
MCFileText == <<<<1>>, <<2, 1>>>>

MCWhole == {"every resource"}

MCQuestions ==
    {[asks |-> MCWhole, expects |-> {}, forbids |-> {"b"}, least |-> 1],
     [asks |-> {"a"}, expects |-> {"b"}, forbids |-> {}, least |-> 0],
     [asks |-> {"a"}, expects |-> {"a"}, forbids |-> {}, least |-> 2],
     [asks |-> {}, expects |-> {}, forbids |-> {}, least |-> 0]}

MCCited(least) == [r \in {"a", "b"} |-> IF r = "a" THEN least ELSE 1]

\* Fits with paths left out; shows a line of two; has three files, the last of which the
\* scan may not see; does not fit; shows what is barred.
MCPins ==
    {[paths |-> 1..6, headings |-> <<"plain">>, titles |-> {"plain"},
      files |-> <<{"line"}>>, cited |-> MCCited(0)],
     [paths |-> {1, 4}, headings |-> <<"line">>, titles |-> {"home path"},
      files |-> <<{"line"}, {"long line"}>>, cited |-> MCCited(1)],
     [paths |-> {1, 4}, headings |-> <<"plain">>, titles |-> {"plain"},
      files |-> <<{}, {}, {"line"}>>, cited |-> MCCited(1)],
     [paths |-> {2, 3, 4}, headings |-> <<"plain", "plain", "barred">>, titles |-> {"plain"},
      files |-> <<>>, cited |-> MCCited(1)],
     [paths |-> {2, 4}, headings |-> <<"plain", "plain">>, titles |-> {"barred"},
      files |-> <<>>, cited |-> MCCited(1)]}

MCGroupOf == <<1, 1, 1, 2, 2, 3>>

MCKindsOf ==
    <<{"docs"}, {"runtime", "tests"}, {"runtime"}, {"docs", "config"}, {"ci_release"}, {}>>

\* Callers, processes and commits are told apart by nothing but their names.
ServicesSymmetry ==
    Permutations(Callers) \cup Permutations(CodeCallers) \cup Permutations(Processes)
      \cup Permutations(Commits)

\* Calls that follow one another, beside tokens, a second process and a second workspace;
\* calls on roles and projects that overlap, and what they lead to, without these.
AccountsBound ==
    LET idle == \E c \in Callers : calls[c].op = "idle"
        onlyHome == \A w \in Workspaces \ {Home} : ~Exists(w)
    IN  /\ \A c \in Callers : calls[c].ws = Home
        /\ mixed => idle
        /\ \/ ~mixed /\ idle /\ (onlyHome \/ \A t \in TokenNumbers : tokens[t].status = "none")
           \/ /\ onlyHome /\ \A c \in Callers : calls[c].op \notin {"login", "token"}
              /\ \A t \in TokenNumbers : tokens[t].status = "none"
              /\ \A p, q \in Processes : p # q => "down" \in {boot[p].pc, boot[q].pc}

NoCase == [kind |-> "none"]

ServicesInit ==
    /\ part \in {"accounts", "code", "reads", "runtime", "answers", "evals", "reports",
                 "exports"}
    /\ AccountInit /\ CodeInit /\ ServerInit /\ EvalInit
    /\ IF part = "reads" THEN ReadsInit ELSE probe = NoCase
    /\ IF part = "answers" THEN AnswersInit ELSE asked = NoCase
    /\ IF part = "reports" THEN ReportsInit ELSE report = NoCase
    /\ IF part = "exports" THEN PackageInit
       ELSE /\ pinned = NoCase /\ named = NoCase
            /\ compiling = NoCompile /\ packages = <<>>

ServicesNext ==
    \/ /\ part = "accounts" /\ AccountNext
       /\ UNCHANGED <<part, codeVars, probe, readVars, asked, evalVars, report,
                      packageVars>>
    \/ /\ part = "code" /\ CodeNext
       /\ UNCHANGED <<part, accountVars, probe, readVars, asked, evalVars, report,
                      packageVars>>
    \/ /\ part = "reads" /\ ReadsNext
       /\ UNCHANGED <<part, accountVars, codeVars, readVars, asked, evalVars, report,
                      packageVars>>
    \/ /\ part = "runtime" /\ ServerNext
       /\ UNCHANGED <<part, accountVars, codeVars, probe, asked, evalVars, report,
                      packageVars>>
    \/ /\ part = "answers" /\ AnswersNext
       /\ UNCHANGED <<part, accountVars, codeVars, probe, readVars, evalVars, report,
                      packageVars>>
    \/ /\ part = "evals" /\ EvalNext
       /\ UNCHANGED <<part, accountVars, codeVars, probe, readVars, asked, report,
                      packageVars>>
    \/ /\ part = "reports" /\ ReportsNext
       /\ UNCHANGED <<part, accountVars, codeVars, probe, readVars, asked, evalVars,
                      packageVars>>
    \/ /\ part = "exports" /\ PackageNext
       /\ UNCHANGED <<part, accountVars, codeVars, probe, readVars, asked, evalVars, report>>

ServicesSpec == ServicesInit /\ [][ServicesNext]_servicesVars

=============================================================================
