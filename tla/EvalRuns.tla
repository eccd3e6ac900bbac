------------------------------ MODULE EvalRuns ------------------------------
(***************************************************************************)
(* Retrieval evaluations: a request of several questions is authorised,    *)
(* asked question by question while resources come and go, and persisted.  *)
(* Tokens limited to some resources then list and read the evaluations of  *)
(* the project.  A scope is a set of resources, or Whole: all of them, the *)
(* None of the code.                                                       *)
(***************************************************************************)
EXTENDS Integers, Sequences, FiniteSets

CONSTANTS
    Repos,             \* the resources of the project
    Whole,
    Questions,         \* the questions a request may hold
    MaxQuestions,      \* bounds the questions of a request
    MaxEvals           \* bounds the persisted evaluations

Scopes == (SUBSET Repos) \cup {Whole}

ASSUME EvalConstants ==
    /\ Whole \notin SUBSET Repos
    /\ \A q \in Questions : /\ q.asks \in Scopes /\ q.expects \subseteq Repos
                            /\ q.forbids \subseteq Repos /\ q.least \in Nat
    /\ {MaxQuestions, MaxEvals} \subseteq Nat

VARIABLES
    lives,     \* of a resource: "live", "archived" or "deleted"
    asking,    \* the evaluation in progress: its token, questions and results
    kept       \* the persisted evaluations

evalVars == <<lives, asking, kept>>

Idle == [token |-> Whole, questions |-> <<>>, results |-> <<>>]

EvalTypeOK ==
    /\ lives \in [Repos -> {"live", "archived", "deleted"}]
    /\ asking.token \in Scopes /\ asking.questions \in Seq(Questions)
    /\ Len(asking.results) <= Len(asking.questions)
    /\ Len(kept) <= MaxEvals

EvalInit == lives = [r \in Repos |-> "live"] /\ asking = Idle /\ kept = <<>>

-----------------------------------------------------------------------------
(* Access *)

\* token_allows_resource, of every one of a set
Allows(token, rs) == token = Whole \/ rs \subseteq token

\* effective_resource_ids: {} when a resource is refused.
Effective(token, asks) ==
    IF token # Whole /\ asks = Whole THEN {token}
    ELSE {s \in {asks} : s = Whole \/ Allows(token, s)}

\* The scope of a question of an evaluation that was accepted.
ScopeOf(token, q) == CHOOSE s \in Effective(token, q.asks) : TRUE

Ids(scope) == IF scope = Whole THEN {} ELSE scope

Referenced(token, q) == q.expects \cup q.forbids \cup Ids(ScopeOf(token, q))

\* resolve_resource: an archived resource is found.
Authorised(token, qs) ==
    /\ \A i \in DOMAIN qs : Effective(token, qs[i].asks) # {}
    /\ \A i \in DOMAIN qs : \A r \in Referenced(token, qs[i]) :
          Allows(token, {r}) /\ lives[r] # "deleted"

-----------------------------------------------------------------------------
(* Running an evaluation *)

BeginEval(token, qs) ==
    /\ asking = Idle /\ Len(kept) < MaxEvals
    /\ Authorised(token, qs)
    /\ asking' = [token |-> token, questions |-> qs, results |-> <<>>]
    /\ UNCHANGED <<lives, kept>>

\* The resources an answer can cite at this moment.
Citable(scope) == {r \in Repos : lives[r] = "live" /\ (scope = Whole \/ r \in scope)}

\* The failures of a question: its citations, n of them, are of cited; matched says that
\* the paths, symbols and texts it requires were there.
Failures(q, cited, n, matched) ==
    {f \in {"citations", "expected", "forbidden", "content"} :
        \/ f = "citations" /\ n < q.least
        \/ f = "expected" /\ ~(q.expects \subseteq cited)
        \/ f = "forbidden" /\ q.forbids \cap cited # {}
        \/ f = "content" /\ ~matched}

AskQuestion(cited, n, matched) ==
    LET q == asking.questions[Len(asking.results) + 1]
    IN  /\ Len(asking.results) < Len(asking.questions)
        /\ cited \subseteq Citable(ScopeOf(asking.token, q))
        /\ n >= Cardinality(cited) /\ (n = 0 <=> cited = {})
        /\ asking' = [asking EXCEPT !.results =
               Append(@, [cited |-> cited, failures |-> Failures(q, cited, n, matched)])]
        /\ UNCHANGED <<lives, kept>>

\* Mutant: the scope of the last question decides.
WideOfLast(token, qs) == ScopeOf(token, qs[Len(qs)]) = Whole

\* project_wide
Wide(token, qs) == \E i \in DOMAIN qs : ScopeOf(token, qs[i]) = Whole

\* persisted_resource_ids
PersistedIds(e) ==
    (UNION {Referenced(e.token, e.questions[i]) : i \in DOMAIN e.questions})
        \cup (UNION {e.results[i].cited : i \in DOMAIN e.results})

\* The resources of which the diagnostics count the chunks and name the models.
Diagnosed(e) ==
    IF \E i \in DOMAIN e.questions : ScopeOf(e.token, e.questions[i]) = Whole THEN Repos
    ELSE UNION {ScopeOf(e.token, e.questions[i]) : i \in DOMAIN e.questions}

Persist ==
    /\ asking # Idle /\ Len(asking.results) = Len(asking.questions)
    /\ kept' = Append(kept,
           [by |-> asking.token, items |-> asking.questions, results |-> asking.results,
            wide |-> Wide(asking.token, asking.questions), ids |-> PersistedIds(asking),
            diagnosed |-> Diagnosed(asking),
            passed |-> \A i \in DOMAIN asking.results : asking.results[i].failures = {}])
    /\ asking' = Idle
    /\ UNCHANGED lives

\* The request dies, with all its answers.
Abandon == asking # Idle /\ asking' = Idle /\ UNCHANGED <<lives, kept>>

ChangeLife(r, life) ==
    /\ lives[r] # life /\ (lives[r] = "deleted" => life = "live")
    /\ lives' = [lives EXCEPT ![r] = life]
    /\ UNCHANGED <<asking, kept>>

EvalNext ==
    \/ \E token \in Scopes, n \in 1..MaxQuestions : \E qs \in [1..n -> Questions] :
          BeginEval(token, qs)
    \/ \E cited \in SUBSET Repos, n \in 0..Cardinality(Repos) + 1, matched \in BOOLEAN :
          AskQuestion(cited, n, matched)
    \/ Persist
    \/ Abandon
    \/ \E r \in Repos, life \in {"live", "archived", "deleted"} : ChangeLife(r, life)

EvalSpec == EvalInit /\ [][EvalNext]_evalVars

-----------------------------------------------------------------------------
(* Reading evaluations *)

\* list_retrieval_eval_runs: the WHERE clause
Lists(token, e) == token = Whole \/ (~e.wide /\ e.ids \subseteq token)

\* _eval_run_visible_to_principal
Reads(token, e) == token = Whole \/ (~e.wide /\ e.ids \subseteq token)

\* Every resource that the answer of get_retrieval_eval_run tells something of.
Told(e) ==
    e.diagnosed
        \cup (UNION {e.items[i].expects \cup e.items[i].forbids : i \in DOMAIN e.items})
        \cup (UNION {e.results[i].cited \cup Ids(ScopeOf(e.by, e.items[i])) : i \in DOMAIN e.items})

\* Whatever a limited token can list or read of an evaluation somebody else ran tells of
\* its own resources only, in every item, in the coverage and in the diagnostics; and who
\* ran an evaluation can read it.  (retrieval_evals.py: _eval_run_visible_to_principal
\* looks at two stored columns, while the answer is built from the items.)
EvaluationsStayPrivate ==
    \A i \in DOMAIN kept :
        /\ Reads(kept[i].by, kept[i])
        /\ \A token \in SUBSET Repos :
              Reads(token, kept[i]) \/ Lists(token, kept[i]) => Told(kept[i]) \subseteq token

\* Evaluations are persisted well formed, and private.  (retrieval_evals.py)
EvalsArePrivate == EvalTypeOK /\ EvaluationsStayPrivate

=============================================================================
