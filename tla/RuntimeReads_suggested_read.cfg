CONSTANTS
    Sources = {"a", "b"}
    Filed = {"a"}
    FileText <- MCFileText
    MaxPacks = 1
    MaxGraphs = 1
    NoHit = NoHit
SPECIFICATION ServerSpec
INVARIANTS SuggestedReadAnswers
CHECK_DEADLOCK FALSE
