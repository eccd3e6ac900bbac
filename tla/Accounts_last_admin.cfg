CONSTANTS
    Users = {u1, u2}
    Root = u1
    Workspaces = {w1}
    Home = w1
    Projects = {q1}
    First = q1
    Callers = {c1, c2}
    Processes = {p1}
    MaxTokens = 1
    DevAuth = TRUE
    Wants <- MCWants
SPECIFICATION AccountSpec
PROPERTIES LastAdminStays
CHECK_DEADLOCK FALSE
