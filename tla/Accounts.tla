------------------------------ MODULE Accounts ------------------------------
(***************************************************************************)
(* Users, workspaces, projects and tokens, and the bootstrap of the first  *)
(* administrator when a process starts.                                    *)
(*                                                                         *)
(* No handler locks a row.  A call is two steps: it authenticates, checks  *)
(* and loads everything it will need; it commits what it changed of the    *)
(* copies it loaded, although another call may have committed in between.  *)
(* "admin" stands for the roles owner and admin, which every check treats  *)
(* alike, "member" for member and viewer.                                  *)
(***************************************************************************)
EXTENDS Naturals, FiniteSets

CONSTANTS
    Users,         \* e-mail addresses
    Root,          \* the user of SOURCEBRIEF_ADMIN_EMAIL
    Workspaces,    \* slugs
    Home,          \* the bootstrap workspace
    Projects,      \* names of projects of a workspace
    First,         \* the bootstrap project
    Callers,       \* calls that may be open at once
    Processes,     \* API processes
    DevAuth,       \* SOURCEBRIEF_DEV_AUTH: the e-mail header is trusted
    Wants,         \* what calls on members ask for
    MaxTokens      \* bounds the tokens ever issued

ASSUME AccountConstants ==
    /\ Root \in Users /\ Home \in Workspaces /\ First \in Projects
    /\ DevAuth \in BOOLEAN /\ MaxTokens \in Nat
    /\ Wants \subseteq [role : {"admin", "member", "none"},
                        active : {"none", "on", "off"}, password : BOOLEAN]

VARIABLES
    accounts,    \* users rows
    members,     \* workspace_memberships: the role of a user in a workspace
    grants,      \* project_memberships: the role of a user in a project
    projects,    \* projects rows
    tokens,      \* api_tokens rows, sessions included
    calls,       \* the open calls
    boot,        \* the processes and what their bootstrap loaded
    mixed        \* history: a call has committed that another had overtaken

accountVars == <<accounts, members, grants, projects, tokens, calls, boot, mixed>>

-----------------------------------------------------------------------------
(* Types *)

AccountRoles == {"admin", "member"}
TokenNumbers == 1..MaxTokens

Account == [known : BOOLEAN, active : BOOLEAN, password : BOOLEAN, platform : BOOLEAN]

Token == [status : {"none", "live", "ended"}, type : {"api", "session"},
          ws : Workspaces, owner : Users]

\* role "none" and password FALSE mean the payload leaves the column alone.
Payload == [role : AccountRoles \cup {"none"}, active : {"none", "on", "off"},
            password : BOOLEAN]

\* overtaken is history: another call has committed roles or a project since this one
\* loaded its copies.
AccountCall ==
    [op : {"idle", "update", "upsert", "project", "token", "login"},
     by : Users, ws : Workspaces, user : Users, want : Payload,
     row : Account, role : AccountRoles \cup {"none"},
     granted : [Projects -> AccountRoles \cup {"none"}],
     projects : SUBSET Projects, sessions : SUBSET TokenNumbers, overtaken : BOOLEAN]

AccountTypeOK ==
    /\ accounts \in [Users -> Account]
    /\ members \in [Workspaces -> [Users -> AccountRoles \cup {"none"}]]
    /\ grants \in [Workspaces -> [Projects -> [Users -> AccountRoles \cup {"none"}]]]
    /\ projects \in [Workspaces -> SUBSET Projects]
    /\ tokens \in [TokenNumbers -> Token]
    /\ calls \in [Callers -> AccountCall]
    /\ boot \in [Processes -> [pc : {"down", "loaded", "up"}, row : Account,
                               role : AccountRoles \cup {"none"},
                               grant : AccountRoles \cup {"none"},
                               home : BOOLEAN, project : BOOLEAN]]
    /\ mixed \in BOOLEAN

NoAccount == [known |-> FALSE, active |-> FALSE, password |-> FALSE, platform |-> FALSE]
NoPayload == [role |-> "none", active |-> "none", password |-> FALSE]
NoAccountCall ==
    [op |-> "idle", by |-> Root, ws |-> Home, user |-> Root, want |-> NoPayload,
     row |-> NoAccount, role |-> "none", granted |-> [p \in Projects |-> "none"],
     projects |-> {}, sessions |-> {}, overtaken |-> FALSE]
BootDown == [pc |-> "down", row |-> NoAccount, role |-> "none", grant |-> "none",
             home |-> FALSE, project |-> FALSE]

AccountInit ==
    /\ accounts = [u \in Users |-> NoAccount]
    /\ members = [w \in Workspaces |-> [u \in Users |-> "none"]]
    /\ grants = [w \in Workspaces |-> [p \in Projects |-> [u \in Users |-> "none"]]]
    /\ projects = [w \in Workspaces |-> {}]
    /\ tokens = [t \in TokenNumbers |->
                    [status |-> "none", type |-> "api", ws |-> Home, owner |-> Root]]
    /\ calls = [c \in Callers |-> NoAccountCall]
    /\ boot = [p \in Processes |-> BootDown]
    /\ mixed = FALSE

-----------------------------------------------------------------------------
(* What the checks read *)

\* A workspace is created together with its first membership and is not deleted.
Exists(w) == \E u \in Users : members[w][u] # "none"

Serving == \E p \in Processes : boot[p].pc = "up"

\* require_principal, for the calls that an API token may not make: a session that
\* has not ended, of an active user, or the e-mail header under dev auth.  A session
\* acts in every workspace of its owner.
Authenticated(u) ==
    \/ DevAuth
    \/ \E t \in TokenNumbers :
        /\ tokens[t].status = "live" /\ tokens[t].type = "session"
        /\ tokens[t].owner = u /\ accounts[u].active

ByAdmin(w, u) == Authenticated(u) /\ members[w][u] = "admin"

LoginAdmins(w) ==
    {u \in Users : members[w][u] = "admin" /\ accounts[u].active /\ accounts[u].password}

\* Mutant: the count is compared with zero.
LosesLastAdminLate(w, u, role, active, password) ==
    /\ u \in LoginAdmins(w)
    /\ ~(role = "admin" /\ active /\ password)
    /\ Cardinality(LoginAdmins(w)) <= 0

\* assert_not_last_admin_transition
LosesLastAdmin(w, u, role, active, password) ==
    /\ u \in LoginAdmins(w)
    /\ ~(role = "admin" /\ active /\ password)
    /\ Cardinality(LoginAdmins(w)) <= 1

SessionsOf(w, u) ==
    {t \in TokenNumbers : /\ tokens[t].status = "live" /\ tokens[t].type = "session"
                          /\ tokens[t].ws = w /\ tokens[t].owner = u}

NextActive(want, row) ==
    CASE want.active = "on" -> TRUE [] want.active = "off" -> FALSE
      [] OTHER -> row.active

\* The copies a handler loads of a user in a workspace.
Loaded(op, by, w, u, want, sessions) ==
    [op |-> op, by |-> by, ws |-> w, user |-> u, want |-> want,
     row |-> accounts[u], role |-> members[w][u],
     granted |-> [p \in Projects |-> grants[w][p][u]],
     projects |-> projects[w], sessions |-> sessions, overtaken |-> FALSE]

FreeTokens == {t \in TokenNumbers : tokens[t].status = "none"}

Begin(c, call) == Serving /\ calls[c].op = "idle" /\ calls' = [calls EXCEPT ![c] = call]
End(c) == calls' = [calls EXCEPT ![c] = NoAccountCall] /\ UNCHANGED mixed

\* The call ends with rows written that the other open calls may have loaded.
Overtake(c) ==
    /\ calls' = [d \in Callers |->
                    IF d = c THEN NoAccountCall
                    ELSE [calls[d] EXCEPT !.overtaken = calls[d].op # "idle"]]
    /\ mixed' = (mixed \/ calls[c].overtaken)

-----------------------------------------------------------------------------
(* Accounts and workspaces *)

\* get_or_create_user under dev auth.  The row is committed by the handler that
\* asked for the principal: create_workspace, with the first membership.
CreateWorkspace(w, u) ==
    /\ Serving
    /\ ~Exists(w)
    /\ Authenticated(u)
    /\ accounts' = IF accounts[u].known THEN accounts
                   ELSE [accounts EXCEPT ![u] = [NoAccount EXCEPT !.known = TRUE,
                                                                  !.active = TRUE]]
    /\ members' = [members EXCEPT ![w][u] = "admin"]
    /\ UNCHANGED <<grants, projects, tokens, calls, boot, mixed>>

\* The token belongs to the first workspace of the user, of any other if that
\* one was created earlier.
Login(c, w, u) ==
    /\ accounts[u].known /\ accounts[u].active /\ accounts[u].password
    /\ members[w][u] # "none"
    /\ Begin(c, Loaded("login", u, w, u, NoPayload, {}))
    /\ UNCHANGED <<accounts, members, grants, projects, tokens, boot, mixed>>

CreateApiToken(c, w, u) ==
    /\ ByAdmin(w, u)
    /\ Begin(c, Loaded("token", u, w, u, NoPayload, {}))
    /\ UNCHANGED <<accounts, members, grants, projects, tokens, boot, mixed>>

CommitToken(c) ==
    /\ calls[c].op \in {"login", "token"}
    /\ \E t \in FreeTokens :
        /\ \A s \in FreeTokens : t <= s
        /\ tokens' = [tokens EXCEPT ![t] =
                        [status |-> "live", ws |-> calls[c].ws, owner |-> calls[c].by,
                         type |-> IF calls[c].op = "login" THEN "session" ELSE "api"]]
    /\ End(c)
    /\ UNCHANGED <<accounts, members, grants, projects, boot>>

\* logout and revoke_api_token, and the expiry of a token.
EndToken(t) ==
    /\ tokens[t].status = "live"
    /\ tokens' = [tokens EXCEPT ![t].status = "ended"]
    /\ UNCHANGED <<accounts, members, grants, projects, calls, boot, mixed>>

CreateProject(c, w, u) ==
    /\ ByAdmin(w, u)
    /\ Begin(c, Loaded("project", u, w, u, NoPayload, {}))
    /\ UNCHANGED <<accounts, members, grants, projects, tokens, boot, mixed>>

\* The creator owns the project, whatever their role is by now.
CommitProject(c, p) ==
    /\ calls[c].op = "project"
    /\ \/ p \in projects[calls[c].ws] /\ End(c) /\ UNCHANGED <<projects, grants>>
       \/ /\ p \notin projects[calls[c].ws] /\ Overtake(c)
          /\ projects' = [projects EXCEPT ![calls[c].ws] = @ \cup {p}]
          /\ grants' = [grants EXCEPT ![calls[c].ws][p][calls[c].by] = "admin"]
    /\ UNCHANGED <<accounts, members, tokens, boot>>

-----------------------------------------------------------------------------
(* Members *)

\* The payload of an upsert always has a role and never an activity.
UpsertMember(c, w, by, u, want) ==
    /\ calls[c].op = "idle" /\ ByAdmin(w, by)
    /\ want.role # "none" /\ want.active = "none"
    /\ (accounts[u].known /\ want.password) => accounts[by].platform
    /\ want.role = "admin" => (want.password \/ accounts[u].password)
    /\ members[w][u] # "none" =>
        ~LosesLastAdmin(w, u, want.role, accounts[u].active,
                        want.password \/ accounts[u].password)
    /\ Begin(c, Loaded("upsert", by, w, u, want,
                       IF members[w][u] \in {"none", want.role} THEN {}
                       ELSE SessionsOf(w, u)))
    /\ UNCHANGED <<accounts, members, grants, projects, tokens, boot, mixed>>

UpdateMember(c, w, by, u, want) ==
    LET role == IF want.role = "none" THEN members[w][u] ELSE want.role
        active == NextActive(want, accounts[u])
        password == want.password \/ accounts[u].password
    IN  /\ calls[c].op = "idle" /\ ByAdmin(w, by) /\ members[w][u] # "none"
        /\ (want.password \/ want.active # "none") => accounts[by].platform
        /\ ~LosesLastAdmin(w, u, role, active, password)
        /\ role = "admin" => (active /\ password)
        /\ Begin(c, Loaded("update", by, w, u, want,
                           IF want = NoPayload THEN {} ELSE SessionsOf(w, u)))
        /\ UNCHANGED <<accounts, members, grants, projects, tokens, boot, mixed>>

\* The unit of work inserts what the call did not find and updates what it changed
\* of its copies: a value the copy already had is not written.
NewRole(loaded, want, now) == IF want = "none" \/ loaded = want THEN now ELSE want

\* An INSERT of a row that another call has inserted since violates a constraint.
InsertFails(call) ==
    \/ ~call.row.known /\ accounts[call.user].known
    \/ call.role = "none" /\ members[call.ws][call.user] # "none"
    \/ /\ call.want.role # "none"
       /\ \E p \in call.projects :
            call.granted[p] = "none" /\ grants[call.ws][p][call.user] # "none"

NewAccount(call) ==
    LET row == accounts[call.user]
    IN  [known |-> TRUE,
         active |-> IF ~call.row.known THEN TRUE
                    ELSE IF NextActive(call.want, call.row) = call.row.active
                    THEN row.active ELSE ~call.row.active,
         password |-> row.password \/ call.want.password,
         platform |-> row.platform]

NewGrants(call) ==
    [p \in Projects |->
        IF p \in call.projects
        THEN [grants[call.ws][p] EXCEPT ![call.user] =
                NewRole(call.granted[p], call.want.role, @)]
        ELSE grants[call.ws][p]]

CommitMember(c) ==
    LET call == calls[c]
    IN  /\ call.op \in {"upsert", "update"}
        /\ \/ /\ InsertFails(call) /\ End(c)
              /\ UNCHANGED <<accounts, members, grants, tokens>>
           \/ /\ ~InsertFails(call) /\ Overtake(c)
              /\ accounts' = [accounts EXCEPT ![call.user] = NewAccount(call)]
              /\ members' = [members EXCEPT ![call.ws][call.user] =
                                NewRole(call.role, call.want.role, @)]
              /\ grants' = [grants EXCEPT ![call.ws] = NewGrants(call)]
              /\ tokens' = [t \in TokenNumbers |->
                                IF t \in call.sessions
                                THEN [tokens[t] EXCEPT !.status = "ended"] ELSE tokens[t]]
        /\ UNCHANGED <<projects, boot>>

-----------------------------------------------------------------------------
(* Bootstrap *)

BootRead(p) ==
    /\ boot[p].pc = "down"
    /\ boot' = [boot EXCEPT ![p] =
                [pc |-> "loaded", row |-> accounts[Root], role |-> members[Home][Root],
                 grant |-> grants[Home][First][Root], home |-> Exists(Home),
                 project |-> First \in projects[Home]]]
    /\ UNCHANGED <<accounts, members, grants, projects, tokens, calls, mixed>>

BootConflict(b) ==
    \/ ~b.row.known /\ accounts[Root].known
    \/ ~b.home /\ Exists(Home)
    \/ ~b.project /\ First \in projects[Home]
    \/ b.role = "none" /\ members[Home][Root] # "none"
    \/ b.grant = "none" /\ grants[Home][First][Root] # "none"

BootGrants(b) == [grants EXCEPT ![Home][First][Root] = NewRole(b.grant, "admin", @)]

\* A role that is neither owner nor admin is raised.  An IntegrityError, of a flush
\* or of the commit, rolls everything back and the process serves.
BootCommit(p) ==
    LET b == boot[p]
    IN  /\ b.pc = "loaded"
        /\ boot' = [boot EXCEPT ![p] = [BootDown EXCEPT !.pc = "up"]]
        /\ IF BootConflict(b)
           THEN UNCHANGED <<accounts, members, grants, projects>>
           ELSE /\ accounts' = [accounts EXCEPT ![Root] =
                        [known |-> TRUE, password |-> TRUE,
                         active |-> IF b.row.active THEN @.active ELSE TRUE,
                         platform |-> IF b.row.platform THEN @.platform ELSE TRUE]]
                /\ members' = [members EXCEPT ![Home][Root] = NewRole(b.role, "admin", @)]
                /\ projects' = [projects EXCEPT ![Home] = @ \cup {First}]
                /\ grants' = BootGrants(b)
        /\ UNCHANGED <<tokens, calls, mixed>>

\* A process stops with no call open.
Stop(p) ==
    /\ boot[p].pc = "up"
    /\ \A c \in Callers : calls[c].op = "idle"
    /\ boot' = [boot EXCEPT ![p] = BootDown]
    /\ UNCHANGED <<accounts, members, grants, projects, tokens, calls, mixed>>

-----------------------------------------------------------------------------
(* Specification *)

AccountNext ==
    \/ \E w \in Workspaces, u \in Users :
        \/ CreateWorkspace(w, u)
        \/ \E c \in Callers : \/ Login(c, w, u) \/ CreateApiToken(c, w, u)
                              \/ CreateProject(c, w, u)
                              \/ \E by \in Users, want \in Wants :
                                    \/ UpsertMember(c, w, by, u, want)
                                    \/ UpdateMember(c, w, by, u, want)
    \/ \E c \in Callers : \/ CommitToken(c) \/ CommitMember(c)
                          \/ \E p \in Projects : CommitProject(c, p)
    \/ \E t \in TokenNumbers : EndToken(t)
    \/ \E p \in Processes : BootRead(p) \/ BootCommit(p) \/ Stop(p)

AccountSpec == AccountInit /\ [][AccountNext]_accountVars

-----------------------------------------------------------------------------
(* Properties *)

\* A call on the members of a workspace does not take away the last of its
\* administrators that can log in, whatever it changes of them, unless another call has
\* committed since it counted them: the count of update_workspace_member and
\* create_workspace_member is read before they write, under no lock, and two calls that
\* overlap each count the other's target (LastAdminStays says what that leads to).  A
\* bootstrap may have changed the row in between: it may revive an account the call saw
\* disabled, and such a call is left out.
AdminKept ==
    [][\A c \in Callers, w \in Workspaces :
        (/\ calls[c].op \in {"update", "upsert"} /\ calls'[c].op = "idle"
         /\ ~calls[c].overtaken
         /\ calls[c].ws = w /\ calls[c].row = accounts[calls[c].user]
         /\ LoginAdmins(w) # {}) => (LoginAdmins(w))' # {}]_accountVars

\* As long as no call has committed on copies that another had overtaken, nobody keeps
\* the elevated role in a project of a workspace they are no longer an administrator of: a
\* change of role reaches every project.  A creator who is demoted while create_project is
\* under way still owns the project it commits.
GrantsFollow ==
    ~mixed => \A w \in Workspaces, p \in Projects, u \in Users :
                  grants[w][p][u] = "admin" => members[w][u] = "admin"

\* Once a process serves, the administrator, the workspace and the project of the
\* bootstrap are there, although calls overlap and a process that loses the race to insert
\* them rolls its own bootstrap back and serves all the same (on_startup).
Provisioned ==
    Serving =>
        /\ accounts[Root].known /\ accounts[Root].password /\ accounts[Root].platform
        /\ members[Home][Root] # "none"
        /\ First \in projects[Home] /\ grants[Home][First][Root] # "none"

\* Whatever the members of a workspace are changed to, by calls that overlap and replicas
\* that start, whoever serves is provisioned, and its roles, its projects and its
\* administration agree for as long as no call commits on copies another has overtaken.
\* (update_workspace_member, create_workspace_member, bootstrap_default_admin)
AccountsAreGoverned == [](AccountTypeOK /\ GrantsFollow /\ Provisioned) /\ AdminKept

\* What the specification of the feature says of the members, and calls that overlap do
\* not keep: the last administrator is not downgraded or deactivated.
\* (docs/frontend-rebuild/PR6-product-auth-admin-spec.md, assert_not_last_admin_transition)
LastAdminStays ==
    [][\A w \in Workspaces : LoginAdmins(w) # {} => (LoginAdmins(w))' # {}]_accountVars

=============================================================================
