------------------------------- MODULE Accounts -------------------------------
(***************************************************************************)
(* Users, tokens, API keys and project rights: the tables of the database  *)
(* behind auth_manager and rights_manager, the websockets and HTTP         *)
(* requests that act for a user, and the handlers through which they do.   *)
(*                                                                         *)
(* A handler is atomic, but each call of a manager in it is a transaction  *)
(* of its own that may fail, which ends the handler with an error; and the *)
(* program may end between two transactions.  A handler that is refused,   *)
(* or that fails before its first change, changes nothing and has no       *)
(* disjunct here.  sqlite, outside this program, keeps what is committed,  *)
(* numbers rows without reusing a number, and deletes with a user the rows *)
(* that refer to it.                                                       *)
(***************************************************************************)
EXTENDS Integers, SequencesExt

CONSTANTS
    Emails,       \* the addresses users log in with
    Passwords,
    Projects,     \* names of projects
    Levels,       \* the rights that are granted: sets of "read", "write", "execute"
    Websockets,
    Root,         \* the address of the account made on the first start
    RootPass,     \* and its password
    NoOne,        \* no address, no password, no project
    MaxUsers,     \* bound on the users ever added
    MaxTokens,    \* bound on the tokens ever issued
    MaxKeys       \* bound on the API keys ever issued

AllRights == {"read", "write", "execute"}

ASSUME AccountsAssumption ==
    /\ NoOne \notin Emails \cup Passwords \cup Projects
    /\ Root \in Emails /\ RootPass \in Passwords
    /\ Levels \subseteq SUBSET AllRights
    /\ MaxUsers \in Nat /\ MaxTokens \in Nat /\ MaxKeys \in Nat

VARIABLES
    server,       \* "down", "creating" (the database file is new), "up"
    file,         \* whether the database file exists
    users,        \* the row of each user id; its email is NoOne if there is none
    lastUser,     \* the last user id given
    tokens,       \* the row of each token ever issued; its user is 0 if it is gone
    lastToken,
    keys,         \* the API key of each user id, or 0
    lastKey,
    rights,       \* the rows of each user id and project, in the order of their ids
    projects,     \* the projects that have a row
    ctx,          \* request_context::client_info of each websocket, and its user:
                  \* the id of the row that logged in (history; the code has the
                  \* address only)
    request       \* the HTTP request whose body is being received

vars == <<server, file, users, lastUser, tokens, lastToken, keys, lastKey,
          rights, projects, ctx, request>>

database == <<users, lastUser, tokens, lastToken, keys, lastKey, rights, projects>>

Users == 1 .. MaxUsers

NoUser == [email |-> NoOne, pass |-> NoOne, admin |-> FALSE]

NoToken == [user |-> 0, expired |-> FALSE]

NoInfo == [email |-> NoOne, token |-> 0, user |-> 0]

NoRequest == [kind |-> "none", email |-> NoOne, key |-> 0, project |-> NoOne]

Up == server = "up"

-----------------------------------------------------------------------------
(* What the managers read. *)

Exists(u) == users[u].email # NoOne

(* The ids of the users with an address.  Every use of them in the code    *)
(* asks for exactly one.                                                   *)
Ids(e) == {u \in Users : users[u].email = e /\ e # NoOne}

(* rights_manager::is_admin *)
IsAdmin(e) == \E u \in Ids(e) : users[u].admin

(* auth_manager::check_pass *)
check_pass(e, p) == \E u \in Ids(e) : users[u].pass = p

(* rights_manager::check_project_right, no rights standing for nullopt. *)
check_project_right(e, p) ==
    IF Ids(e) = {} \/ p \notin projects THEN {}
    ELSE IF IsAdmin(e) THEN AllRights
    ELSE UNION {rights[u][p][1] : u \in {v \in Ids(e) : Len(rights[v][p]) = 1}}

(* rights_manager::get_permissions: a later row overwrites an earlier one. *)
get_permissions(e) ==
    IF Ids(e) = {} THEN << >>
    ELSE [p \in projects |->
             IF IsAdmin(e) THEN AllRights
             ELSE UNION {Last(rights[u][p]) : u \in {v \in Ids(e) : rights[v][p] # << >>}}]

(* rights_manager::get_permissions_by_project *)
get_permissions_by_project(p) ==
    IF p \notin projects THEN << >>
    ELSE [e \in {users[u].email : u \in {v \in Users : Exists(v)}} |->
             IF IsAdmin(e) THEN AllRights
             ELSE UNION {Last(rights[u][p]) : u \in {v \in Ids(e) : rights[v][p] # << >>}}]

(* auth_manager::get_api_key: 0 is no key. *)
KeyOf(e) == IF Ids(e) = {} THEN 0 ELSE keys[CHOOSE u \in Ids(e) : TRUE]

get_user_info(e) == [key |-> KeyOf(e), admin |-> IsAdmin(e)]

get_user_infos ==
    [e \in {users[u].email : u \in {v \in Users : Exists(v)}} |-> get_user_info(e)]

-----------------------------------------------------------------------------
(* What the managers change, in one transaction each. *)

(* variant: -1, as in a row that is about to be inserted *)
CleanedToMinusOne ==
    [t \in DOMAIN tokens |-> IF tokens[t].expired THEN [user |-> -1, expired |-> FALSE] ELSE tokens[t]]

(* auth_manager::cleanup *)
Cleaned == [t \in DOMAIN tokens |-> IF tokens[t].expired THEN NoToken ELSE tokens[t]]

(* auth_manager::authenticate(email, pass): random values are tried until  *)
(* one can be inserted.                                                    *)
IssueToken(e, p) ==
    /\ lastToken < MaxTokens
    /\ \E u \in Ids(e) :
          /\ users[u].pass = p
          /\ tokens' = [tokens EXCEPT ![lastToken + 1] = [user |-> u, expired |-> FALSE]]
    /\ lastToken' = lastToken + 1

(* auth_manager::authenticate(token): whose it is; an expired one is       *)
(* deleted.                                                                *)
TokenUser(t) == IF tokens[t].expired THEN 0 ELSE tokens[t].user

TokenEmail(t) == IF TokenUser(t) = 0 THEN NoOne ELSE users[TokenUser(t)].email

Checked(t) == IF tokens[t].expired THEN [tokens EXCEPT ![t] = NoToken] ELSE tokens

(* auth_manager::delete_token *)
WithoutToken(t) == [tokens EXCEPT ![t] = NoToken]

(* auth_manager::add_user *)
InsertUser(e, p, a) ==
    /\ Ids(e) = {}
    /\ lastUser < MaxUsers
    /\ users' = [users EXCEPT ![lastUser + 1] = [email |-> e, pass |-> p, admin |-> a]]
    /\ lastUser' = lastUser + 1

(* variant: the rows of rights do not refer to the user *)
RemoveAllButRights(e) ==
    \E u \in Ids(e) :
       /\ users' = [users EXCEPT ![u] = NoUser]
       /\ tokens' = [t \in DOMAIN tokens |-> IF tokens[t].user = u THEN NoToken ELSE tokens[t]]
       /\ keys' = [keys EXCEPT ![u] = 0]
       /\ UNCHANGED rights

(* auth_manager::delete_user: the rows that refer to the user go with it. *)
RemoveUser(e) ==
    \E u \in Ids(e) :
       /\ users' = [users EXCEPT ![u] = NoUser]
       /\ tokens' = [t \in DOMAIN tokens |-> IF tokens[t].user = u THEN NoToken ELSE tokens[t]]
       /\ keys' = [keys EXCEPT ![u] = 0]
       /\ rights' = [rights EXCEPT ![u] = [p \in Projects |-> << >>]]

(* rights_manager::set_admin_status *)
UpdateAdmin(e, a) == \E u \in Ids(e) : users' = [users EXCEPT ![u].admin = a]

(* auth_manager::change_pass *)
UpdatePass(e, new) == \E u \in Ids(e) : users' = [users EXCEPT ![u].pass = new]

(* auth_manager::generate_api_key: the column of the users is unique, a    *)
(* second key is refused.                                                  *)
InsertKey(e) ==
    /\ lastKey < MaxKeys
    /\ \E u \in Ids(e) :
          /\ keys[u] = 0
          /\ keys' = [keys EXCEPT ![u] = lastKey + 1]
    /\ lastKey' = lastKey + 1

(* auth_manager::remove_api_key *)
DeleteKey(e) ==
    \E u \in Ids(e) :
       /\ keys[u] # 0
       /\ keys' = [keys EXCEPT ![u] = 0]

(* variant: the row is always inserted *)
InsertRow(rows, r) == Append(rows, r)

(* rights_manager::set_user_project_permissions: the row, if there is      *)
(* exactly one, is replaced.  Nothing else keeps it the only one.          *)
SetRow(rows, r) == IF Len(rows) = 1 THEN <<r>> ELSE Append(rows, r)

-----------------------------------------------------------------------------
(* What the handlers answer that only read. *)

LoggedIn(w) == ctx[w].email # NoOne

(* variant: whoever has logged in *)
AnyPermitted(w) == LoggedIn(w)

Permitted(w) == IsAdmin(ctx[w].email)

PermittedFor(w, e) == LoggedIn(w) /\ (ctx[w].email = e \/ Permitted(w))

get_user_permissions(w, e) == IF Permitted(w) THEN get_permissions(e) ELSE << >>

(* For a project that has a directory. *)
get_project_permissions(w, p) == IF Permitted(w) THEN get_permissions_by_project(p) ELSE << >>

list_users(w) == IF Permitted(w) THEN get_user_infos ELSE << >>

get_api_key(w, e) == IF PermittedFor(w, e) THEN KeyOf(e) ELSE 0

-----------------------------------------------------------------------------
(* The program starts and ends. *)

(* The first start: the schema is synchronised, which makes the file. *)
CreateFile ==
    /\ server = "down" /\ ~file
    /\ server' = "creating"
    /\ file' = TRUE
    /\ UNCHANGED <<database, ctx, request>>

(* database_wrapper::init, and the managers. *)
InsertAdmin ==
    /\ server = "creating"
    /\ InsertUser(Root, RootPass, TRUE)
    /\ server' = "up"
    /\ UNCHANGED <<file, tokens, lastToken, keys, lastKey, rights, projects, ctx, request>>

(* A later start: auth_manager begins with a cleanup. *)
Start ==
    /\ server = "down" /\ file
    /\ server' = "up"
    /\ tokens' = Cleaned
    /\ UNCHANGED <<file, users, lastUser, lastToken, keys, lastKey, rights, projects, ctx, request>>

(* The program is stopped, or ended by an exception, as of cleanup: the    *)
(* connections are gone.                                                   *)
Stop ==
    /\ server # "down"
    /\ server' = "down"
    /\ ctx' = [w \in Websockets |-> NoInfo]
    /\ request' = NoRequest
    /\ UNCHANGED <<file, database>>

(* auth_manager's timer, every 12 hours. *)
Cleanup ==
    /\ Up
    /\ tokens' = Cleaned
    /\ UNCHANGED <<server, file, users, lastUser, lastToken, keys, lastKey, rights, projects,
                   ctx, request>>

(* A week passes. *)
Expires(t) ==
    /\ tokens[t].user # 0
    /\ tokens' = [tokens EXCEPT ![t].expired = TRUE]
    /\ UNCHANGED <<server, file, users, lastUser, lastToken, keys, lastKey, rights, projects,
                   ctx, request>>

-----------------------------------------------------------------------------
(* Logging in and out. *)

(* The handler notes the user before it asks whether it is an admin: if    *)
(* that fails, an error is answered to a websocket that is logged in.      *)
login_pass(w, e, p) ==
    /\ Up
    /\ IssueToken(e, p)
    /\ ctx' = [ctx EXCEPT ![w] = [email |-> e, token |-> lastToken + 1,
                                  user |-> tokens'[lastToken + 1].user]]
    /\ UNCHANGED <<server, file, users, lastUser, keys, lastKey, rights, projects, request>>

(* variant: the token of an earlier login is kept *)
LoginKeepsToken(w, t) ==
    /\ Up
    /\ tokens[t].user # 0
    /\ tokens' = Checked(t)
    /\ ctx' = [ctx EXCEPT ![w].email = TokenEmail(t), ![w].user = TokenUser(t)]
    /\ UNCHANGED <<server, file, users, lastUser, lastToken, keys, lastKey, rights, projects,
                   request>>

login_token(w, t) ==
    /\ Up
    /\ tokens[t].user # 0
    /\ tokens' = Checked(t)
    /\ ctx' = IF TokenEmail(t) = NoOne THEN ctx
              ELSE [ctx EXCEPT ![w] = [email |-> TokenEmail(t), token |-> t, user |-> TokenUser(t)]]
    /\ UNCHANGED <<server, file, users, lastUser, lastToken, keys, lastKey, rights, projects,
                   request>>

(* A websocket is opened with a token in its cookie: the user is taken     *)
(* over from the HTTP request, the token is not.                           *)
OpenWebsocket(w, t) ==
    /\ Up
    /\ ~LoggedIn(w)
    /\ tokens[t].user # 0
    /\ tokens' = Checked(t)
    /\ ctx' = [ctx EXCEPT ![w] = [email |-> TokenEmail(t), token |-> 0, user |-> TokenUser(t)]]
    /\ UNCHANGED <<server, file, users, lastUser, lastToken, keys, lastKey, rights, projects,
                   request>>

CloseWebsocket(w) ==
    /\ LoggedIn(w)
    /\ ctx' = [ctx EXCEPT ![w] = NoInfo]
    /\ UNCHANGED <<server, file, database, request>>

(* The token must be one of the user's own, but need not be the one the    *)
(* websocket logged in with: only then does it forget its user.  That the  *)
(* token is deleted may fail.                                              *)
logout(w, t) ==
    /\ Up
    /\ LoggedIn(w)
    /\ tokens[t].user # 0
    /\ IF TokenEmail(t) = ctx[w].email
       THEN /\ ctx' = IF ctx[w].token = t THEN [ctx EXCEPT ![w] = NoInfo] ELSE ctx
            /\ tokens' \in {tokens, WithoutToken(t)}
       ELSE /\ tokens' = Checked(t)
            /\ UNCHANGED ctx
    /\ UNCHANGED <<server, file, users, lastUser, lastToken, keys, lastKey, rights, projects,
                   request>>

-----------------------------------------------------------------------------
(* Managing users. *)

add_user(w, e, p, a) ==
    /\ Up
    /\ Permitted(w)
    /\ InsertUser(e, p, a)
    /\ UNCHANGED <<server, file, tokens, lastToken, keys, lastKey, rights, projects, ctx, request>>

(* Websockets keep the user that is deleted. *)
delete_user(w, e) ==
    /\ Up
    /\ Permitted(w)
    /\ RemoveUser(e)
    /\ UNCHANGED <<server, file, lastUser, lastToken, lastKey, projects, ctx, request>>

set_admin_status(w, e, a) ==
    /\ Up
    /\ Permitted(w)
    /\ UpdateAdmin(e, a)
    /\ UNCHANGED <<server, file, lastUser, tokens, lastToken, keys, lastKey, rights, projects,
                   ctx, request>>

(* An admin changes any password, everybody else their own if they know it. *)
change_pass(w, e, old, new) ==
    /\ Up
    /\ LoggedIn(w)
    /\ Permitted(w) \/ (ctx[w].email = e /\ check_pass(e, old))
    /\ UpdatePass(e, new)
    /\ UNCHANGED <<server, file, lastUser, tokens, lastToken, keys, lastKey, rights, projects,
                   ctx, request>>

generate_api_key(w, e) ==
    /\ Up
    /\ PermittedFor(w, e)
    /\ InsertKey(e)
    /\ UNCHANGED <<server, file, users, lastUser, tokens, lastToken, rights, projects, ctx, request>>

remove_api_key(w, e) ==
    /\ Up
    /\ PermittedFor(w, e)
    /\ DeleteKey(e)
    /\ UNCHANGED <<server, file, users, lastUser, tokens, lastToken, lastKey, rights, projects,
                   ctx, request>>

(* One transaction for each project of the request (a project that is      *)
(* listed twice gets the later rights): the handler may end, by an error   *)
(* or with the program, when only some of them are done.  Users and        *)
(* projects that do not exist are passed over.                             *)
set_user_permissions(w, e, permissions) ==
    /\ Up
    /\ Permitted(w)
    /\ \E u \in Ids(e), done \in SUBSET (DOMAIN permissions \cap projects) :
          rights' = [rights EXCEPT ![u] =
                        [p \in Projects |-> IF p \in done THEN SetRow(rights[u][p], permissions[p])
                                            ELSE rights[u][p]]]
    /\ UNCHANGED <<server, file, users, lastUser, tokens, lastToken, keys, lastKey, projects,
                   ctx, request>>

(* cis_manager::create_project and refresh insert the row of a project;    *)
(* remove_project only marks it.                                           *)
ProjectRow(p) ==
    /\ Up
    /\ projects' = projects \cup {p}
    /\ UNCHANGED <<server, file, users, lastUser, tokens, lastToken, keys, lastKey, rights,
                   ctx, request>>

-----------------------------------------------------------------------------
(* HTTP requests.  The user is known from a cookie, or for a webhook from  *)
(* the address; rights are checked when the header has been read, and what *)
(* is captured then is used when the body has been.  A download is served  *)
(* at once, and leaves but the check of its token.                         *)

Download(t) ==
    /\ Up
    /\ tokens[t].expired
    /\ tokens' = Checked(t)
    /\ UNCHANGED <<server, file, users, lastUser, lastToken, keys, lastKey, rights, projects,
                   ctx, request>>

(* upload and replace *)
Upload(t, p) ==
    /\ Up
    /\ request = NoRequest
    /\ TokenEmail(t) # NoOne
    /\ "write" \in check_project_right(TokenEmail(t), p)
    /\ request' = [kind |-> "upload", email |-> TokenEmail(t), key |-> 0, project |-> p]
    /\ UNCHANGED <<server, file, database, ctx>>

(* What every webhook asks: an existing user with a key and the right to   *)
(* write.  The key is captured with the context.                           *)
MayCall(e, p) == get_user_info(e).key # 0 /\ "write" \in check_project_right(e, p)

Captured(e, p) == [kind |-> "webhook", email |-> e, key |-> get_user_info(e).key, project |-> p]

(* GitHub signs the body, which comes later; GitLab and the plain hooks    *)
(* send the key in the header.                                             *)
WebhookHeader(e, p) ==
    /\ Up
    /\ request = NoRequest
    /\ MayCall(e, p)
    /\ request' = Captured(e, p)
    /\ UNCHANGED <<server, file, database, ctx>>

(* The body is there, and is stored or starts a job (module JobRun), or    *)
(* the connection is closed.                                               *)
Body ==
    /\ request # NoRequest
    /\ request' = NoRequest
    /\ UNCHANGED <<server, file, database, ctx>>

-----------------------------------------------------------------------------
Init ==
    /\ server = "down"
    /\ file = FALSE
    /\ users = [u \in Users |-> NoUser]
    /\ lastUser = 0
    /\ tokens = [t \in 1 .. MaxTokens |-> NoToken]
    /\ lastToken = 0
    /\ keys = [u \in Users |-> 0]
    /\ lastKey = 0
    /\ rights = [u \in Users |-> [p \in Projects |-> << >>]]
    /\ projects = {}
    /\ ctx = [w \in Websockets |-> NoInfo]
    /\ request = NoRequest

(* The permissions of one request. *)
Requests == UNION {[P -> Levels] : P \in SUBSET Projects}

Session(w) ==
    \/ \E e \in Emails, p \in Passwords : login_pass(w, e, p)
    \/ \E t \in 1 .. lastToken : login_token(w, t)
    \/ \E t \in 1 .. lastToken : OpenWebsocket(w, t)
    \/ \E t \in 1 .. lastToken : logout(w, t)
    \/ CloseWebsocket(w)

Manage(w) ==
    \/ \E e \in Emails, p \in Passwords, a \in BOOLEAN : add_user(w, e, p, a)
    \/ \E e \in Emails : delete_user(w, e)
    \/ \E e \in Emails, a \in BOOLEAN : set_admin_status(w, e, a)
    \/ \E e \in Emails, old, new \in Passwords : change_pass(w, e, old, new)
    \/ \E e \in Emails : generate_api_key(w, e)
    \/ \E e \in Emails : remove_api_key(w, e)
    \/ \E e \in Emails, r \in Requests : set_user_permissions(w, e, r)

Next ==
    \/ CreateFile \/ InsertAdmin \/ Start \/ Stop \/ Cleanup
    \/ (\E t \in 1 .. lastToken : Expires(t))
    \/ (\E w \in Websockets : Session(w) \/ Manage(w))
    \/ (\E p \in Projects : ProjectRow(p))
    \/ (\E t \in 1 .. lastToken : Download(t))
    \/ (\E t \in 1 .. lastToken, p \in Projects : Upload(t, p))
    \/ (\E e \in Emails, p \in Projects : WebhookHeader(e, p))
    \/ Body

Spec == Init /\ [][Next]_vars

-----------------------------------------------------------------------------
(* Properties *)

(* The type of every variable. *)
TypeOK ==
    /\ server \in {"down", "creating", "up"}
    /\ file \in BOOLEAN
    /\ users \in [Users -> [email : Emails \cup {NoOne}, pass : Passwords \cup {NoOne},
                           admin : BOOLEAN]]
    /\ lastUser \in 0 .. MaxUsers
    /\ tokens \in [1 .. MaxTokens -> [user : {0} \cup Users, expired : BOOLEAN]]
    /\ lastToken \in 0 .. MaxTokens
    /\ keys \in [Users -> 0 .. MaxKeys]
    /\ lastKey \in 0 .. MaxKeys
    /\ rights \in [Users -> [Projects -> Seq(Levels)]]
    /\ projects \subseteq Projects
    /\ ctx \in [Websockets -> [email : Emails \cup {NoOne}, token : 0 .. MaxTokens,
                            user : {0} \cup Users]]
    /\ request \in [kind : {"none", "upload", "webhook"}, email : Emails \cup {NoOne},
                    key : 0 .. MaxKeys, project : Projects \cup {NoOne}]

(* The rights an admin is shown, of a user or of a project, are those that *)
(* every handler enforces, although three queries work them out: one takes *)
(* the last row of a user and a project, another wants exactly one.  And   *)
(* the key the list of users shows is the one its user is shown.           *)
ShownIsEnforced ==
    /\ \A w \in Websockets, e \in Emails :
          LET shown == get_user_permissions(w, e)
          IN  \A p \in DOMAIN shown : shown[p] = check_project_right(e, p)
    /\ \A w \in Websockets, p \in Projects :
          LET shown == get_project_permissions(w, p)
          IN  \A e \in DOMAIN shown : shown[e] = check_project_right(e, p)
    /\ \A w, v \in Websockets :
          LET shown == list_users(w)
          IN  \A e \in DOMAIN shown : LoggedIn(v) /\ ctx[v].email = e => get_api_key(v, e) = shown[e].key

(* Every token, key and right is of a user that exists: authenticate takes *)
(* the first of the users a token refers to without asking whether there   *)
(* is one, and a new account inherits nothing from a deleted one with its  *)
(* address.                                                                *)
NoOrphans ==
    \A u \in Users : ~Exists(u) =>
        /\ \A t \in 1 .. MaxTokens : tokens[t].user # u
        /\ keys[u] = 0
        /\ \A p \in Projects : rights[u][p] = << >>

(* The accounts that websocket w may act for.  None unless it logged in;   *)
(* that of its login while it exists; and when it was deleted, the one     *)
(* that was added since with its address, if there is one: all that the    *)
(* websocket remembers is the address.                                     *)
ActsFor(w) ==
    LET id == ctx[w].user
    IN  IF id = 0 THEN {}
        ELSE IF Exists(id) THEN {id}
        ELSE {u \in Users : u > id /\ users[u].email = ctx[w].email}

(* The step changes the account of user u, its key or its rights. *)
Changes(u) == users'[u] # users[u] \/ keys'[u] # keys[u] \/ rights'[u] # rights[u]

(* Websocket w may do so: for an admin, or for u itself if no more than a  *)
(* password or a key is changed.                                           *)
ByRight(w, u) ==
    \/ \E a \in ActsFor(w) : users[a].admin
    \/ /\ u \in ActsFor(w)
       /\ users'[u] = [users[u] EXCEPT !.pass = users'[u].pass]
       /\ rights'[u] = rights[u]

(* Accounts and rights only change through a websocket that acts for an    *)
(* account which is an admin at that moment, whatever it was at the login; *)
(* a password and a key also through one that acts for their owner.  So a  *)
(* websocket that outlived its account changes nothing, unless the address *)
(* was given to a new account: then it may do what this one may.           *)
OnlyByRight ==
    [][\A u \in Users :
          Changes(u) => \/ server = "creating"
                        \/ /\ \E w \in Websockets : Manage(w)
                           /\ \A w \in Websockets : ByRight(w, u) \/ ~Manage(w)]_vars

(* Who is logged in was somebody with that token or key: a token or key    *)
(* that a connection remembers, if it still exists, is of the user that    *)
(* the connection acts for, however many users came and went since.        *)
ContextsAreTrue ==
    /\ \A w \in Websockets :
          LET t == ctx[w].token
          IN  t # 0 /\ tokens[t].user # 0 => users[tokens[t].user].email = ctx[w].email
    /\ \A u \in Users : request.key # 0 /\ keys[u] = request.key => users[u].email = request.email
==============================================================================
