----------------------------- MODULE AccountsProofs -----------------------------
(***************************************************************************)
(* Theorems about Accounts, for any addresses, passwords, projects and     *)
(* websockets and any number of users, tokens and keys.                    *)
(***************************************************************************)
EXTENDS Accounts, TLAPS

UserType == [email : Emails \cup {NoOne}, pass : Passwords \cup {NoOne}, admin : BOOLEAN]
TokenType == [user : {0} \cup Users, expired : BOOLEAN]
InfoType == [email : Emails \cup {NoOne}, token : 0 .. MaxTokens, user : {0} \cup Users]
RequestType == [kind : {"none", "upload", "webhook"}, email : Emails \cup {NoOne},
                key : 0 .. MaxKeys, project : Projects \cup {NoOne}]

-----------------------------------------------------------------------------
(* Types, transaction by transaction *)

(* The rows that stand for nothing. *)
LEMMA EmptyRows ==
    /\ NoUser \in UserType /\ NoToken \in TokenType
    /\ NoInfo \in InfoType /\ NoRequest \in RequestType
<1>1. NoUser \in UserType
    BY Zenon DEF NoUser, UserType
<1>2. NoToken \in TokenType
    BY Zenon DEF NoToken, TokenType
<1>3. 0 \in 0 .. MaxTokens /\ 0 \in 0 .. MaxKeys
    BY AccountsAssumption
<1>4. NoInfo \in InfoType
    BY <1>3 DEF NoInfo, InfoType
<1>5. NoRequest \in RequestType
    BY <1>3 DEF NoRequest, RequestType
<1> QED
    BY <1>1, <1>2, <1>4, <1>5

(* Deleting tokens, all the expired, one, or one that is expired.          *)
LEMMA TokenTypes ==
    ASSUME TypeOK, NEW t \in 1 .. MaxTokens
    PROVE  /\ Cleaned \in [1 .. MaxTokens -> TokenType]
           /\ WithoutToken(t) \in [1 .. MaxTokens -> TokenType]
           /\ Checked(t) \in [1 .. MaxTokens -> TokenType]
<1>1. tokens \in [1 .. MaxTokens -> TokenType]
    BY DEF TypeOK, TokenType
<1> QED
    BY <1>1, EmptyRows DEF Cleaned, WithoutToken, Checked

(* An address is that of a user or of nobody. *)
LEMMA TokenEmailType ==
    ASSUME TypeOK, NEW t \in 1 .. MaxTokens
    PROVE  TokenEmail(t) \in Emails \cup {NoOne}
BY DEF TypeOK, TokenEmail, TokenUser

(* add_user *)
LEMMA InsertUserTypes ==
    ASSUME TypeOK, NEW e \in Emails, NEW p \in Passwords, NEW a \in BOOLEAN,
           InsertUser(e, p, a)
    PROVE  users' \in [Users -> UserType] /\ lastUser' \in 0 .. MaxUsers
<1>1. [email |-> e, pass |-> p, admin |-> a] \in UserType
    BY Zenon DEF UserType
<1> QED
    BY <1>1, AccountsAssumption DEF InsertUser, TypeOK, UserType, Users

(* set_admin_status and change_pass *)
LEMMA UpdateUserTypes ==
    ASSUME TypeOK, NEW e \in Emails, NEW p \in Passwords, NEW a \in BOOLEAN,
           UpdateAdmin(e, a) \/ UpdatePass(e, p)
    PROVE  users' \in [Users -> UserType]
<1>1. users \in [Users -> UserType]
    BY DEF TypeOK, UserType
<1>2. ASSUME NEW u \in Users
      PROVE  /\ [users[u] EXCEPT !.admin = a] \in UserType
             /\ [users[u] EXCEPT !.pass = p] \in UserType
    <2>1. users[u] \in UserType
        BY <1>1
    <2>2. [users[u] EXCEPT !.admin = a] \in UserType
        BY <2>1, Zenon DEF UserType
    <2>3. [users[u] EXCEPT !.pass = p] \in UserType
        BY <2>1 DEF UserType
    <2> QED
        BY <2>2, <2>3
<1>3. Ids(e) \subseteq Users
    BY DEF Ids
<1>4. CASE UpdateAdmin(e, a)
    <2>1. PICK u \in Ids(e) : users' = [users EXCEPT ![u] = [users[u] EXCEPT !.admin = a]]
        BY <1>4 DEF UpdateAdmin
    <2> QED
        BY <1>1, <1>2, <1>3, <2>1
<1>5. CASE UpdatePass(e, p)
    <2>1. PICK u \in Ids(e) : users' = [users EXCEPT ![u] = [users[u] EXCEPT !.pass = p]]
        BY <1>5 DEF UpdatePass
    <2> QED
        BY <1>1, <1>2, <1>3, <2>1
<1> QED
    BY <1>4, <1>5

(* delete_user *)
LEMMA RemoveUserTypes ==
    ASSUME TypeOK, NEW e \in Emails, RemoveUser(e)
    PROVE  /\ users' \in [Users -> UserType]
           /\ tokens' \in [1 .. MaxTokens -> TokenType]
           /\ keys' \in [Users -> 0 .. MaxKeys]
           /\ rights' \in [Users -> [Projects -> Seq(Levels)]]
<1>1. /\ users \in [Users -> UserType]
      /\ tokens \in [1 .. MaxTokens -> TokenType]
    BY DEF TypeOK, UserType, TokenType
<1>2. [p \in Projects |-> << >>] \in [Projects -> Seq(Levels)]
    OBVIOUS
<1>3. PICK u \in Users :
          /\ users' = [users EXCEPT ![u] = NoUser]
          /\ tokens' = [t \in DOMAIN tokens |-> IF tokens[t].user = u THEN NoToken ELSE tokens[t]]
          /\ keys' = [keys EXCEPT ![u] = 0]
          /\ rights' = [rights EXCEPT ![u] = [p \in Projects |-> << >>]]
    BY DEF RemoveUser, Ids
<1>4. users' \in [Users -> UserType] /\ tokens' \in [1 .. MaxTokens -> TokenType]
    BY <1>1, <1>3, EmptyRows
<1>5. keys' \in [Users -> 0 .. MaxKeys]
    BY <1>3, AccountsAssumption DEF TypeOK
<1>6. rights' \in [Users -> [Projects -> Seq(Levels)]]
    BY <1>2, <1>3 DEF TypeOK
<1> QED
    BY <1>4, <1>5, <1>6

(* A token is issued. *)
LEMMA IssueTokenTypes ==
    ASSUME TypeOK, NEW e \in Emails, NEW p \in Passwords, IssueToken(e, p)
    PROVE  tokens' \in [1 .. MaxTokens -> TokenType] /\ lastToken' \in 0 .. MaxTokens
<1>1. PICK u \in Users :
          tokens' = [tokens EXCEPT ![lastToken + 1] = [user |-> u, expired |-> FALSE]]
    BY DEF IssueToken, Ids
<1>2. [user |-> u, expired |-> FALSE] \in TokenType
    BY Zenon DEF TokenType
<1>3. tokens \in [1 .. MaxTokens -> TokenType]
    BY DEF TypeOK, TokenType
<1> QED
    BY <1>1, <1>2, <1>3, AccountsAssumption DEF IssueToken, TypeOK

(* A key is issued, or deleted. *)
LEMMA KeyTypes ==
    ASSUME TypeOK, NEW e \in Emails
    PROVE  /\ InsertKey(e) => keys' \in [Users -> 0 .. MaxKeys] /\ lastKey' \in 0 .. MaxKeys
           /\ DeleteKey(e) => keys' \in [Users -> 0 .. MaxKeys]
           /\ KeyOf(e) \in 0 .. MaxKeys
<1>1. lastKey < MaxKeys => lastKey + 1 \in 0 .. MaxKeys
    BY AccountsAssumption DEF TypeOK
<1>2. 0 \in 0 .. MaxKeys
    BY AccountsAssumption
<1>3. Ids(e) # {} => (CHOOSE u \in Ids(e) : TRUE) \in Users
    BY DEF Ids
<1> QED
    BY <1>1, <1>2, <1>3, ZenonT(60) DEF InsertKey, DeleteKey, KeyOf, TypeOK

(* Rights are set. *)
LEMMA SetRowTypes ==
    ASSUME NEW rows \in Seq(Levels), NEW r \in Levels
    PROVE  SetRow(rows, r) \in Seq(Levels)
BY DEF SetRow

(* Init establishes the types. *)
LEMMA InitTypes == Init => TypeOK
<1> SUFFICES ASSUME Init PROVE TypeOK
    OBVIOUS
<1>1. 0 \in 0 .. MaxUsers /\ 0 \in 0 .. MaxTokens /\ 0 \in 0 .. MaxKeys
    BY AccountsAssumption
<1>2. file \in BOOLEAN
    BY Zenon DEF Init
<1>3. /\ users \in [Users -> UserType]
      /\ tokens \in [1 .. MaxTokens -> TokenType]
      /\ ctx \in [Websockets -> InfoType]
      /\ request \in RequestType
    BY EmptyRows DEF Init
<1>4. rights \in [Users -> [Projects -> Seq(Levels)]]
    BY DEF Init
<1>5. /\ server \in {"down", "creating", "up"} /\ projects \subseteq Projects
      /\ lastUser \in 0 .. MaxUsers /\ lastToken \in 0 .. MaxTokens /\ lastKey \in 0 .. MaxKeys
      /\ keys \in [Users -> 0 .. MaxKeys]
    BY <1>1 DEF Init
<1> QED
    BY <1>2, <1>3, <1>4, <1>5 DEF TypeOK, UserType, TokenType, InfoType, RequestType

(* Connections note whom they act for. *)
LEMMA ContextTypes ==
    ASSUME TypeOK, NEW w \in Websockets, NEW e \in Emails \cup {NoOne}, NEW t \in 0 .. MaxTokens,
           NEW u \in {0} \cup Users
    PROVE  /\ [ctx EXCEPT ![w] = [email |-> e, token |-> t, user |-> u]] \in [Websockets -> InfoType]
           /\ [ctx EXCEPT ![w] = NoInfo] \in [Websockets -> InfoType]
<1>1. ctx \in [Websockets -> InfoType]
    BY DEF TypeOK, InfoType
<1>2. [email |-> e, token |-> t, user |-> u] \in InfoType
    BY DEF InfoType
<1> QED
    BY <1>1, <1>2, EmptyRows

(* Every step preserves the types. *)
LEMMA NextTypes == TypeOK /\ [Next]_vars => TypeOK'
<1> SUFFICES ASSUME TypeOK, [Next]_vars PROVE TypeOK'
    OBVIOUS
<1>0. /\ server \in {"down", "creating", "up"} /\ file \in BOOLEAN
      /\ users \in [Users -> UserType] /\ lastUser \in 0 .. MaxUsers
      /\ tokens \in [1 .. MaxTokens -> TokenType] /\ lastToken \in 0 .. MaxTokens
      /\ keys \in [Users -> 0 .. MaxKeys] /\ lastKey \in 0 .. MaxKeys
      /\ rights \in [Users -> [Projects -> Seq(Levels)]] /\ projects \subseteq Projects
      /\ ctx \in [Websockets -> InfoType] /\ request \in RequestType
    BY Zenon DEF TypeOK, UserType, TokenType, InfoType, RequestType
<1> DEFINE T == /\ server' \in {"down", "creating", "up"} /\ file' \in BOOLEAN
                /\ users' \in [Users -> UserType] /\ lastUser' \in 0 .. MaxUsers
                /\ tokens' \in [1 .. MaxTokens -> TokenType] /\ lastToken' \in 0 .. MaxTokens
                /\ keys' \in [Users -> 0 .. MaxKeys] /\ lastKey' \in 0 .. MaxKeys
                /\ rights' \in [Users -> [Projects -> Seq(Levels)]] /\ projects' \subseteq Projects
                /\ ctx' \in [Websockets -> InfoType] /\ request' \in RequestType
<1>T. T => TypeOK'
    BY Zenon DEF TypeOK, UserType, TokenType, InfoType, RequestType
<1>t. 1 .. lastToken \subseteq 1 .. MaxTokens
    BY <1>0, AccountsAssumption
<1>1. CASE CreateFile
    <2>1. file' \in BOOLEAN
        BY <1>1, Zenon DEF CreateFile
    <2> QED
        BY <1>0, <1>1, <2>1, <1>T, Zenon DEF CreateFile, database
<1>2. CASE InsertAdmin
    <2>1. TRUE \in BOOLEAN
        BY Zenon
    <2>2. InsertUser(Root, RootPass, TRUE)
        BY <1>2 DEF InsertAdmin
    <2>3. users' \in [Users -> UserType] /\ lastUser' \in 0 .. MaxUsers
        BY <2>1, <2>2, AccountsAssumption, InsertUserTypes
    <2> QED
        BY <1>0, <1>2, <2>3, <1>T, Zenon DEF InsertAdmin
<1>3. CASE Start \/ Cleanup
    <2>1. tokens' \in [1 .. MaxTokens -> TokenType]
        BY <1>0, <1>3, EmptyRows DEF Start, Cleanup, Cleaned
    <2> QED
        BY <1>0, <1>3, <2>1, <1>T, Zenon DEF Start, Cleanup, Up
<1>4. CASE Stop
    <2>1. ctx' \in [Websockets -> InfoType] /\ request' \in RequestType
        BY <1>4, EmptyRows DEF Stop
    <2> QED
        BY <1>0, <1>4, <2>1, <1>T, Zenon DEF Stop, database
<1>5. ASSUME NEW t \in 1 .. MaxTokens, Expires(t)
      PROVE  TypeOK'
    <2>1. [tokens[t] EXCEPT !.expired = TRUE] \in TokenType
        <3>1. tokens[t] \in TokenType
            BY <1>0
        <3> QED
            BY <3>1, Zenon DEF TokenType
    <2>2. tokens' = [tokens EXCEPT ![t] = [tokens[t] EXCEPT !.expired = TRUE]]
        BY <1>5 DEF Expires
    <2>3. tokens' \in [1 .. MaxTokens -> TokenType]
        BY <1>0, <2>1, <2>2
    <2> QED
        BY <1>0, <1>5, <2>3, <1>T, Zenon DEF Expires
<1>6. ASSUME NEW w \in Websockets, NEW e \in Emails, NEW p \in Passwords, login_pass(w, e, p)
      PROVE  TypeOK'
    <2>1. tokens' \in [1 .. MaxTokens -> TokenType] /\ lastToken' \in 0 .. MaxTokens
        BY <1>6, IssueTokenTypes DEF login_pass
    <2>2. lastToken + 1 \in 0 .. MaxTokens
        BY <1>0, <1>6, AccountsAssumption DEF login_pass, IssueToken
    <2>3. tokens'[lastToken + 1].user \in {0} \cup Users
        <3>1. lastToken + 1 \in 1 .. MaxTokens
            BY <1>0, <1>6, AccountsAssumption DEF login_pass, IssueToken
        <3> QED
            BY <2>1, <3>1 DEF TokenType
    <2>4. ctx' \in [Websockets -> InfoType]
        BY <1>6, <2>2, <2>3, ContextTypes DEF login_pass
    <2> QED
        BY <1>0, <1>6, <2>1, <2>4, <1>T, Zenon DEF login_pass
<1>7. ASSUME NEW w \in Websockets, NEW t \in 1 .. MaxTokens,
             login_token(w, t) \/ OpenWebsocket(w, t)
      PROVE  TypeOK'
    <2>1. tokens' \in [1 .. MaxTokens -> TokenType]
        BY <1>7, TokenTypes DEF login_token, OpenWebsocket
    <2>2. 0 \in 0 .. MaxTokens /\ t \in 0 .. MaxTokens
        BY AccountsAssumption
    <2>3. ctx' \in [Websockets -> InfoType]
        <3>1. TokenEmail(t) \in Emails \cup {NoOne} /\ TokenUser(t) \in {0} \cup Users
            BY TokenEmailType DEF TokenUser, TypeOK
        <3>2. CASE login_token(w, t)
            BY <1>0, <2>2, <3>1, <3>2, ContextTypes DEF login_token
        <3>3. CASE OpenWebsocket(w, t)
            BY <2>2, <3>1, <3>3, ContextTypes DEF OpenWebsocket
        <3> QED
            BY <1>7, <3>2, <3>3
    <2> QED
        BY <1>0, <1>7, <2>1, <2>3, <1>T, Zenon DEF login_token, OpenWebsocket
<1>8. ASSUME NEW w \in Websockets, CloseWebsocket(w)
      PROVE  TypeOK'
    <2>1. ctx' \in [Websockets -> InfoType]
        BY <1>0, <1>8, EmptyRows DEF CloseWebsocket
    <2> QED
        BY <1>0, <1>8, <2>1, <1>T, Zenon DEF CloseWebsocket, database
<1>9. ASSUME NEW w \in Websockets, NEW t \in 1 .. MaxTokens, logout(w, t)
      PROVE  TypeOK'
    <2>1. tokens' \in [1 .. MaxTokens -> TokenType]
        BY <1>0, <1>9, TokenTypes DEF logout
    <2>2. ctx' \in [Websockets -> InfoType]
        BY <1>0, <1>9, EmptyRows DEF logout
    <2> QED
        BY <1>0, <1>9, <2>1, <2>2, <1>T, Zenon DEF logout
<1>10. ASSUME NEW w \in Websockets, NEW e \in Emails, NEW p \in Passwords, NEW a \in BOOLEAN,
              add_user(w, e, p, a)
       PROVE  TypeOK'
    <2>1. users' \in [Users -> UserType] /\ lastUser' \in 0 .. MaxUsers
        BY <1>10, InsertUserTypes DEF add_user
    <2> QED
        BY <1>0, <1>10, <2>1, <1>T, Zenon DEF add_user
<1>11. ASSUME NEW w \in Websockets, NEW e \in Emails, delete_user(w, e)
       PROVE  TypeOK'
    <2>1. /\ users' \in [Users -> UserType]
          /\ tokens' \in [1 .. MaxTokens -> TokenType]
          /\ keys' \in [Users -> 0 .. MaxKeys]
          /\ rights' \in [Users -> [Projects -> Seq(Levels)]]
        BY <1>11, RemoveUserTypes DEF delete_user
    <2> QED
        BY <1>0, <1>11, <2>1, <1>T, Zenon DEF delete_user
<1>12. ASSUME NEW w \in Websockets, NEW e \in Emails, NEW a \in BOOLEAN,
              NEW old \in Passwords, NEW new \in Passwords,
              set_admin_status(w, e, a) \/ change_pass(w, e, old, new)
       PROVE  TypeOK'
    <2>1. users' \in [Users -> UserType]
        BY <1>12, UpdateUserTypes DEF set_admin_status, change_pass
    <2> QED
        BY <1>0, <1>12, <2>1, <1>T, Zenon DEF set_admin_status, change_pass
<1>13. ASSUME NEW w \in Websockets, NEW e \in Emails,
              generate_api_key(w, e) \/ remove_api_key(w, e)
       PROVE  TypeOK'
    <2>1. keys' \in [Users -> 0 .. MaxKeys] /\ lastKey' \in 0 .. MaxKeys
        BY <1>0, <1>13, KeyTypes DEF generate_api_key, remove_api_key
    <2> QED
        BY <1>0, <1>13, <2>1, <1>T, Zenon DEF generate_api_key, remove_api_key
<1>14. ASSUME NEW w \in Websockets, NEW e \in Emails, NEW r \in Requests,
              set_user_permissions(w, e, r)
       PROVE  TypeOK'
    <2>1. PICK u \in Users, done \in SUBSET (DOMAIN r \cap projects) :
              rights' = [rights EXCEPT ![u] =
                            [p \in Projects |-> IF p \in done THEN SetRow(rights[u][p], r[p])
                                                ELSE rights[u][p]]]
        BY <1>14 DEF set_user_permissions, Ids
    <2>2. \A p \in DOMAIN r : r[p] \in Levels
        BY DEF Requests
    <2>3. \A p \in Projects : p \in done => SetRow(rights[u][p], r[p]) \in Seq(Levels)
        BY <1>0, <2>2, SetRowTypes
    <2>4. rights' \in [Users -> [Projects -> Seq(Levels)]]
        BY <1>0, <2>1, <2>3
    <2> QED
        BY <1>0, <1>14, <2>4, <1>T, Zenon DEF set_user_permissions
<1>15. ASSUME NEW p \in Projects, ProjectRow(p)
       PROVE  TypeOK'
    <2>1. projects' \subseteq Projects
        BY <1>0, <1>15 DEF ProjectRow
    <2> QED
        BY <1>0, <1>15, <2>1, <1>T, Zenon DEF ProjectRow
<1>16. ASSUME NEW t \in 1 .. MaxTokens, Download(t)
       PROVE  TypeOK'
    <2>1. tokens' \in [1 .. MaxTokens -> TokenType]
        BY <1>16, TokenTypes DEF Download
    <2> QED
        BY <1>0, <1>16, <2>1, <1>T, Zenon DEF Download
<1>17. ASSUME NEW t \in 1 .. MaxTokens, NEW p \in Projects, Upload(t, p)
       PROVE  TypeOK'
    <2>1. 0 \in 0 .. MaxKeys
        BY AccountsAssumption
    <2>2. request' \in RequestType
        BY <1>17, <2>1, TokenEmailType DEF Upload, RequestType
    <2> QED
        BY <1>0, <1>17, <2>2, <1>T, Zenon DEF Upload, database
<1>18. ASSUME NEW e \in Emails, NEW p \in Projects, WebhookHeader(e, p)
       PROVE  TypeOK'
    <2>1. get_user_info(e).key \in 0 .. MaxKeys
        BY KeyTypes DEF get_user_info
    <2>2. request' \in RequestType
        BY <1>18, <2>1 DEF WebhookHeader, Captured, RequestType
    <2> QED
        BY <1>0, <1>18, <2>2, <1>T, Zenon DEF WebhookHeader, database
<1>19. CASE Body
    <2>1. request' \in RequestType
        BY <1>19, EmptyRows DEF Body
    <2> QED
        BY <1>0, <1>19, <2>1, <1>T, Zenon DEF Body, database
<1>20. CASE UNCHANGED vars
    BY <1>0, <1>20, <1>T, Zenon DEF vars
<1>21. ASSUME NEW w \in Websockets, Session(w)
       PROVE  TypeOK'
    BY <1>t, <1>6, <1>7, <1>8, <1>9, <1>21 DEF Session
<1>22. ASSUME NEW w \in Websockets, Manage(w)
       PROVE  TypeOK'
    <2>1. RootPass \in Passwords /\ TRUE \in BOOLEAN
        BY AccountsAssumption, Zenon
    <2> QED
        BY <1>10, <1>11, <1>12, <1>13, <1>14, <1>22, <2>1 DEF Manage
<1> QED
    BY <1>t, <1>1, <1>2, <1>3, <1>4, <1>5, <1>15, <1>16, <1>17, <1>18, <1>19, <1>20, <1>21, <1>22
    DEF Next

(* The type invariant of the database, the contexts and the request holds   *)
(* in every reachable state.                                                *)
THEOREM TypeCorrect == Spec => []TypeOK
BY InitTypes, NextTypes, PTL DEF Spec

-----------------------------------------------------------------------------
(* The invariant *)

(* Rows are numbered upwards and a key belongs to one user. *)
Numbered ==
    /\ \A u \in Users : Exists(u) => u <= lastUser
    /\ \A t \in 1 .. MaxTokens : tokens[t].user # 0 => t <= lastToken
    /\ \A u \in Users : keys[u] <= lastKey
    /\ \A u, v \in Users : keys[u] # 0 /\ keys[u] = keys[v] => u = v

(* A user has at most one row of rights for a project. *)
OneRow == \A u \in Users, p \in Projects : Len(rights[u][p]) <= 1

(* Connections remember tokens and keys that were issued. *)
Remembered ==
    /\ \A w \in Websockets : ctx[w].token <= lastToken
    /\ request.key <= lastKey

AccountsInv == NoOrphans /\ Numbered /\ OneRow /\ Remembered /\ ContextsAreTrue

(* What every transaction does: numbers only grow, a row whose address     *)
(* changes has nothing that refers to it, and what is new refers to a user *)
(* that exists.                                                            *)
Transacts ==
    /\ lastUser <= lastUser' /\ lastToken <= lastToken' /\ lastKey <= lastKey'
    /\ \A u \in Users :
          /\ Exists(u)' => Exists(u) \/ u <= lastUser'
          /\ \/ users'[u].email = users[u].email
             \/ /\ \A t \in 1 .. MaxTokens : tokens'[t].user # u
                /\ keys'[u] = 0
                /\ \A p \in Projects : rights'[u][p] = << >>
          /\ \/ keys'[u] \in {0, keys[u]}
             \/ /\ Exists(u)' /\ keys'[u] = lastKey + 1 /\ lastKey' = lastKey + 1
                /\ \A v \in Users \ {u} : keys'[v] = keys[v]
          /\ \A p \in Projects :
                \/ rights'[u][p] \in {<< >>, rights[u][p]}
                \/ Exists(u)' /\ Len(rights'[u][p]) <= 1
    /\ \A t \in 1 .. MaxTokens :
          \/ tokens'[t].user \in {0, tokens[t].user}
          \/ /\ t = lastToken + 1 /\ lastToken' = lastToken + 1
             /\ users'[tokens'[t].user].email # NoOne

(* What a connection comes to remember is true. *)
Notes ==
    /\ \A w \in Websockets :
          LET t == ctx'[w].token
          IN  \/ ctx'[w] = ctx[w] \/ t = 0
              \/ /\ t <= lastToken'
                 /\ tokens'[t].user # 0 => users'[tokens'[t].user].email = ctx'[w].email
    /\ \/ request' = request \/ request'.key = 0
       \/ /\ request'.key <= lastKey'
          /\ \A u \in Users : keys'[u] = request'.key => users'[u].email = request'.email

(* Such steps preserve the invariant. *)
LEMMA Preserved ==
    ASSUME TypeOK, TypeOK', AccountsInv, Transacts, Notes
    PROVE  AccountsInv'
<1>0. /\ NoOrphans /\ Numbered /\ OneRow /\ Remembered /\ ContextsAreTrue
      /\ lastUser \in Nat /\ lastUser' \in Nat /\ lastToken \in Nat /\ lastToken' \in Nat
      /\ lastKey \in Nat /\ lastKey' \in Nat
      /\ \A u \in Users : u \in Nat \ {0} /\ keys[u] \in Nat /\ keys'[u] \in Nat
      /\ \A t \in 1 .. MaxTokens : /\ t \in Nat \ {0}
                                   /\ tokens[t].user \in {0} \cup Users
                                   /\ tokens'[t].user \in {0} \cup Users
  <2>1. NoOrphans /\ Numbered /\ OneRow /\ Remembered /\ ContextsAreTrue
      BY DEF AccountsInv
  <2>2. /\ lastUser \in Nat /\ lastUser' \in Nat /\ lastToken \in Nat /\ lastToken' \in Nat
        /\ lastKey \in Nat /\ lastKey' \in Nat
      BY AccountsAssumption DEF TypeOK
  <2>3. \A u \in Users : u \in Nat \ {0} /\ keys[u] \in Nat /\ keys'[u] \in Nat
      BY AccountsAssumption DEF TypeOK, Users
  <2>4. \A t \in 1 .. MaxTokens : /\ tokens[t].user \in {0} \cup Users
                                  /\ tokens'[t].user \in {0} \cup Users
      BY DEF TypeOK
  <2>5. \A t \in 1 .. MaxTokens : t \in Nat \ {0}
      BY AccountsAssumption
  <2> QED
      BY <2>1, <2>2, <2>3, <2>4, <2>5
<1>1. NoOrphans'
    <2> SUFFICES ASSUME NEW u \in Users, ~Exists(u)'
                 PROVE  /\ \A t \in 1 .. MaxTokens : tokens'[t].user # u
                        /\ keys'[u] = 0
                        /\ \A p \in Projects : rights'[u][p] = << >>
        BY DEF NoOrphans
    <2>1. CASE users'[u].email # users[u].email
        BY <2>1 DEF Transacts
    <2>2. CASE users'[u].email = users[u].email
        <3>1. ~Exists(u)
            BY <2>2 DEF Exists
        <3>2. /\ \A t \in 1 .. MaxTokens : tokens[t].user # u
              /\ keys[u] = 0
              /\ \A p \in Projects : rights[u][p] = << >>
            BY <1>0, <3>1 DEF NoOrphans
        <3>3. ASSUME NEW t \in 1 .. MaxTokens
              PROVE  tokens'[t].user # u
            <4>1. \/ tokens'[t].user \in {0, tokens[t].user}
                  \/ users'[tokens'[t].user].email # NoOne
                BY DEF Transacts, Exists
            <4>2. users'[u].email = NoOne
                BY DEF Exists
            <4> QED
                BY <1>0, <3>2, <4>1, <4>2
        <3>4. keys'[u] = 0 /\ \A p \in Projects : rights'[u][p] = << >>
            BY <3>2 DEF Transacts
        <3> QED
            BY <3>3, <3>4
    <2> QED
        BY <2>1, <2>2
<1>2. Numbered'
    <2>1. \A u \in Users : Exists(u)' => u <= lastUser'
        BY <1>0 DEF Numbered, Transacts
    <2>2. \A t \in 1 .. MaxTokens : tokens'[t].user # 0 => t <= lastToken'
        BY <1>0 DEF Numbered, Transacts
    <2>3. \A u \in Users : keys'[u] <= lastKey'
        BY <1>0 DEF Numbered, Transacts
    <2>4. \A u, v \in Users : keys'[u] # 0 /\ keys'[u] = keys'[v] => u = v
        BY <1>0 DEF Numbered, Transacts
    <2> QED
        BY <2>1, <2>2, <2>3, <2>4 DEF Numbered
<1>3. OneRow'
    BY <1>0 DEF OneRow, Transacts
<1>4. Remembered'
    <2>1. \A w \in Websockets : ctx[w].token \in Nat /\ ctx'[w].token \in Nat
        BY DEF TypeOK
    <2>2. request.key \in Nat /\ request'.key \in Nat
        BY DEF TypeOK
    <2> QED
        BY <1>0, <2>1, <2>2 DEF Remembered, Notes, Transacts
<1>5. ContextsAreTrue'
    <2>1. ASSUME NEW w \in Websockets, ctx'[w].token # 0, tokens'[ctx'[w].token].user # 0
          PROVE  users'[tokens'[ctx'[w].token].user].email = ctx'[w].email
        <3> DEFINE t == ctx'[w].token
        <3>1. CASE ctx'[w] = ctx[w]
            <4>1. t \in 1 .. MaxTokens /\ t <= lastToken
                BY <1>0, <2>1, <3>1 DEF TypeOK, Remembered
            <4>2. tokens'[t].user = tokens[t].user /\ tokens[t].user \in Users
                BY <1>0, <2>1, <4>1 DEF Transacts
            <4>3. users'[tokens[t].user].email = users[tokens[t].user].email
                BY <4>1, <4>2 DEF Transacts
            <4> QED
                BY <1>0, <2>1, <3>1, <4>2, <4>3 DEF ContextsAreTrue
        <3> QED
            BY <2>1, <3>1 DEF Notes
    <2>2. ASSUME NEW u \in Users, request'.key # 0, keys'[u] = request'.key
          PROVE  users'[u].email = request'.email
        <3>1. CASE request' = request
            <4>1. keys'[u] = keys[u]
                BY <1>0, <2>2, <3>1 DEF Transacts, Remembered
            <4>2. users'[u].email = users[u].email
                BY <2>2 DEF Transacts
            <4> QED
                BY <1>0, <2>2, <3>1, <4>1, <4>2 DEF ContextsAreTrue
        <3> QED
            BY <2>2, <3>1 DEF Notes
    <2> QED
        BY <2>1, <2>2 DEF ContextsAreTrue
<1> QED
    BY <1>1, <1>2, <1>3, <1>4, <1>5 DEF AccountsInv

(* add_user: the new row had nothing that refers to it. *)
LEMMA InsertUserTransacts ==
    ASSUME TypeOK, AccountsInv, NEW e \in Emails, NEW p, NEW a, InsertUser(e, p, a),
           UNCHANGED <<tokens, lastToken, keys, lastKey, rights>>
    PROVE  Transacts
<1> DEFINE n == lastUser + 1
<1>1. /\ n \in Users /\ lastUser \in Nat /\ lastUser' = n
      /\ users' = [users EXCEPT ![n] = [email |-> e, pass |-> p, admin |-> a]]
      /\ lastToken \in Nat /\ lastKey \in Nat
    BY AccountsAssumption DEF InsertUser, TypeOK, Users
<1>2. ~Exists(n)
    BY <1>1 DEF AccountsInv, Numbered, Users
<1>3. /\ \A t \in 1 .. MaxTokens : tokens[t].user # n
      /\ keys[n] = 0
      /\ \A q \in Projects : rights[n][q] = << >>
    BY <1>1, <1>2 DEF AccountsInv, NoOrphans
<1>4. \A u \in Users \ {n} : users'[u] = users[u]
    BY <1>1 DEF TypeOK
<1> QED
    BY <1>1, <1>3, <1>4 DEF Transacts, Exists

(* A user's row changes, but not its address. *)
LEMMA SameEmailTransacts ==
    ASSUME TypeOK, \A u \in Users : users'[u].email = users[u].email,
           UNCHANGED <<lastUser, tokens, lastToken, keys, lastKey, rights>>
    PROVE  Transacts
BY AccountsAssumption DEF Transacts, Exists, TypeOK

(* set_admin_status and change_pass keep the address. *)
LEMMA UpdateKeepsEmail ==
    ASSUME TypeOK, NEW e, NEW x, UpdateAdmin(e, x) \/ UpdatePass(e, x), NEW u \in Users
    PROVE  users'[u].email = users[u].email
<1>1. PICK n \in Users : \/ users' = [users EXCEPT ![n] = [users[n] EXCEPT !.admin = x]]
                          \/ users' = [users EXCEPT ![n] = [users[n] EXCEPT !.pass = x]]
    BY DEF UpdateAdmin, UpdatePass, Ids
<1>2. users[n] \in UserType
    BY DEF TypeOK, UserType
<1>3. /\ [users[n] EXCEPT !.admin = x].email = users[n].email
      /\ [users[n] EXCEPT !.pass = x].email = users[n].email
    BY <1>2 DEF UserType
<1>4. u # n => users'[u] = users[u]
    BY <1>1 DEF TypeOK
<1>5. users'[n].email = users[n].email
    <2>1. n \in DOMAIN users
        BY DEF TypeOK
    <2> QED
        BY <1>1, <1>3, <2>1, Zenon
<1> QED
    BY <1>4, <1>5

(* delete_user takes everything with it. *)
LEMMA RemoveUserTransacts ==
    ASSUME TypeOK, NEW e \in Emails, RemoveUser(e),
           UNCHANGED <<lastUser, lastToken, lastKey>>
    PROVE  Transacts
<1>1. PICK n \in Users :
          /\ users' = [users EXCEPT ![n] = NoUser]
          /\ tokens' = [t \in DOMAIN tokens |-> IF tokens[t].user = n THEN NoToken ELSE tokens[t]]
          /\ keys' = [keys EXCEPT ![n] = 0]
          /\ rights' = [rights EXCEPT ![n] = [p \in Projects |-> << >>]]
    BY DEF RemoveUser, Ids
<1>2. /\ \A u \in Users \ {n} : users'[u] = users[u]
      /\ ~Exists(n)'
    BY <1>1 DEF TypeOK, NoUser, Exists
<1>3. /\ \A t \in 1 .. MaxTokens : tokens'[t].user \in {0, tokens[t].user} \ {n}
    BY <1>1, AccountsAssumption DEF TypeOK, NoToken, Users
<1>4. /\ \A u \in Users : keys'[u] \in {0, keys[u]}
      /\ keys'[n] = 0
      /\ \A u \in Users, p \in Projects : rights'[u][p] \in {<< >>, rights[u][p]}
      /\ \A p \in Projects : rights'[n][p] = << >>
    BY <1>1 DEF TypeOK
<1>5. lastUser <= lastUser' /\ lastToken <= lastToken' /\ lastKey <= lastKey'
    BY AccountsAssumption DEF TypeOK
<1> QED
    BY <1>2, <1>3, <1>4, <1>5 DEF Transacts, Exists

(* Tokens are deleted. *)
LEMMA DeleteTokensTransacts ==
    ASSUME TypeOK, \A t \in 1 .. MaxTokens : tokens'[t].user \in {0, tokens[t].user},
           UNCHANGED <<users, lastUser, lastToken, keys, lastKey, rights>>
    PROVE  Transacts
BY AccountsAssumption DEF Transacts, Exists, TypeOK

(* The three ways to delete them. *)
LEMMA FewerTokens ==
    ASSUME TypeOK, NEW s \in 1 .. MaxTokens, tokens' \in {tokens, Cleaned, Checked(s), WithoutToken(s)},
           NEW t \in 1 .. MaxTokens
    PROVE  tokens'[t].user \in {0, tokens[t].user}
<1>1. DOMAIN tokens = 1 .. MaxTokens
    BY DEF TypeOK
<1>2. /\ Cleaned[t] \in {tokens[t], NoToken}
      /\ Checked(s)[t] \in {tokens[t], NoToken}
      /\ WithoutToken(s)[t] \in {tokens[t], NoToken}
    BY <1>1 DEF Cleaned, Checked, WithoutToken
<1>3. tokens'[t] \in {tokens[t], NoToken}
    BY <1>2
<1> QED
    BY <1>3 DEF NoToken

(* A token is issued to a user that exists. *)
LEMMA IssueTokenTransacts ==
    ASSUME TypeOK, NEW e, NEW p, IssueToken(e, p),
           UNCHANGED <<users, lastUser, keys, lastKey, rights>>
    PROVE  /\ Transacts
           /\ lastToken + 1 \in 1 .. MaxTokens
           /\ users[tokens'[lastToken + 1].user].email = e
<1>1. PICK u \in Ids(e) :
          tokens' = [tokens EXCEPT ![lastToken + 1] = [user |-> u, expired |-> FALSE]]
    BY DEF IssueToken
<1>2. lastToken \in Nat /\ lastToken' = lastToken + 1 /\ lastToken + 1 \in 1 .. MaxTokens
    BY AccountsAssumption DEF IssueToken, TypeOK
<1>3. /\ tokens'[lastToken + 1].user = u
      /\ \A t \in 1 .. MaxTokens : t # lastToken + 1 => tokens'[t] = tokens[t]
    BY <1>1, <1>2 DEF TypeOK
<1>4. users[u].email = e /\ e # NoOne
    BY DEF Ids
<1>5. lastUser <= lastUser' /\ lastToken <= lastToken' /\ lastKey <= lastKey'
    BY <1>2, AccountsAssumption DEF TypeOK
<1>6. users'[tokens'[lastToken + 1].user].email # NoOne
    BY <1>3, <1>4
<1>7. Transacts
    BY <1>2, <1>3, <1>5, <1>6 DEF Transacts, Exists
<1> QED
    BY <1>2, <1>3, <1>4, <1>7

(* A key is issued to a user that exists and had none, or deleted. *)
LEMMA KeyTransacts ==
    ASSUME TypeOK, NEW e,
           InsertKey(e) \/ (DeleteKey(e) /\ lastKey' = lastKey),
           UNCHANGED <<users, lastUser, tokens, lastToken, rights>>
    PROVE  Transacts
<1>1. /\ lastUser <= lastUser' /\ lastToken <= lastToken' /\ lastKey <= lastKey'
      /\ lastKey \in Nat
    BY AccountsAssumption DEF InsertKey, TypeOK
<1>2. CASE InsertKey(e)
    <2>1. PICK n \in Ids(e) : keys' = [keys EXCEPT ![n] = lastKey + 1] /\ lastKey' = lastKey + 1
        BY <1>2 DEF InsertKey
    <2>2. n \in Users /\ Exists(n)'
        BY DEF Ids, Exists
    <2>3. keys'[n] = lastKey + 1 /\ \A u \in Users \ {n} : keys'[u] = keys[u]
        BY <2>1, <2>2 DEF TypeOK
    <2> QED
        BY <1>1, <2>1, <2>2, <2>3 DEF Transacts, Exists
<1>3. CASE DeleteKey(e) /\ lastKey' = lastKey
    <2>1. \A u \in Users : keys'[u] \in {0, keys[u]}
        BY <1>3 DEF DeleteKey, Ids, TypeOK
    <2> QED
        BY <1>1, <2>1 DEF Transacts, Exists
<1> QED
    BY <1>2, <1>3

(* Setting rights keeps one row. *)
LEMMA SetRowOnce ==
    ASSUME NEW rows \in Seq(Levels), Len(rows) <= 1, NEW r \in Levels
    PROVE  Len(SetRow(rows, r)) <= 1
<1>1. CASE Len(rows) = 1
    BY <1>1 DEF SetRow
<1>2. CASE Len(rows) # 1
    <2>0. Len(rows) \in Nat /\ \A n \in Nat : n <= 1 /\ n # 1 => n = 0
        OBVIOUS
    <2>1. Len(rows) = 0
        BY <1>2, <2>0, Zenon
    <2>2. Len(Append(rows, r)) = 1
        BY <2>1
    <2> QED
        BY <1>2, <2>2 DEF SetRow
<1> QED
    BY <1>1, <1>2

(* set_user_project_permissions, for any part of the request. *)
LEMMA RightsTransacts ==
    ASSUME TypeOK, OneRow, NEW w, NEW e, NEW r \in Requests, set_user_permissions(w, e, r)
    PROVE  Transacts
<1>1. PICK n \in Ids(e), done \in SUBSET (DOMAIN r \cap projects) :
          rights' = [rights EXCEPT ![n] =
                        [p \in Projects |-> IF p \in done THEN SetRow(rights[n][p], r[p])
                                            ELSE rights[n][p]]]
    BY DEF set_user_permissions
<1>2. n \in Users /\ Exists(n)
    BY DEF Ids, Exists
<1>3. \A p \in DOMAIN r : r[p] \in Levels
    BY DEF Requests
<1>4. ASSUME NEW p \in Projects
      PROVE  Len(rights'[n][p]) <= 1
    <2>1. rights[n][p] \in Seq(Levels) /\ Len(rights[n][p]) <= 1
        BY <1>2 DEF TypeOK, OneRow
    <2>2. rights'[n][p] = IF p \in done THEN SetRow(rights[n][p], r[p]) ELSE rights[n][p]
        BY <1>1, <1>2 DEF TypeOK
    <2> QED
        BY <1>3, <2>1, <2>2, SetRowOnce
<1>5. \A u \in Users \ {n} : rights'[u] = rights[u]
    BY <1>1, <1>2 DEF TypeOK
<1>6. UNCHANGED <<users, lastUser, tokens, lastToken, keys, lastKey>>
    BY DEF set_user_permissions
<1>7. lastUser <= lastUser' /\ lastToken <= lastToken' /\ lastKey <= lastKey'
    BY <1>6, AccountsAssumption DEF TypeOK
<1> QED
    BY <1>2, <1>4, <1>5, <1>6, <1>7 DEF Transacts, Exists

(* A step that leaves the database as it is, or only the contexts. *)
LEMMA IdleTransacts == TypeOK /\ UNCHANGED database => Transacts
BY AccountsAssumption DEF TypeOK, Transacts, Exists, database

(* The key a webhook captures is the one of the user it names. *)
LEMMA CapturedKey ==
    ASSUME TypeOK, Numbered, NEW e, NEW u \in Users, KeyOf(e) # 0, keys[u] = KeyOf(e)
    PROVE  users[u].email = e
<1>1. Ids(e) # {} /\ KeyOf(e) = keys[CHOOSE v \in Ids(e) : TRUE]
    BY DEF KeyOf
<1>2. PICK v \in Ids(e) : KeyOf(e) = keys[v]
    BY <1>1
<1>3. v \in Users /\ users[v].email = e
    BY DEF Ids
<1> QED
    BY <1>2, <1>3 DEF Numbered

(* Every step of a websocket's login preserves the invariant. *)
LEMMA SessionPreserves ==
    ASSUME TypeOK, TypeOK', AccountsInv, NEW w \in Websockets, Session(w)
    PROVE  AccountsInv'
<1>0. 1 .. lastToken \subseteq 1 .. MaxTokens /\ lastToken \in Nat
    BY AccountsAssumption DEF TypeOK
<1>t. \A t \in 1 .. lastToken : t <= lastToken
    BY <1>0
<1>r. UNCHANGED <<users, lastUser, keys, lastKey, rights, request>>
    BY DEF Session, login_pass, login_token, OpenWebsocket, logout, CloseWebsocket, database
<1>c. \A v \in Websockets \ {w} : ctx'[v] = ctx[v]
    BY DEF Session, login_pass, login_token, OpenWebsocket, logout, CloseWebsocket, TypeOK
<1>1. ASSUME NEW e \in Emails, NEW p \in Passwords, login_pass(w, e, p)
      PROVE  AccountsInv'
    <2>1. IssueToken(e, p)
        BY <1>1 DEF login_pass
    <2>2. /\ Transacts
          /\ lastToken + 1 \in 1 .. MaxTokens
          /\ users[tokens'[lastToken + 1].user].email = e
        BY <1>r, <2>1, IssueTokenTransacts
    <2>3. /\ ctx'[w].email = e /\ ctx'[w].token = lastToken + 1
          /\ lastToken' = lastToken + 1
        BY <1>1, <2>1 DEF login_pass, IssueToken, TypeOK
    <2>4. Notes
        BY <1>0, <1>r, <1>c, <2>2, <2>3 DEF Notes
    <2> QED
        BY <2>2, <2>4, Preserved
<1>2. ASSUME NEW t \in 1 .. lastToken, login_token(w, t) \/ OpenWebsocket(w, t)
      PROVE  AccountsInv'
    <2>1. tokens' = Checked(t) /\ lastToken' = lastToken
        BY <1>2 DEF login_token, OpenWebsocket
    <2>2. Transacts
        BY <1>0, <1>r, <2>1, FewerTokens, DeleteTokensTransacts
    <2>3. \/ ctx'[w] = ctx[w] \/ ctx'[w].token = 0
          \/ ctx'[w].email = TokenEmail(t) /\ ctx'[w].token = t /\ TokenEmail(t) # NoOne
        BY <1>2 DEF login_token, OpenWebsocket, TypeOK
    <2>4. TokenEmail(t) # NoOne => tokens'[t] = tokens[t] /\ users[tokens[t].user].email = TokenEmail(t)
        BY <1>0, <2>1 DEF Checked, TokenEmail, TokenUser
    <2>5. Notes
        BY <1>r, <1>c, <1>t, <2>1, <2>3, <2>4 DEF Notes
    <2> QED
        BY <2>2, <2>5, Preserved
<1>3. ASSUME NEW t \in 1 .. lastToken, logout(w, t)
      PROVE  AccountsInv'
    <2>1. tokens' \in {tokens, Checked(t), WithoutToken(t)} /\ lastToken' = lastToken
        BY <1>3 DEF logout
    <2>2. Transacts
        BY <1>0, <1>r, <2>1, FewerTokens, DeleteTokensTransacts
    <2>3. ctx'[w] \in {ctx[w], NoInfo}
        BY <1>3 DEF logout, TypeOK
    <2>4. Notes
        BY <1>r, <1>c, <2>3 DEF Notes, NoInfo
    <2> QED
        BY <2>2, <2>4, Preserved
<1>4. ASSUME CloseWebsocket(w)
      PROVE  AccountsInv'
    <2>1. UNCHANGED database /\ ctx'[w] = NoInfo
        BY <1>4 DEF CloseWebsocket, TypeOK
    <2>2. Notes
        BY <1>r, <1>c, <2>1 DEF Notes, NoInfo
    <2> QED
        BY <2>1, <2>2, IdleTransacts, Preserved
<1> QED
    BY <1>1, <1>2, <1>3, <1>4 DEF Session

(* And every management of users and rights. *)
LEMMA ManagePreserves ==
    ASSUME TypeOK, TypeOK', AccountsInv, NEW w \in Websockets, Manage(w)
    PROVE  AccountsInv'
<1>1. Notes
    BY DEF Manage, add_user, delete_user, set_admin_status, change_pass, generate_api_key,
           remove_api_key, set_user_permissions, Notes
<1>2. ASSUME Transacts
      PROVE  AccountsInv'
    BY <1>1, <1>2, Preserved
<1>3. ASSUME NEW e \in Emails, NEW p \in Passwords, NEW a \in BOOLEAN, add_user(w, e, p, a)
      PROVE  AccountsInv'
    BY <1>2, <1>3, InsertUserTransacts DEF add_user
<1>4. ASSUME NEW e \in Emails, delete_user(w, e)
      PROVE  AccountsInv'
    BY <1>2, <1>4, RemoveUserTransacts DEF delete_user
<1>5. ASSUME NEW e \in Emails, NEW a \in BOOLEAN, set_admin_status(w, e, a)
      PROVE  AccountsInv'
    BY <1>2, <1>5, UpdateKeepsEmail, SameEmailTransacts DEF set_admin_status
<1>6. ASSUME NEW e \in Emails, NEW old \in Passwords, NEW new \in Passwords,
             change_pass(w, e, old, new)
      PROVE  AccountsInv'
    BY <1>2, <1>6, UpdateKeepsEmail, SameEmailTransacts DEF change_pass
<1>7. ASSUME NEW e \in Emails, generate_api_key(w, e) \/ remove_api_key(w, e)
      PROVE  AccountsInv'
    BY <1>2, <1>7, KeyTransacts DEF generate_api_key, remove_api_key
<1>8. ASSUME NEW e \in Emails, NEW r \in Requests, set_user_permissions(w, e, r)
      PROVE  AccountsInv'
    BY <1>2, <1>8, RightsTransacts DEF AccountsInv
<1> QED
    BY <1>3, <1>4, <1>5, <1>6, <1>7, <1>8 DEF Manage

(* Init establishes the invariant, every step preserves it. *)
LEMMA AccountsInductive ==
    /\ Init => AccountsInv
    /\ TypeOK /\ AccountsInv /\ [Next]_vars => AccountsInv'
<1>1. Init => AccountsInv
    BY AccountsAssumption
    DEF Init, AccountsInv, NoOrphans, Numbered, OneRow, Remembered, ContextsAreTrue, Exists,
        NoUser, NoToken, NoInfo, NoRequest, Users
<1>2. ASSUME TypeOK, AccountsInv, [Next]_vars
      PROVE  AccountsInv'
    <2>0. TypeOK' /\ 1 .. lastToken \subseteq 1 .. MaxTokens
        BY <1>2, NextTypes, AccountsAssumption DEF TypeOK
    <2>1. ASSUME NEW w \in Websockets, Session(w) \/ Manage(w)
          PROVE  AccountsInv'
        BY <1>2, <2>0, <2>1, SessionPreserves, ManagePreserves
    <2>2. ASSUME UNCHANGED database, Notes
          PROVE  AccountsInv'
        BY <1>2, <2>0, <2>2, IdleTransacts, Preserved
    <2>3. ASSUME \A t \in 1 .. MaxTokens : tokens'[t].user \in {0, tokens[t].user},
                 UNCHANGED <<users, lastUser, lastToken, keys, lastKey, rights, ctx, request>>
          PROVE  AccountsInv'
        BY <1>2, <2>0, <2>3, DeleteTokensTransacts, Preserved DEF Notes
    <2>4. CASE CreateFile \/ Body \/ UNCHANGED vars
        BY <2>2, <2>4 DEF CreateFile, Body, vars, Notes, database, NoRequest
    <2>5. CASE InsertAdmin
        <3>1. Transacts
            BY <1>2, <2>5, AccountsAssumption, InsertUserTransacts DEF InsertAdmin
        <3> QED
            BY <1>2, <2>0, <2>5, <3>1, Preserved DEF InsertAdmin, Notes
    <2>6. CASE Start \/ Cleanup
        <3>1. \A t \in 1 .. MaxTokens : tokens'[t].user \in {0, tokens[t].user}
            BY <1>2, <2>6, FewerTokens DEF Start, Cleanup
        <3> QED
            BY <2>3, <2>6, <3>1 DEF Start, Cleanup
    <2>7. CASE Stop
        BY <2>2, <2>7 DEF Stop, Notes, NoInfo, NoRequest
    <2>8. ASSUME NEW t \in 1 .. lastToken, Expires(t) \/ Download(t)
          PROVE  AccountsInv'
        <3>1. \A s \in 1 .. MaxTokens : tokens'[s].user \in {0, tokens[s].user}
            <4>1. CASE Expires(t)
                BY <1>2, <2>0, <2>8, <4>1 DEF Expires, TypeOK
            <4>2. CASE Download(t)
                BY <1>2, <2>0, <2>8, <4>2, FewerTokens DEF Download
            <4> QED
                BY <2>8, <4>1, <4>2
        <3> QED
            BY <2>3, <2>8, <3>1 DEF Expires, Download
    <2>9. ASSUME NEW p \in Projects, ProjectRow(p)
          PROVE  AccountsInv'
        BY <2>3, <2>9 DEF ProjectRow
    <2>10. ASSUME NEW t \in 1 .. lastToken, NEW p \in Projects, Upload(t, p)
           PROVE  AccountsInv'
        BY <2>2, <2>10 DEF Upload, Notes
    <2>11. ASSUME NEW e \in Emails, NEW p \in Projects, WebhookHeader(e, p)
           PROVE  AccountsInv'
        <3>1. /\ UNCHANGED database /\ ctx' = ctx
              /\ request'.email = e /\ request'.key = KeyOf(e) /\ KeyOf(e) # 0
            BY <2>11 DEF WebhookHeader, Captured, MayCall, get_user_info
        <3>2. KeyOf(e) <= lastKey
            BY <1>2, <3>1 DEF AccountsInv, Numbered, KeyOf, Ids
        <3>3. \A u \in Users : keys[u] = KeyOf(e) => users[u].email = e
            BY <1>2, <3>1, CapturedKey DEF AccountsInv
        <3>4. Notes
            BY <3>1, <3>2, <3>3 DEF Notes, database
        <3> QED
            BY <2>2, <3>1, <3>4
    <2> QED
        BY <1>2, <2>1, <2>4, <2>5, <2>6, <2>7, <2>8, <2>9, <2>10, <2>11 DEF Next
<1> QED
    BY <1>1, <1>2

(* The invariant holds in every reachable state. *)
LEMMA AccountsInvariant == Spec => [](TypeOK /\ AccountsInv)
BY InitTypes, NextTypes, AccountsInductive, PTL DEF Spec

-----------------------------------------------------------------------------
(* What follows *)

(* Every token, key and right is of a user that exists: a new account       *)
(* inherits nothing from a deleted one with its address.                    *)
THEOREM NothingIsOrphaned == Spec => []NoOrphans
<1>1. AccountsInv => NoOrphans
    BY DEF AccountsInv
<1> QED
    BY <1>1, AccountsInvariant, PTL

(* A token or key that a connection remembers, if it still exists, is of    *)
(* the user that the connection acts for.                                   *)
THEOREM ConnectionsActForTheirOwn == Spec => []ContextsAreTrue
<1>1. AccountsInv => ContextsAreTrue
    BY DEF AccountsInv
<1> QED
    BY <1>1, AccountsInvariant, PTL

(* Where there is at most one row, its last is its first and only one.      *)
LEMMA SameRow ==
    ASSUME TypeOK, OneRow, NEW e, NEW p \in Projects
    PROVE  {Last(rights[u][p]) : u \in {v \in Ids(e) : rights[v][p] # << >>}}
               = {rights[u][p][1] : u \in {v \in Ids(e) : Len(rights[v][p]) = 1}}
<1>1. ASSUME NEW u \in Users
      PROVE  /\ rights[u][p] # << >> <=> Len(rights[u][p]) = 1
             /\ Len(rights[u][p]) = 1 => Last(rights[u][p]) = rights[u][p][1]
    <2>1. rights[u][p] \in Seq(Levels) /\ Len(rights[u][p]) <= 1
        BY DEF TypeOK, OneRow
    <2> DEFINE rows == rights[u][p]
    <2>2. Len(rows) \in Nat /\ \A n \in Nat : n <= 1 => n = 0 \/ n = 1
        BY <2>1
    <2>3. Len(rows) = 0 \/ Len(rows) = 1
        BY <2>1, <2>2, Zenon
    <2>4. rows # << >> <=> Len(rows) # 0
        BY <2>1
    <2> QED
        BY <2>3, <2>4 DEF Last
<1>2. Ids(e) \subseteq Users
    BY DEF Ids
<1> QED
    BY <1>1, <1>2

(* The rights an admin is shown are those that every handler enforces,      *)
(* although three queries work them out.                                    *)
THEOREM RightsShownAreEnforced == Spec => []ShownIsEnforced
<1>1. TypeOK /\ AccountsInv => ShownIsEnforced
    <2> SUFFICES ASSUME TypeOK, OneRow PROVE ShownIsEnforced
        BY DEF AccountsInv
    <2>1. ASSUME NEW w \in Websockets, NEW e \in Emails,
                 NEW p \in DOMAIN get_user_permissions(w, e)
          PROVE  get_user_permissions(w, e)[p] = check_project_right(e, p)
        <3>1. get_user_permissions(w, e) # << >>
            BY <2>1
        <3>2. Ids(e) # {} /\ get_user_permissions(w, e) = get_permissions(e)
            BY <3>1 DEF get_user_permissions, get_permissions
        <3>3. p \in projects /\ p \in Projects
            BY <3>2 DEF get_permissions, TypeOK
        <3> QED
            BY <3>2, <3>3, SameRow DEF get_permissions, check_project_right
    <2>2. ASSUME NEW w \in Websockets, NEW p \in Projects,
                 NEW e \in DOMAIN get_project_permissions(w, p)
          PROVE  get_project_permissions(w, p)[e] = check_project_right(e, p)
        <3>1. get_project_permissions(w, p) # << >>
            BY <2>2
        <3>2. /\ p \in projects
              /\ get_project_permissions(w, p) = get_permissions_by_project(p)
            BY <3>1 DEF get_project_permissions, get_permissions_by_project
        <3>3. e \in {users[u].email : u \in {v \in Users : Exists(v)}}
            BY <3>2 DEF get_permissions_by_project
        <3>4. Ids(e) # {}
            BY <3>3 DEF Ids, Exists
        <3> QED
            BY <3>2, <3>3, <3>4, SameRow DEF get_permissions_by_project, check_project_right
    <2>3. ASSUME NEW w \in Websockets, NEW v \in Websockets,
                 NEW e \in DOMAIN list_users(w), LoggedIn(v), ctx[v].email = e
          PROVE  get_api_key(v, e) = list_users(w)[e].key
        <3>1. list_users(w) # << >>
            BY <2>3
        <3>2. list_users(w) = get_user_infos
            BY <3>1 DEF list_users
        <3> QED
            BY <2>3, <3>2 DEF get_user_infos, get_user_info, get_api_key, PermittedFor
    <2> QED
        BY <2>1, <2>2, <2>3 DEF ShownIsEnforced
<1> QED
    BY <1>1, AccountsInvariant, PTL

-----------------------------------------------------------------------------
(* Whom a websocket acts for *)

(* An address is of one account; a websocket is logged in to an account of *)
(* its address, and an account that has this address since came later.     *)
LoginOf(id, e) ==
    /\ id = 0 <=> e = NoOne
    /\ id <= lastUser
    /\ id # 0 /\ Exists(id) => users[id].email = e
    /\ \A u \in Users : users[u].email = e /\ e # NoOne => u >= id

Owned ==
    /\ \A u, v \in Users : Exists(u) /\ users[u].email = users[v].email => u = v
    /\ \A w \in Websockets : LoginOf(ctx[w].user, ctx[w].email)

(* A step may delete an account, or add one under a new number and with an *)
(* address that no other has.                                              *)
KeepsAddresses ==
    /\ lastUser <= lastUser'
    /\ \A u \in Users :
          \/ users'[u].email \in {users[u].email, NoOne}
          \/ u = lastUser + 1 /\ lastUser' = lastUser + 1 /\ ~Exists(u) /\ Ids(users'[u].email) = {}

(* A websocket forgets its account, or logs in to one that exists.         *)
LogsIn ==
    \A w \in Websockets :
       \/ ctx'[w] = ctx[w]
       \/ ctx'[w].user = 0 /\ ctx'[w].email = NoOne
       \/ /\ users' = users /\ lastUser' = lastUser
          /\ ctx'[w].user \in Users /\ Exists(ctx'[w].user)
          /\ users[ctx'[w].user].email = ctx'[w].email

LEMMA OwnedKept ==
    ASSUME TypeOK, TypeOK', AccountsInv, Owned, KeepsAddresses, LogsIn
    PROVE  Owned'
<1>1. /\ lastUser \in Nat /\ lastUser' \in Nat /\ lastUser <= lastUser'
      /\ \A u \in Users : u \in Nat \ {0}
      /\ \A u \in Users : Exists(u) => u <= lastUser
      /\ \A w \in Websockets : ctx[w].user \in {0} \cup Users
    BY AccountsAssumption DEF TypeOK, Users, KeepsAddresses, AccountsInv, Numbered
<1>2. ASSUME NEW u \in Users, NEW v \in Users, Exists(u)', users'[u].email = users'[v].email
      PROVE  u = v
    <2>1. Exists(v)'
        BY <1>2 DEF Exists
    <2>2. CASE users'[u].email = users[u].email /\ users'[v].email = users[v].email
        BY <1>2, <2>2 DEF Owned, Exists
    <2>3. ASSUME NEW x \in Users, NEW y \in Users, Exists(y)',
                 users'[x].email = users'[y].email, Ids(users'[x].email) = {}
          PROVE  y = lastUser + 1
        <3>1. users[y].email # users'[y].email
            BY <2>3 DEF Ids, Exists
        <3> QED
            BY <2>3, <3>1 DEF KeepsAddresses, Exists
    <2> QED
        BY <1>1, <1>2, <2>1, <2>2, <2>3 DEF KeepsAddresses, Exists
<1>3. ASSUME NEW id, NEW e, id \in {0} \cup Users, LoginOf(id, e)
      PROVE  LoginOf(id, e)'
    <2>1. /\ id = 0 <=> e = NoOne
          /\ id <= lastUser /\ id \in Nat
          /\ id # 0 /\ Exists(id) => users[id].email = e
          /\ \A u \in Users : users[u].email = e /\ e # NoOne => u >= id
        BY <1>1, <1>3 DEF LoginOf
    <2>2. id <= lastUser'
        BY <1>1, <2>1
    <2>3. ASSUME id # 0, Exists(id)' PROVE users'[id].email = e
        <3>1. id \in Users /\ id # lastUser + 1
            BY <1>1, <1>3, <2>1, <2>3
        <3>2. users'[id].email = users[id].email
            BY <2>3, <3>1 DEF KeepsAddresses, Exists
        <3> QED
            BY <2>1, <2>3, <3>2 DEF Exists
    <2>4. ASSUME NEW u \in Users, users'[u].email = e, e # NoOne
          PROVE  u >= id
        <3>1. CASE users'[u].email = users[u].email
            BY <2>1, <2>4, <3>1
        <3>2. CASE u = lastUser + 1
            BY <1>1, <2>1, <3>2
        <3> QED
            BY <2>4, <3>1, <3>2, Zenon DEF KeepsAddresses
    <2> QED
        BY <2>1, <2>2, <2>3, <2>4, Zenon DEF LoginOf
<1>4. ASSUME NEW n \in Users, NEW e, Exists(n), users[n].email = e, users' = users, lastUser' = lastUser
      PROVE  LoginOf(n, e)'
    <2>1. n \in Nat \ {0} /\ n <= lastUser' /\ e # NoOne /\ users'[n].email = e
        BY <1>1, <1>4 DEF Exists
    <2>2. ASSUME NEW u \in Users, users'[u].email = e
          PROVE  u >= n
        <3>1. u = n
            BY <1>4, <2>2 DEF Owned, Exists
        <3> QED
            BY <2>1, <3>1
    <2>3. n # 0
        BY <2>1
    <2> QED
        BY <2>1, <2>2, <2>3, Zenon DEF LoginOf
<1>5. LoginOf(0, NoOne)'
    <2>1. 0 <= lastUser' /\ \A u \in Users : u >= 0
        BY <1>1
    <2> QED
        BY <2>1, Zenon DEF LoginOf
<1>6. ASSUME NEW w \in Websockets
      PROVE  LoginOf(ctx[w].user, ctx[w].email)'
    <2>1. CASE ctx'[w] = ctx[w]
        <3>1. PICK id \in {0} \cup Users : id = ctx[w].user
            BY <1>1, Zenon
        <3>2. PICK e : e = ctx[w].email
            BY Zenon
        <3>3. LoginOf(id, e)'
            BY <1>3, <3>1, <3>2 DEF Owned
        <3>4. ctx'[w].user = id /\ ctx'[w].email = e
            BY <2>1, <3>1, <3>2, Zenon
        <3> QED
            BY <3>3, <3>4, Zenon DEF LoginOf, Exists
    <2>2. CASE ctx'[w].user = 0 /\ ctx'[w].email = NoOne
        BY <1>5, <2>2, Zenon DEF LoginOf, Exists
    <2>3. CASE /\ users' = users /\ lastUser' = lastUser
               /\ ctx'[w].user \in Users /\ Exists(ctx'[w].user)
               /\ users[ctx'[w].user].email = ctx'[w].email
        <3>1. PICK n \in Users : n = ctx'[w].user
            BY <2>3, Zenon
        <3>2. PICK e : e = ctx'[w].email
            BY Zenon
        <3>3. LoginOf(n, e)'
            BY <1>4, <2>3, <3>1, <3>2
        <3> QED
            BY <3>1, <3>2, <3>3, Zenon DEF LoginOf, Exists
    <2> QED
        BY <2>1, <2>2, <2>3, Zenon DEF LogsIn
<1> QED
    BY <1>2, <1>6, Zenon DEF Owned

(* What changes the accounts or the logins. *)
LEMMA OwnedInductive ==
    /\ Init => Owned
    /\ TypeOK /\ AccountsInv /\ Owned /\ [Next]_vars => Owned'
<1>1. Init => Owned
    BY AccountsAssumption DEF Init, Owned, LoginOf, Exists, NoUser, NoInfo, Users
<1>2. ASSUME TypeOK, AccountsInv, Owned, [Next]_vars
      PROVE  Owned'
    <2>1. TypeOK' /\ 1 .. lastToken \subseteq 1 .. MaxTokens
        BY <1>2, NextTypes, AccountsAssumption DEF TypeOK
    <2>2. lastUser \in Nat /\ lastUser <= lastUser
        BY <1>2, AccountsAssumption DEF TypeOK
    <2>3. ASSUME KeepsAddresses, LogsIn
          PROVE  Owned'
        BY <1>2, <2>1, <2>3, OwnedKept
    <2>4. UNCHANGED <<users, lastUser>> => KeepsAddresses
        BY <2>2 DEF KeepsAddresses
    <2>5. UNCHANGED ctx => LogsIn
        BY DEF LogsIn
    <2>6. ASSUME NEW t \in 1 .. MaxTokens, TokenUser(t) # 0
          PROVE  TokenUser(t) \in Users /\ Exists(TokenUser(t)) /\ users[TokenUser(t)].email = TokenEmail(t)
        <3>1. TokenUser(t) = tokens[t].user /\ tokens[t].user \in Users
            BY <1>2, <2>6 DEF TokenUser, TypeOK
        <3>2. Exists(tokens[t].user)
            BY <1>2, <3>1 DEF AccountsInv, NoOrphans
        <3> QED
            BY <2>6, <3>1, <3>2 DEF TokenEmail
    <2>7. ASSUME NEW w \in Websockets, Session(w)
          PROVE  Owned'
        <3>1. users' = users /\ lastUser' = lastUser
            BY <2>7
            DEF Session, login_pass, login_token, OpenWebsocket, logout, CloseWebsocket, database
        <3>2. \A v \in Websockets \ {w} : ctx'[v] = ctx[v]
            BY <1>2, <2>7
            DEF Session, login_pass, login_token, OpenWebsocket, logout, CloseWebsocket, TypeOK
        <3>3. ASSUME NEW e \in Emails, NEW p \in Passwords, login_pass(w, e, p)
              PROVE  LogsIn
            <4>1. PICK u \in Ids(e) :
                      tokens' = [tokens EXCEPT ![lastToken + 1] = [user |-> u, expired |-> FALSE]]
                BY <3>3 DEF login_pass, IssueToken
            <4>2. lastToken + 1 \in 1 .. MaxTokens
                BY <1>2, <3>3, AccountsAssumption DEF login_pass, IssueToken, TypeOK
            <4>3. tokens'[lastToken + 1].user = u
                BY <1>2, <4>1, <4>2 DEF TypeOK
            <4>4. ctx'[w].user = u /\ ctx'[w].email = e
                BY <1>2, <3>3, <4>3 DEF login_pass, TypeOK
            <4>5. u \in Users /\ Exists(u) /\ users[u].email = e
                BY DEF Ids, Exists
            <4> QED
                BY <3>1, <3>2, <4>4, <4>5 DEF LogsIn
        <3>4. ASSUME NEW t \in 1 .. MaxTokens, login_token(w, t) \/ OpenWebsocket(w, t)
              PROVE  LogsIn
            <4>1. \/ ctx'[w] = ctx[w]
                  \/ ctx'[w].user = TokenUser(t) /\ ctx'[w].email = TokenEmail(t)
                BY <1>2, <3>4 DEF login_token, OpenWebsocket, TypeOK
            <4>2. TokenUser(t) = 0 => TokenEmail(t) = NoOne
                BY DEF TokenEmail
            <4> QED
                BY <2>6, <3>1, <3>2, <4>1, <4>2 DEF LogsIn
        <3>5. ASSUME ctx'[w] \in {ctx[w], NoInfo}
              PROVE  LogsIn
            BY <3>2, <3>5 DEF LogsIn, NoInfo
        <3>6. ASSUME NEW t \in 1 .. MaxTokens, logout(w, t)
              PROVE  LogsIn
            BY <1>2, <3>5, <3>6 DEF logout, TypeOK
        <3>7. ASSUME CloseWebsocket(w)
              PROVE  LogsIn
            BY <1>2, <3>5, <3>7 DEF CloseWebsocket, TypeOK
        <3> QED
            BY <2>1, <2>3, <2>4, <2>7, <3>1, <3>3, <3>4, <3>6, <3>7 DEF Session
    <2>8. ASSUME NEW e \in Emails, NEW p, NEW a, InsertUser(e, p, a)
          PROVE  KeepsAddresses
        <3>1. /\ lastUser + 1 \in Users /\ lastUser' = lastUser + 1 /\ Ids(e) = {}
              /\ users' = [users EXCEPT ![lastUser + 1] = [email |-> e, pass |-> p, admin |-> a]]
            BY <1>2, <2>2, <2>8, AccountsAssumption DEF InsertUser, TypeOK, Users
        <3>2. ~Exists(lastUser + 1) /\ lastUser <= lastUser + 1
            BY <1>2, <2>2, <3>1 DEF AccountsInv, Numbered
        <3>3. users'[lastUser + 1].email = e /\ \A u \in Users \ {lastUser + 1} : users'[u] = users[u]
            BY <1>2, <3>1 DEF TypeOK
        <3> QED
            BY <3>1, <3>2, <3>3 DEF KeepsAddresses
    <2>9. ASSUME NEW w \in Websockets, Manage(w)
          PROVE  Owned'
        <3>1. ctx' = ctx
            BY <2>9 DEF Manage, add_user, delete_user, set_admin_status, change_pass,
                        generate_api_key, remove_api_key, set_user_permissions
        <3>2. ASSUME NEW e \in Emails, delete_user(w, e)
              PROVE  KeepsAddresses
            <4>1. PICK n \in Users : users' = [users EXCEPT ![n] = NoUser] /\ lastUser' = lastUser
                BY <3>2 DEF delete_user, RemoveUser, Ids
            <4>2. \A u \in Users : users'[u].email \in {users[u].email, NoOne}
                BY <1>2, <4>1 DEF TypeOK, NoUser
            <4> QED
                BY <2>2, <4>1, <4>2 DEF KeepsAddresses
        <3>3. ASSUME NEW e \in Emails, NEW x, UpdateAdmin(e, x) \/ UpdatePass(e, x), lastUser' = lastUser
              PROVE  KeepsAddresses
            BY <1>2, <2>2, <3>3, UpdateKeepsEmail DEF KeepsAddresses
        <3>4. KeepsAddresses
            <4>1. CASE \E e \in Emails, p \in Passwords, a \in BOOLEAN : add_user(w, e, p, a)
                BY <2>8, <4>1 DEF add_user
            <4>2. CASE \E e \in Emails : delete_user(w, e)
                BY <3>2, <4>2
            <4>3. CASE \E e \in Emails, a \in BOOLEAN : set_admin_status(w, e, a)
                BY <3>3, <4>3 DEF set_admin_status
            <4>4. CASE \E e \in Emails, old, new \in Passwords : change_pass(w, e, old, new)
                BY <3>3, <4>4 DEF change_pass
            <4>5. CASE UNCHANGED <<users, lastUser>>
                BY <2>4, <4>5
            <4> QED
                BY <2>9, <4>1, <4>2, <4>3, <4>4, <4>5
                DEF Manage, generate_api_key, remove_api_key, set_user_permissions
        <3> QED
            BY <2>3, <2>5, <3>1, <3>4
    <2>10. CASE InsertAdmin
        BY <2>3, <2>5, <2>8, <2>10, AccountsAssumption DEF InsertAdmin
    <2>11. CASE Stop
        <3>1. UNCHANGED <<users, lastUser>>
            BY <2>11 DEF Stop, database
        <3>2. LogsIn
            BY <2>11 DEF Stop, LogsIn, NoInfo
        <3> QED
            BY <2>3, <2>4, <3>1, <3>2
    <2>12. CASE UNCHANGED <<users, lastUser, ctx>>
        BY <2>3, <2>4, <2>5, <2>12
    <2> QED
        BY <1>2, <2>7, <2>9, <2>10, <2>11, <2>12
        DEF Next, CreateFile, Start, Cleanup, Expires, ProjectRow, Download, Upload,
            WebhookHeader, Body, database, vars
<1> QED
    BY <1>1, <1>2

LEMMA OwnedInvariant == Spec => []Owned
BY AccountsInvariant, OwnedInductive, PTL DEF Spec

(* The handlers look for the accounts with the address that the websocket   *)
(* remembers: these are the ones it may act for.                            *)
LEMMA FoundIsOwn ==
    ASSUME TypeOK, Owned, NEW w \in Websockets
    PROVE  Ids(ctx[w].email) \subseteq ActsFor(w)
<1> SUFFICES ASSUME NEW u \in Ids(ctx[w].email) PROVE u \in ActsFor(w)
    OBVIOUS
<1> DEFINE id == ctx[w].user
<1>1. u \in Users /\ Exists(u) /\ users[u].email = ctx[w].email /\ ctx[w].email # NoOne
    BY DEF Ids, Exists
<1>2. id \in Users /\ id # 0 /\ u >= id
    BY <1>1 DEF Owned, LoginOf, TypeOK
<1>3. CASE Exists(id)
    <2>1. u = id
        BY <1>1, <1>2, <1>3 DEF Owned, LoginOf
    <2> QED
        BY <1>2, <1>3, <2>1 DEF ActsFor
<1>4. CASE ~Exists(id)
    <2>1. u > id
        BY <1>1, <1>2, <1>4 DEF Users
    <2> QED
        BY <1>1, <1>2, <1>4, <2>1 DEF ActsFor
<1> QED
    BY <1>3, <1>4

(* Accounts and rights only change through a websocket that acts for an     *)
(* admin at that moment; passwords and keys also through their owner's.     *)
(* One whose account is gone changes nothing, unless another account was    *)
(* added with its address.                                                  *)
THEOREM ChangesAreByRight == Spec => OnlyByRight
<1> DEFINE Right ==
        \A u \in Users :
           Changes(u) => \/ server = "creating"
                         \/ /\ \E w \in Websockets : Manage(w)
                            /\ \A w \in Websockets : ByRight(w, u) \/ ~Manage(w)
<1>1. ASSUME TypeOK, Owned, NEW w \in Websockets, NEW u \in Users, Manage(w), Changes(u)
      PROVE  ByRight(w, u)
    <2>1. Ids(ctx[w].email) \subseteq ActsFor(w)
        BY <1>1, FoundIsOwn
    <2>2. CASE Permitted(w)
        BY <2>1, <2>2 DEF Permitted, IsAdmin, ByRight
    <2>3. ASSUME NEW e \in Emails, NEW old \in Passwords, NEW new \in Passwords,
                 change_pass(w, e, old, new), ~Permitted(w)
          PROVE  ByRight(w, u)
        <3>1. ctx[w].email = e /\ keys' = keys /\ rights' = rights
            BY <2>3 DEF change_pass
        <3>2. PICK n \in Ids(e) : users' = [users EXCEPT ![n] = [users[n] EXCEPT !.pass = new]]
            BY <2>3 DEF change_pass, UpdatePass
        <3>3. n \in Users
            BY DEF Ids
        <3>4. /\ users'[n] = [users[n] EXCEPT !.pass = users'[n].pass]
              /\ \A v \in Users \ {n} : users'[v] = users[v]
            BY <1>1, <3>2, <3>3 DEF TypeOK
        <3>5. u = n
            BY <1>1, <3>1, <3>4 DEF Changes
        <3> QED
            BY <2>1, <3>1, <3>4, <3>5 DEF ByRight
    <2>4. ASSUME NEW e \in Emails, generate_api_key(w, e) \/ remove_api_key(w, e), ~Permitted(w)
          PROVE  ByRight(w, u)
        <3>1. users' = users /\ rights' = rights
            BY <2>4 DEF generate_api_key, remove_api_key
        <3>2. keys'[u] # keys[u] => u \in Ids(e)
            BY <1>1, <2>4 DEF generate_api_key, remove_api_key, InsertKey, DeleteKey, TypeOK
        <3>3. ctx[w].email = e
            BY <2>4 DEF generate_api_key, remove_api_key, PermittedFor
        <3>4. users'[u] = [users[u] EXCEPT !.pass = users'[u].pass]
            <4>1. users[u] = [users[u] EXCEPT !.pass = users[u].pass]
                BY <1>1 DEF TypeOK
            <4> QED
                BY <3>1, <4>1
        <3> QED
            BY <1>1, <2>1, <3>1, <3>2, <3>3, <3>4 DEF ByRight, Changes
    <2> QED
        BY <1>1, <2>2, <2>3, <2>4
        DEF Manage, add_user, delete_user, set_admin_status, set_user_permissions
<1>2. ASSUME [Next]_vars, NEW u \in Users, Changes(u)
      PROVE  server = "creating" \/ \E w \in Websockets : Manage(w)
    BY <1>2
    DEF Changes, Next, Session, login_pass, login_token, OpenWebsocket, logout, CloseWebsocket,
        CreateFile, InsertAdmin, Start, Stop, Cleanup, Expires, ProjectRow, Download, Upload,
        WebhookHeader, Body, database, vars
<1>3. TypeOK /\ Owned /\ [Next]_vars => [Right]_vars
    BY <1>1, <1>2
<1> QED
    BY <1>3, TypeCorrect, OwnedInvariant, PTL DEF Spec, OnlyByRight

=================================================================================
