----------------------------- MODULE SessionProofs -----------------------------
(***************************************************************************)
(* Theorems about Session, for any sets of ids, connections, feeds and     *)
(* subscribers, any bound on the logs and any width of the handler keys.   *)
(***************************************************************************)
EXTENDS Session, FiniteSetTheorems, TLAPS

(* What the numbering of close handlers implies, for every width of the    *)
(* key type.                                                               *)

(* The empty table of a new connection satisfies the key invariant.        *)
LEMMA EmptyTableKeys == KeysInv(EmptyTable)
BY DEF KeysInv, EmptyTable

(* With a largest key top, add_close_handler picks (top - 1) % KeyMod.     *)
LEMMA NewKeyBelowTop ==
    ASSUME NEW h, NEW top \in Keys, DOMAIN h \subseteq Keys, IsLargest(top, DOMAIN h)
    PROVE  NewKey(h) = (top - 1) % KeyMod
<1>1. \A k \in DOMAIN h : IsLargest(k, DOMAIN h) => k = top
    BY KeyModAssumption DEF IsLargest, Keys
<1>2. (CHOOSE k \in DOMAIN h : IsLargest(k, DOMAIN h)) = top
    BY <1>1 DEF IsLargest
<1> QED
    BY <1>2 DEF NewKey, IsLargest

(* The key handed out is a value of the key type.                          *)
LEMMA NewKeyInKeys ==
    ASSUME NEW h, KeysInv(h)
    PROVE  NewKey(h) \in Keys
<1>1. CASE DOMAIN h = {}
    BY <1>1, KeyModAssumption DEF NewKey, Keys
<1>2. CASE DOMAIN h # {}
    <2>1. PICK top \in Keys : IsLargest(top, DOMAIN h)
        BY <1>2 DEF KeysInv
    <2>2. NewKey(h) = (top - 1) % KeyMod
        BY <2>1, NewKeyBelowTop DEF KeysInv
    <2> QED
        BY <2>2, KeyModAssumption DEF Keys
<1> QED
    BY <1>1, <1>2

(* add_close_handler preserves the key invariant.                          *)
LEMMA AddHandlerKeys ==
    ASSUME NEW h, NEW x, KeysInv(h)
    PROVE  KeysInv(AddHandler(h, x))
<1> DEFINE D == DOMAIN AddHandler(h, x)
<1>1. D = DOMAIN h \cup {NewKey(h)}
    BY DEF AddHandler
<1>2. D \subseteq Keys
    BY <1>1, NewKeyInKeys DEF KeysInv
<1>3. CASE DOMAIN h = {}
    <2>1. D = {0} /\ 0 \in Keys
        BY <1>1, <1>3, KeyModAssumption DEF NewKey, Keys
    <2>2. IsLargest(0, D) /\ D \subseteq {0, 0 - 1, 0}
        BY <2>1 DEF IsLargest
    <2> QED
        BY <1>2, <2>1, <2>2 DEF KeysInv
<1>4. CASE DOMAIN h # {}
    <2>1. PICK top \in Keys : IsLargest(top, DOMAIN h) /\ DOMAIN h \subseteq {0, top - 1, top}
        BY <1>4 DEF KeysInv
    <2>2. NewKey(h) = (top - 1) % KeyMod
        BY <2>1, NewKeyBelowTop DEF KeysInv
    <2>3. CASE top = 0
        <3>1. DOMAIN h = {0}
            BY <2>1, <2>3 DEF IsLargest, KeysInv, Keys
        <3>2. (0 - 1) % KeyMod = KeyMod - 1
            BY KeyModAssumption
        <3>3. D = {0, KeyMod - 1}
            BY <1>1, <2>2, <2>3, <3>1, <3>2
        <3>4. KeyMod - 1 \in Keys /\ IsLargest(KeyMod - 1, D)
            BY <3>3, KeyModAssumption DEF IsLargest, Keys
        <3>5. D \subseteq {0, (KeyMod - 1) - 1, KeyMod - 1}
            BY <3>3
        <3> QED
            BY <1>2, <3>4, <3>5 DEF KeysInv
    <2>4. CASE top # 0
        <3>1. NewKey(h) = top - 1
            BY <2>2, <2>4, KeyModAssumption DEF Keys
        <3>2. D \subseteq {0, top - 1, top}
            BY <1>1, <2>1, <3>1
        <3>3. IsLargest(top, D)
            BY <1>1, <2>1, <3>1 DEF IsLargest, Keys
        <3> QED
            BY <1>2, <3>2, <3>3 DEF KeysInv
    <2> QED
        BY <2>3, <2>4
<1> QED
    BY <1>3, <1>4

(* Dropping handlers preserves the key invariant.                          *)
LEMMA SmallerTableKeys ==
    ASSUME NEW h, NEW g, KeysInv(h), DOMAIN g \subseteq DOMAIN h
    PROVE  KeysInv(g)
<1>1. CASE DOMAIN g = {}
    BY <1>1 DEF KeysInv
<1>2. CASE DOMAIN g # {}
    <2>1. PICK top \in Keys : IsLargest(top, DOMAIN h) /\ DOMAIN h \subseteq {0, top - 1, top}
        BY <1>2 DEF KeysInv
    <2>2. CASE top \in DOMAIN g
        BY <2>1, <2>2 DEF KeysInv, IsLargest
    <2>3. CASE top \notin DOMAIN g /\ top - 1 \in DOMAIN g
        <3>1. top - 1 \in Keys
            BY <2>3 DEF KeysInv
        <3>2. IsLargest(top - 1, DOMAIN g)
            BY <2>1, <2>3, <3>1 DEF IsLargest, Keys
        <3>3. DOMAIN g \subseteq {0, (top - 1) - 1, top - 1}
            BY <2>1, <2>3
        <3> QED
            BY <3>1, <3>2, <3>3 DEF KeysInv
    <2>4. CASE top \notin DOMAIN g /\ top - 1 \notin DOMAIN g
        <3>1. DOMAIN g = {0} /\ 0 \in Keys
            BY <1>2, <2>1, <2>4 DEF KeysInv
        <3>2. IsLargest(0, DOMAIN g)
            BY <3>1 DEF IsLargest
        <3> QED
            BY <3>1, <3>2 DEF KeysInv
    <2> QED
        BY <2>2, <2>3, <2>4
<1> QED
    BY <1>1, <1>2

(* At most three handlers: the keys in use are among three numbers.        *)
LEMMA KeysAtMostThree ==
    ASSUME NEW h, KeysInv(h)
    PROVE  IsFiniteSet(DOMAIN h) /\ Cardinality(DOMAIN h) <= 3
<1>1. CASE DOMAIN h = {}
    BY <1>1, FS_EmptySet
<1>2. CASE DOMAIN h # {}
    <2>1. PICK top \in Keys : DOMAIN h \subseteq {0, top - 1, top}
        BY <1>2 DEF KeysInv
    <2> DEFINE T1 == {0}
               T2 == T1 \cup {top - 1}
               T3 == T2 \cup {top}
    <2>2. IsFiniteSet(T1) /\ Cardinality(T1) = 1
        BY FS_Singleton
    <2>3. IsFiniteSet(T2) /\ Cardinality(T2) <= 2
        BY <2>2, FS_AddElement
    <2>4. IsFiniteSet(T3) /\ Cardinality(T3) <= 3
        <3>1. Cardinality(T2) \in Nat
            BY <2>3, FS_CardinalityType
        <3> HIDE DEF T2
        <3> QED
            BY <2>3, <3>1, FS_AddElement
    <2>5. DOMAIN h \subseteq T3
        BY <2>1
    <2>6. IsFiniteSet(DOMAIN h) /\ Cardinality(DOMAIN h) <= Cardinality(T3)
        BY <2>4, <2>5, FS_Subset
    <2> QED
        BY <2>4, <2>6, FS_CardinalityType
<1> QED
    BY <1>1, <1>2

-----------------------------------------------------------------------------

(* Every close-handler table satisfies the key invariant.                  *)
Tables == \A c \in Conns : KeysInv(handlers[c])

Typed == TypeOK /\ Tables

-----------------------------------------------------------------------------
(* Lemmas about the helpers of the actions *)

(* Destroying the sessions nobody holds keeps the types.                   *)
LEMMA SettleTypes ==
    ASSUME NEW st \in [Sids -> States],
           NEW lg \in [Sids -> Nat],
           NEW rg \in [Sids -> [Conns -> Subs \cup {NoOne}]],
           Settle(st, lg, rg)
    PROVE  /\ state' \in [Sids -> States]
           /\ logs' \in [Sids -> Nat]
           /\ reg' \in [Sids -> [Conns -> Subs \cup {NoOne}]]
BY DEF Settle, States, NoReg

(* remove_close_handler keeps a table a table.                             *)
LEMMA RemoveTable ==
    ASSUME NEW h, NEW k, IsTable(h), KeysInv(h)
    PROVE  IsTable(RemoveHandler(h, k)) /\ KeysInv(RemoveHandler(h, k))
<1> DEFINE g == RemoveHandler(h, k)
<1>1. DOMAIN g = DOMAIN h \ {k} /\ \A j \in DOMAIN g : g[j] = h[j]
    BY DEF RemoveHandler, Restrict
<1>2. IsTable(g)
    BY DEF RemoveHandler, Restrict, IsTable
<1>3. KeysInv(g)
    BY <1>1, SmallerTableKeys
<1> QED
    BY <1>2, <1>3

(* add_close_handler keeps a table a table.                                *)
LEMMA AddTable ==
    ASSUME NEW h, NEW s \in Subs, IsTable(h), KeysInv(h)
    PROVE  IsTable(AddHandler(h, s)) /\ KeysInv(AddHandler(h, s))
<1>1. NewKey(h) \in Keys
    BY NewKeyInKeys
<1>2. IsTable(AddHandler(h, s))
    BY <1>1 DEF AddHandler, IsTable
<1> QED
    BY <1>2, AddHandlerKeys

(* Unsubscribing any set of subscribers keeps the tables.                  *)
LEMMA WithoutTables ==
    ASSUME NEW S, Typed, handlers' = Without(S)
    PROVE  /\ DOMAIN handlers' = Conns
           /\ \A c \in Conns : IsTable(handlers'[c]) /\ KeysInv(handlers'[c])
<1>1. DOMAIN handlers' = Conns
    BY DEF Without
<1>2. ASSUME NEW c \in Conns
      PROVE  IsTable(handlers'[c]) /\ KeysInv(handlers'[c])
    <2> DEFINE K == {k \in DOMAIN handlers[c] :
                        \A s \in S : ~(sub[s].conn = c /\ sub[s].key = k)}
    <2>1. handlers'[c] = [k \in K |-> handlers[c][k]]
        BY DEF Without, Restrict
    <2>2. DOMAIN handlers'[c] \subseteq DOMAIN handlers[c]
        BY <2>1
    <2>3. IsTable(handlers[c]) /\ KeysInv(handlers[c])
        BY DEF Typed, TypeOK, Tables
    <2>4. IsTable(handlers'[c])
        BY <2>1, <2>2, <2>3 DEF IsTable
    <2> QED
        BY <2>2, <2>3, <2>4, SmallerTableKeys
<1> QED
    BY <1>1, <1>2

(* A backlog is a sequence of log indices.                                 *)
LEMMA BacklogType ==
    ASSUME NEW n \in Nat
    PROVE  Backlog(n) \in Seq(Nat) /\ Len(Backlog(n)) = n
BY DEF Backlog

(* A dismissed subscriber keeps its type.                                  *)
LEMMA DismissTypes ==
    ASSUME NEW S, NEW notice \in Notice, Typed, Dismiss(S, notice)
    PROVE  /\ sub' \in [Subs -> SubType]
           /\ DOMAIN handlers' = Conns
           /\ \A c \in Conns : IsTable(handlers'[c]) /\ KeysInv(handlers'[c])
<1>1. ASSUME NEW s \in Subs
      PROVE  [sub[s] EXCEPT !.told = Append(@, notice), !.ref = FALSE] \in SubType
    <2>1. sub[s] \in SubType
        BY DEF Typed, TypeOK
    <2>2. Append(sub[s].told, notice) \in Seq(Notice)
        BY <2>1 DEF SubType
    <2> QED
        BY <2>1, <2>2 DEF SubType
<1>2. sub' \in [Subs -> SubType]
    BY <1>1 DEF Dismiss, Typed, TypeOK
<1> QED
    BY <1>2, WithoutTables DEF Dismiss

-----------------------------------------------------------------------------
(* Type correctness, action by action *)

(* Attach gives the new subscriber a handler and well-typed fields.        *)
LEMMA AttachTypes ==
    ASSUME Typed,
           NEW c \in Conns, NEW s \in Subs, NEW sid \in Sids,
           NEW st \in States, NEW n \in Nat, NEW tm \in Timers, NEW garbage \in Keys,
           Attach(c, s, sid, st, n, tm, garbage)
    PROVE  Typed'
<1> DEFINE refused == st = "not_established"
           table == IF refused \/ Over(st) THEN RemoveHandler(handlers[c], garbage)
                                           ELSE handlers[c]
           entered == IF refused \/ reg[sid][c] # NoOne THEN reg
                      ELSE [reg EXCEPT ![sid][c] = s]
           new == [conn |-> c, sid |-> sid, key |-> NewKey(table), ref |-> TRUE,
                   got  |-> IF refused THEN << >> ELSE Backlog(n),
                   told |-> IF refused THEN <<"not_established">>
                            ELSE IF Over(st) THEN <<"closed">> ELSE << >>]
<1>1. /\ handlers' = [handlers EXCEPT ![c] = AddHandler(table, s)]
      /\ sub' = [sub EXCEPT ![s] = new]
      /\ timer' = [timer EXCEPT ![sid] = tm]
      /\ UNCHANGED <<open, feed, disk, exited>>
      /\ Settle([state EXCEPT ![sid] = st], [logs EXCEPT ![sid] = n], entered)
    BY DEF Attach
<1>2. IsTable(table) /\ KeysInv(table)
    BY RemoveTable DEF Typed, TypeOK, Tables
<1>3. /\ DOMAIN handlers' = Conns
      /\ \A d \in Conns : IsTable(handlers'[d]) /\ KeysInv(handlers'[d])
    <2> HIDE DEF table
    <2>1. IsTable(AddHandler(table, s)) /\ KeysInv(AddHandler(table, s))
        BY <1>2, AddTable
    <2> QED
        BY <1>1, <2>1 DEF Typed, TypeOK, Tables
<1>4. new \in SubType
    <2>1. NewKey(table) \in Keys
        BY <1>2, NewKeyInKeys
    <2>2. Backlog(n) \in Seq(Nat) /\ << >> \in Seq(Nat)
        BY BacklogType
    <2>3. /\ <<"not_established">> \in Seq(Notice)
          /\ <<"closed">> \in Seq(Notice)
          /\ << >> \in Seq(Notice)
        BY DEF Notice
    <2> HIDE DEF table, refused
    <2> QED
        BY <2>1, <2>2, <2>3 DEF SubType
<1>5. sub' \in [Subs -> SubType]
    <2> HIDE DEF new
    <2> QED
        BY <1>1, <1>4 DEF Typed, TypeOK
<1>6. entered \in [Sids -> [Conns -> Subs \cup {NoOne}]]
    BY DEF Typed, TypeOK
<1>7. /\ [state EXCEPT ![sid] = st] \in [Sids -> States]
      /\ [logs EXCEPT ![sid] = n] \in [Sids -> Nat]
      /\ timer' \in [Sids -> Timers]
    BY <1>1 DEF Typed, TypeOK
<1>8. /\ state' \in [Sids -> States]
      /\ logs' \in [Sids -> Nat]
      /\ reg' \in [Sids -> [Conns -> Subs \cup {NoOne}]]
    <2> HIDE DEF entered
    <2> QED
        BY <1>1, <1>6, <1>7, SettleTypes
<1> QED
    BY <1>1, <1>3, <1>5, <1>7, <1>8 DEF Typed, TypeOK, Tables

(* Init establishes the types. *)
LEMMA InitTyped == Init => Typed
<1> SUFFICES ASSUME Init PROVE Typed
    OBVIOUS
<1>1. Unused \in SubType
    BY KeyModAssumption DEF Unused, SubType, Keys
<1>2. KeysInv(EmptyTable) /\ IsTable(EmptyTable)
    BY EmptyTableKeys DEF IsTable, EmptyTable
<1>3. sub \in [Subs -> SubType]
    BY <1>1 DEF Init
<1> QED
    BY <1>2, <1>3, SessionAssumption
    DEF Init, Typed, TypeOK, Tables, States, Timers, NoReg

(* Every step preserves the types. *)
LEMMA NextTyped == Typed /\ [Next]_vars => Typed'
<1> SUFFICES ASSUME Typed, [Next]_vars PROVE Typed'
    OBVIOUS
<1> USE DEF Typed, TypeOK
<1>1. ASSUME NEW c \in Conns, NEW s \in Subs, NEW sid \in Sids, NEW g \in Keys,
             SubscribeExisting(c, s, sid, g)
      PROVE  Typed'
    BY <1>1, AttachTypes DEF SubscribeExisting
<1>2. ASSUME NEW c \in Conns, NEW s \in Subs, NEW sid \in Sids, NEW n \in Indices,
             NEW g \in Keys, SubscribeOffline(c, s, sid, n, g)
      PROVE  Typed'
    BY <1>2, AttachTypes, SessionAssumption DEF SubscribeOffline, Indices, States, Timers
<1>3. ASSUME NEW c \in Conns, NEW s \in Subs, NEW sid \in Sids, SubscribeNew(c, s, sid)
      PROVE  Typed'
    BY <1>3, AttachTypes, KeyModAssumption DEF SubscribeNew, States, Timers, Keys
<1>4. ASSUME NEW c \in Conns, NEW sid \in Sids, Unsubscribe(c, sid)
      PROVE  Typed'
    <2>1. PICK s \in Listeners(sid) : /\ sub' = [sub EXCEPT ![s].ref = FALSE]
                                      /\ handlers' = Without({s})
        BY <1>4 DEF Unsubscribe
    <2>2. sub' \in [Subs -> SubType]
        <3>1. sub[s] \in SubType
            BY <2>1 DEF Listeners
        <3>2. [sub[s] EXCEPT !.ref = FALSE] \in SubType
            BY <3>1 DEF SubType
        <3> QED
            BY <2>1, <3>2
    <2>3. \A d \in Conns : IsTable(handlers'[d]) /\ KeysInv(handlers'[d])
        BY <2>1, WithoutTables
    <2>4. DOMAIN handlers' = Conns
        BY <2>1 DEF Without
    <2>5. Settle(state, logs, reg) /\ UNCHANGED <<timer, open, feed, disk, exited>>
        BY <1>4 DEF Unsubscribe
    <2> QED
        BY <2>2, <2>3, <2>4, <2>5, SettleTypes DEF Tables
<1>5. ASSUME NEW c \in Conns, Disconnect(c)
      PROVE  Typed'
    <2>1. KeysInv(EmptyTable) /\ IsTable(EmptyTable)
        BY EmptyTableKeys DEF IsTable, EmptyTable
    <2> QED
        BY <1>5, <2>1, SettleTypes DEF Disconnect, Tables
<1>6. ASSUME NEW f \in Feeds, NEW sid \in Sids, Connect(f, sid)
      PROVE  Typed'
    <2> DEFINE st == [state EXCEPT ![sid] = IF @ = "offline" THEN @ ELSE "in_progress"]
    <2>1. st \in [Sids -> States]
        BY DEF States
    <2>2. timer' \in [Sids -> Timers]
        BY <1>6 DEF Connect, Timers
    <2>3. Settle(st, logs, reg)
        BY <1>6 DEF Connect
    <2> HIDE DEF st
    <2>4. /\ state' \in [Sids -> States]
          /\ logs' \in [Sids -> Nat]
          /\ reg' \in [Sids -> [Conns -> Subs \cup {NoOne}]]
        BY <2>1, <2>3, SettleTypes
    <2> QED
        BY <1>6, <2>2, <2>4 DEF Connect, Tables
<1>7. ASSUME NEW f \in Feeds, Log(f)
      PROVE  Typed'
    <2> DEFINE sid == feed[f]
               lg == [logs EXCEPT ![sid] = @ + 1]
    <2>1. sid \in Sids /\ logs[sid] \in Nat
        BY <1>7 DEF Log
    <2>2. sub' \in [Subs -> SubType]
        <3>1. ASSUME NEW s \in Subs
              PROVE  [sub[s] EXCEPT !.got = Append(@, logs[sid] + 1)] \in SubType
            <4>1. Append(sub[s].got, logs[sid] + 1) \in Seq(Nat)
                BY <2>1 DEF SubType
            <4> QED
                BY <4>1, ZenonT(60) DEF SubType
        <3> QED
            BY <1>7, <3>1 DEF Log
    <2>3. Settle(state, lg, reg) /\ lg \in [Sids -> Nat]
        BY <1>7, <2>1 DEF Log
    <2> HIDE DEF lg
    <2>4. /\ state' \in [Sids -> States]
          /\ logs' \in [Sids -> Nat]
          /\ reg' \in [Sids -> [Conns -> Subs \cup {NoOne}]]
        BY <2>3, SettleTypes
    <2> QED
        BY <1>7, <2>2, <2>4 DEF Log, Tables
<1>8. ASSUME NEW f \in Feeds, FeedCloses(f)
      PROVE  Typed'
    BY <1>8, SettleTypes DEF FeedCloses, Tables
<1>9. ASSUME NEW sid \in Sids, WriteLogFile(sid)
      PROVE  Typed'
    BY <1>9 DEF WriteLogFile, Tables
<1>10. ASSUME NEW sid \in Sids, Finish(sid)
       PROVE  Typed'
    <2>1. CASE state[sid] \in {"none", "offline"}
        BY <1>10, <2>1 DEF Finish, Tables
    <2>2. CASE state[sid] \notin {"none", "offline"}
        <3> DEFINE st == [state EXCEPT ![sid] = "finished"]
        <3>1. Dismiss(Listeners(sid), "closed") /\ Settle(st, logs, reg)
            BY <1>10, <2>2 DEF Finish
        <3>2. st \in [Sids -> States]
            BY DEF States
        <3> HIDE DEF st
        <3>3. /\ state' \in [Sids -> States]
              /\ logs' \in [Sids -> Nat]
              /\ reg' \in [Sids -> [Conns -> Subs \cup {NoOne}]]
            BY <3>1, <3>2, SettleTypes
        <3>4. "closed" \in Notice
            BY DEF Notice
        <3> QED
            BY <1>10, <3>1, <3>3, <3>4, DismissTypes DEF Finish, Tables
    <2> QED
        BY <2>1, <2>2
<1>11. ASSUME NEW sid \in Sids, TimerExpires(sid)
       PROVE  Typed'
    BY <1>11 DEF TimerExpires, Tables, Timers
<1>12. ASSUME NEW sid \in Sids, OnTimer(sid)
       PROVE  Typed'
    <2>1. timer' \in [Sids -> Timers]
        BY <1>12 DEF OnTimer, Timers
    <2>2. CASE GivesUp(sid)
        <3> DEFINE st == [state EXCEPT ![sid] = "not_established"]
        <3>1. Dismiss(Listeners(sid), "not_established") /\ Settle(st, logs, reg)
            BY <1>12, <2>2 DEF OnTimer
        <3>2. st \in [Sids -> States]
            BY DEF States
        <3> HIDE DEF st
        <3>3. /\ state' \in [Sids -> States]
              /\ logs' \in [Sids -> Nat]
              /\ reg' \in [Sids -> [Conns -> Subs \cup {NoOne}]]
            BY <3>1, <3>2, SettleTypes
        <3>4. "not_established" \in Notice
            BY DEF Notice
        <3> QED
            BY <1>12, <2>1, <3>1, <3>3, <3>4, DismissTypes DEF OnTimer, Tables
    <2>3. CASE ~GivesUp(sid)
        BY <1>12, <2>1, <2>3, SettleTypes DEF OnTimer, Tables
    <2> QED
        BY <2>2, <2>3
<1>13. CASE UNCHANGED vars
    BY <1>13 DEF vars, Tables
<1> QED
    BY <1>1, <1>2, <1>3, <1>4, <1>5, <1>6, <1>7, <1>8, <1>9, <1>10, <1>11, <1>12, <1>13
    DEF Next

(* The state of the session manager, its sessions, subscribers and close    *)
(* handler tables is well typed in every reachable state.                   *)
THEOREM TypeCorrect == Spec => [](TypeOK /\ Tables)
<1>1. Init => Typed
    BY InitTyped
<1>2. Typed /\ [Next]_vars => Typed'
    BY NextTyped
<1> QED
    BY <1>1, <1>2, PTL DEF Spec, Typed

(* websocket_queue never holds more than three close handlers, so no        *)
(* connection has more than three live subscriptions, for any key width.    *)
THEOREM ThreeHandlersAtMost == Spec => []AtMostThree
<1>1. Typed => AtMostThree
    BY KeysAtMostThree DEF Typed, Tables, AtMostThree
<1> QED
    BY <1>1, TypeCorrect, PTL DEF Typed

-----------------------------------------------------------------------------
(* No client misses a log entry *)

(* An entry of subscribers_ names a subscriber of that connection and       *)
(* session; a session that does not exist has no log and no subscribers.    *)
RegInv == \A x \in Sids, c \in Conns :
              reg[x][c] # NoOne => /\ sub[reg[x][c]].conn = c
                                   /\ sub[reg[x][c]].sid = x

NoneIsEmpty == \A x \in Sids : state[x] = "none" => logs[x] = 0 /\ reg[x] = NoReg

(* The session in a feed's context exists.                                  *)
FeedInv == \A f \in Feeds : feed[f] # NoOne => state[feed[f]] # "none"

LogInv == RegInv /\ NoneIsEmpty /\ FeedInv /\ WholeLog

(* Replaying a log and appending its next entry is the longer log.          *)
LEMMA BacklogGrows ==
    /\ Backlog(0) = << >>
    /\ \A n \in Nat : Append(Backlog(n), n + 1) = Backlog(n + 1)
<1>1. Backlog(0) = << >>
    BY DEF Backlog
<1>2. ASSUME NEW n \in Nat
      PROVE  Append(Backlog(n), n + 1) = Backlog(n + 1)
    <2>1. /\ Backlog(n) \in Seq(Nat) /\ Len(Backlog(n)) = n
          /\ Backlog(n + 1) \in Seq(Nat) /\ Len(Backlog(n + 1)) = n + 1
        BY BacklogType
    <2>2. /\ Append(Backlog(n), n + 1) \in Seq(Nat)
          /\ Len(Append(Backlog(n), n + 1)) = n + 1
        BY <2>1
    <2>3. ASSUME NEW i \in 1 .. (n + 1)
          PROVE  Append(Backlog(n), n + 1)[i] = Backlog(n + 1)[i]
        BY <2>1 DEF Backlog
    <2> QED
        BY <2>1, <2>2, <2>3
<1> QED
    BY <1>1, <1>2

(* A session survives a step with what the step gave it, or is destroyed.   *)
LEMMA SettleCases ==
    ASSUME NEW st, NEW lg, NEW rg, Settle(st, lg, rg), NEW x \in Sids
    PROVE  \/ state'[x] = st[x] /\ logs'[x] = lg[x] /\ reg'[x] = rg[x]
           \/ state'[x] = "none" /\ logs'[x] = 0 /\ reg'[x] = NoReg
BY DEF Settle

(* A session some feed uses is not destroyed.                               *)
LEMMA SettleFeed ==
    ASSUME NEW st, NEW lg, NEW rg, Settle(st, lg, rg),
           feed' \in [Feeds -> Sids \cup {NoOne}],
           \A f \in Feeds : feed'[f] # NoOne => st[feed'[f]] # "none"
    PROVE  FeedInv'
<1>1. ASSUME NEW f \in Feeds, feed'[f] # NoOne
      PROVE  state'[feed'[f]] # "none"
    <2>1. feed'[f] \in Sids
        BY <1>1
    <2>2. Held(feed'[f], timer', feed', sub', handlers')
        BY DEF Held
    <2> QED
        BY <1>1, <2>1, <2>2 DEF Settle
<1> QED
    BY <1>1 DEF FeedInv

(* Unsubscribing brings no subscriber back to life.                         *)
LEMMA WithoutLive ==
    ASSUME NEW S, Typed, handlers' = Without(S),
           \A s \in Subs : sub'[s].conn = sub[s].conn,
           NEW s \in Subs, InTable(s, sub', handlers')
    PROVE  Live(s)
<1>1. sub[s].conn \in Conns
    BY DEF InTable, Typed, TypeOK, SubType
<1> QED
    BY <1>1 DEF InTable, Live, Without, Restrict

(* In a step that only lets subscribers disappear, whom a session still     *)
(* reaches it has reached before, and the session survives.                 *)
LEMMA Audience ==
    ASSUME Typed,
           NEW st, NEW lg, Settle(st, lg, reg),
           \A s \in Subs : sub'[s].conn = sub[s].conn,
           \A s \in Subs : InTable(s, sub', handlers') => Live(s),
           NEW x \in Sids, NEW s \in Listeners(x)'
    PROVE  s \in Listeners(x) /\ state'[x] = st[x] /\ logs'[x] = lg[x] /\ reg'[x] = reg[x]
<1>1. s \in Subs /\ InTable(s, sub', handlers') /\ reg'[x][sub'[s].conn] = s
    BY DEF Listeners, Live
<1>2. Live(s) /\ sub[s].conn \in Conns
    <2>1. Live(s) /\ sub[s] \in SubType
        BY <1>1 DEF Typed, TypeOK
    <2> QED
        BY <2>1 DEF Live, InTable, SubType
<1>3. s # NoOne
    BY <1>1, SessionAssumption
<1>4. reg'[x] # NoReg
    BY <1>1, <1>2, <1>3 DEF NoReg
<1>5. state'[x] = st[x] /\ logs'[x] = lg[x] /\ reg'[x] = reg[x]
    BY <1>4, SettleCases
<1> QED
    BY <1>1, <1>2, <1>5 DEF Listeners

(* A step that sends no log entry and lets subscribers and sessions only    *)
(* disappear preserves the invariant.                                       *)
LEMMA QuietStep ==
    ASSUME Typed, LogInv,
           NEW st, Settle(st, logs, reg),
           \A x \in Sids : st[x] = "none" => state[x] = "none",
           \A s \in Subs : /\ sub'[s].conn = sub[s].conn
                           /\ sub'[s].sid = sub[s].sid
                           /\ sub'[s].got = sub[s].got,
           \A s \in Subs : InTable(s, sub', handlers') => Live(s),
           feed' \in [Feeds -> Sids \cup {NoOne}],
           \A f \in Feeds : feed'[f] # NoOne => st[feed'[f]] # "none"
    PROVE  LogInv'
<1>1. \A x \in Sids, c \in Conns : reg'[x][c] # NoOne => reg'[x][c] = reg[x][c]
    BY SettleCases DEF NoReg
<1>2. RegInv'
    <2>1. ASSUME NEW x \in Sids, NEW c \in Conns, reg'[x][c] # NoOne
          PROVE  /\ sub'[reg'[x][c]].conn = c
                 /\ sub'[reg'[x][c]].sid = x
        <3>1. reg[x][c] \in Subs /\ reg'[x][c] = reg[x][c]
            BY <1>1, <2>1 DEF Typed, TypeOK
        <3> QED
            BY <2>1, <3>1 DEF LogInv, RegInv
    <2> QED
        BY <2>1 DEF RegInv
<1>3. NoneIsEmpty'
    BY SettleCases DEF LogInv, NoneIsEmpty
<1>4. \A s \in Subs : sub'[s].got = Backlog(Len(sub'[s].got))
    BY DEF LogInv, WholeLog
<1>5. ASSUME NEW x \in Sids, NEW s \in Listeners(x)'
      PROVE  sub'[s].got = Backlog(logs'[x])
    <2>1. s \in Listeners(x) /\ logs'[x] = logs[x]
        BY <1>5, Audience
    <2> QED
        BY <2>1 DEF Listeners, LogInv, WholeLog
<1>6. WholeLog'
    BY <1>4, <1>5 DEF WholeLog
<1>7. FeedInv'
    BY SettleFeed
<1> QED
    BY <1>2, <1>3, <1>6, <1>7 DEF LogInv

(* Of an attaching step, whoever is alive is the new subscriber, or was     *)
(* alive before.                                                            *)
LEMMA AttachLive ==
    ASSUME Typed,
           NEW c \in Conns, NEW s \in Subs, NEW sid \in Sids,
           NEW st, NEW n, NEW tm, NEW garbage,
           Attach(c, s, sid, st, n, tm, garbage),
           NEW r \in Subs \ {s}, InTable(r, sub', handlers')
    PROVE  Live(r)
<1> DEFINE refused == st = "not_established"
           table == IF refused \/ Over(st) THEN RemoveHandler(handlers[c], garbage)
                                           ELSE handlers[c]
<1>1. handlers' = [handlers EXCEPT ![c] = AddHandler(table, s)]
    BY DEF Attach
<1>2. sub'[r] = sub[r] /\ sub[r] \in SubType
    BY DEF Attach, Typed, TypeOK
<1>3. sub[r].conn \in Conns
    BY <1>2 DEF InTable, SubType
<1>4. PICK k \in DOMAIN handlers'[sub[r].conn] : handlers'[sub[r].conn][k] = r
    BY <1>2 DEF InTable
<1>5. CASE sub[r].conn # c
    BY <1>1, <1>3, <1>4, <1>5, SessionAssumption DEF Live, InTable, Typed, TypeOK
<1>6. CASE sub[r].conn = c
    <2>1. handlers'[c] = AddHandler(table, s)
        BY <1>1 DEF Typed, TypeOK
    <2>2. k \in DOMAIN table /\ table[k] = r
        <3> HIDE DEF table
        <3> QED
            BY <1>4, <1>6, <2>1 DEF AddHandler
    <2>3. k \in DOMAIN handlers[c] /\ handlers[c][k] = r
        BY <2>2 DEF RemoveHandler, Restrict
    <2> QED
        BY <1>3, <1>6, <2>3, SessionAssumption DEF Live, InTable
<1> QED
    BY <1>5, <1>6

(* Of an attaching step, whom a session reaches is the new subscriber of    *)
(* that session, or was reached before.                                     *)
LEMMA AttachAudience ==
    ASSUME Typed, LogInv,
           NEW c \in Conns, NEW s \in Subs, NEW sid \in Sids,
           NEW st, NEW n, NEW tm, NEW garbage,
           sub[s] = Unused,
           Attach(c, s, sid, st, n, tm, garbage),
           NEW x \in Sids, NEW r \in Listeners(x)'
    PROVE  /\ state'[x] = [state EXCEPT ![sid] = st][x]
           /\ logs'[x] = [logs EXCEPT ![sid] = n][x]
           /\ \/ r = s /\ x = sid /\ st # "not_established"
              \/ r # s /\ r \in Listeners(x)
<1> DEFINE refused == st = "not_established"
           entered == IF refused \/ reg[sid][c] # NoOne THEN reg
                      ELSE [reg EXCEPT ![sid][c] = s]
           st1 == [state EXCEPT ![sid] = st]
           lg1 == [logs EXCEPT ![sid] = n]
<1>1. Settle(st1, lg1, entered)
    BY DEF Attach
<1>2. /\ sub'[s].conn = c
      /\ \A q \in Subs \ {s} : sub'[q] = sub[q]
    BY DEF Attach, Typed, TypeOK
<1>3. \A y \in Sids, d \in Conns : reg[y][d] # s
    BY SessionAssumption DEF LogInv, RegInv, Unused
<1>4. \A y \in Sids, d \in Conns :
          \/ entered[y][d] = reg[y][d]
          \/ y = sid /\ d = c /\ entered[y][d] = s /\ ~refused
    BY DEF Typed, TypeOK
<1>5. /\ r \in Subs /\ r # NoOne
      /\ InTable(r, sub', handlers')
      /\ reg'[x][sub'[r].conn] = r
    BY SessionAssumption DEF Listeners, Live
<1>6. sub'[r].conn \in Conns /\ (r # s => sub[r].conn \in Conns)
    <2>1. r # s => sub'[r] = sub[r] /\ sub[r] \in SubType
        BY <1>2, <1>5 DEF Typed, TypeOK
    <2> QED
        BY <1>2, <1>5, <2>1 DEF InTable, SubType
<1>7. reg'[x] # NoReg
    BY <1>5, <1>6 DEF NoReg
<1>8. state'[x] = st1[x] /\ logs'[x] = lg1[x] /\ reg'[x] = entered[x]
    <2> HIDE DEF st1, lg1, entered
    <2> QED
        BY <1>1, <1>7, SettleCases
<1>9. CASE r = s
    BY <1>2, <1>3, <1>4, <1>5, <1>8, <1>9
<1>10. CASE r # s
    <2>1. sub'[r] = sub[r]
        BY <1>2, <1>5, <1>10
    <2>2. reg[x][sub[r].conn] = r
        BY <1>4, <1>5, <1>6, <1>8, <1>10, <2>1
    <2>3. Live(r)
        BY <1>5, <1>10, AttachLive
    <2> QED
        BY <1>5, <1>8, <1>10, <2>2, <2>3 DEF Listeners
<1> QED
    BY <1>8, <1>9, <1>10

(* Attaching a new subscriber: it starts with the whole log of its session. *)
LEMMA AttachLog ==
    ASSUME Typed, LogInv,
           NEW c \in Conns, NEW s \in Subs, NEW sid \in Sids,
           NEW st \in States, NEW n \in Nat, NEW tm \in Timers, NEW garbage \in Keys,
           sub[s] = Unused,
           st # "none",
           n = logs[sid] \/ state[sid] = "none",
           Attach(c, s, sid, st, n, tm, garbage)
    PROVE  LogInv'
<1> DEFINE refused == st = "not_established"
           table == IF refused \/ Over(st) THEN RemoveHandler(handlers[c], garbage)
                                           ELSE handlers[c]
           entered == IF refused \/ reg[sid][c] # NoOne THEN reg
                      ELSE [reg EXCEPT ![sid][c] = s]
           st1 == [state EXCEPT ![sid] = st]
           lg1 == [logs EXCEPT ![sid] = n]
<1>1. /\ handlers' = [handlers EXCEPT ![c] = AddHandler(table, s)]
      /\ Settle(st1, lg1, entered)
    BY DEF Attach
<1>2. /\ sub'[s].conn = c /\ sub'[s].sid = sid
      /\ sub'[s].got = IF refused THEN << >> ELSE Backlog(n)
      /\ \A r \in Subs \ {s} : sub'[r] = sub[r]
    BY DEF Attach, Typed, TypeOK
<1>3. \A x \in Sids, d \in Conns : reg[x][d] # s
    BY SessionAssumption DEF LogInv, RegInv, Unused
<1>4. \A x \in Sids, d \in Conns :
          \/ entered[x][d] = reg[x][d]
          \/ x = sid /\ d = c /\ entered[x][d] = s /\ ~refused
    BY DEF Typed, TypeOK
<1>5. \A x \in Sids, d \in Conns : reg'[x][d] # NoOne => reg'[x][d] = entered[x][d]
    <2> HIDE DEF st1, lg1, entered
    <2> QED
        BY <1>1, SettleCases DEF NoReg
<1>6. RegInv'
    <2>1. ASSUME NEW x \in Sids, NEW d \in Conns, reg'[x][d] # NoOne
          PROVE  /\ sub'[reg'[x][d]].conn = d
                 /\ sub'[reg'[x][d]].sid = x
        <3>1. CASE x = sid /\ d = c /\ entered[x][d] = s
            BY <1>2, <1>5, <2>1, <3>1
        <3>2. CASE entered[x][d] = reg[x][d]
            <4>1. reg'[x][d] = reg[x][d] /\ reg[x][d] \in Subs \ {s}
                BY <1>3, <1>5, <2>1, <3>2 DEF Typed, TypeOK
            <4> QED
                BY <1>2, <2>1, <4>1 DEF LogInv, RegInv
        <3> QED
            BY <1>4, <3>1, <3>2
    <2> QED
        BY <2>1 DEF RegInv
<1>7. NoneIsEmpty'
    <2>1. ASSUME NEW x \in Sids, state'[x] = "none"
          PROVE  logs'[x] = 0 /\ reg'[x] = NoReg
        <3>1. CASE x = sid
            <4>1. st1[x] # "none"
                BY <3>1 DEF Typed, TypeOK
            <4> HIDE DEF st1, lg1, entered
            <4> QED
                BY <1>1, <2>1, <4>1, SettleCases
        <3>2. CASE x # sid
            <4>1. st1[x] = state[x] /\ lg1[x] = logs[x] /\ entered[x] = reg[x]
                BY <3>2 DEF Typed, TypeOK
            <4> HIDE DEF st1, lg1, entered
            <4> QED
                BY <1>1, <2>1, <4>1, SettleCases DEF LogInv, NoneIsEmpty
        <3> QED
            BY <3>1, <3>2
    <2> QED
        BY <2>1 DEF NoneIsEmpty
<1>8. \A r \in Subs : sub'[r].got = Backlog(Len(sub'[r].got))
    <2>1. sub'[s].got = Backlog(Len(sub'[s].got))
        BY <1>2, BacklogType, BacklogGrows
    <2> QED
        BY <1>2, <2>1 DEF LogInv, WholeLog
<1>9. ASSUME NEW x \in Sids, NEW r \in Listeners(x)'
      PROVE  sub'[r].got = Backlog(logs'[x])
    <2>1. /\ logs'[x] = lg1[x]
          /\ \/ r = s /\ x = sid /\ ~refused
             \/ r # s /\ r \in Listeners(x)
        BY <1>9, AttachAudience
    <2>2. lg1[sid] = n
        BY DEF Typed, TypeOK
    <2>3. CASE r = s
        BY <1>2, <2>1, <2>2, <2>3
    <2>4. CASE r # s
        <3>1. sub'[r] = sub[r] /\ reg[x] # NoReg
            BY <1>2, <2>1, <2>4, SessionAssumption DEF Listeners, Live, InTable, NoReg,
                                                       Typed, TypeOK, SubType
        <3>2. lg1[x] = logs[x]
            BY <3>1 DEF LogInv, NoneIsEmpty, Typed, TypeOK
        <3> QED
            BY <2>1, <2>4, <3>1, <3>2 DEF LogInv, WholeLog
    <2> QED
        BY <2>3, <2>4
<1>10. WholeLog'
    BY <1>8, <1>9 DEF WholeLog
<1>11. FeedInv'
    <2>1. feed' = feed
        BY DEF Attach
    <2>2. \A f \in Feeds : feed'[f] # NoOne => st1[feed'[f]] # "none"
        BY <2>1 DEF LogInv, FeedInv, Typed, TypeOK
    <2>3. feed' \in [Feeds -> Sids \cup {NoOne}]
        BY <2>1 DEF Typed, TypeOK
    <2> HIDE DEF st1, lg1, entered
    <2> QED
        BY <1>1, <2>2, <2>3, SettleFeed
<1> QED
    BY <1>6, <1>7, <1>10, <1>11 DEF LogInv

(* session::log: every listener had the whole log and gets the next entry.  *)
LEMMA LogLog ==
    ASSUME Typed, LogInv, NEW f \in Feeds, Log(f)
    PROVE  LogInv'
<1> DEFINE sid == feed[f]
           lg1 == [logs EXCEPT ![sid] = @ + 1]
<1>1. sid \in Sids /\ logs[sid] \in Nat
    BY DEF Log, Typed, TypeOK
<1>2. /\ Settle(state, lg1, reg)
      /\ handlers' = handlers
      /\ timer' = timer /\ feed' = feed
    BY DEF Log
<1>3. \A s \in Subs : /\ sub'[s].conn = sub[s].conn
                      /\ sub'[s].sid = sub[s].sid
    BY DEF Log, Typed, TypeOK, SubType
<1>4. \A s \in Subs : sub'[s].got = IF s \in Listeners(sid)
                                    THEN Append(sub[s].got, logs[sid] + 1)
                                    ELSE sub[s].got
    BY DEF Log, Typed, TypeOK, SubType
<1>5. \A x \in Sids, c \in Conns : reg'[x][c] # NoOne => reg'[x][c] = reg[x][c]
    <2> HIDE DEF lg1
    <2> QED
        BY <1>2, SettleCases DEF NoReg
<1>6. RegInv'
    <2>1. ASSUME NEW x \in Sids, NEW c \in Conns, reg'[x][c] # NoOne
          PROVE  /\ sub'[reg'[x][c]].conn = c
                 /\ sub'[reg'[x][c]].sid = x
        <3>1. reg[x][c] \in Subs /\ reg'[x][c] = reg[x][c]
            BY <1>5, <2>1 DEF Typed, TypeOK
        <3> QED
            BY <1>3, <2>1, <3>1 DEF LogInv, RegInv
    <2> QED
        BY <2>1 DEF RegInv
<1>7. NoneIsEmpty'
    <2>1. ASSUME NEW x \in Sids, state'[x] = "none"
          PROVE  logs'[x] = 0 /\ reg'[x] = NoReg
        <3>1. Held(sid, timer', feed', sub', handlers')
            BY <1>1, <1>2 DEF Held
        <3>2. state'[sid] = state[sid] /\ logs'[sid] = logs[sid] + 1 /\ reg'[sid] = reg[sid]
            BY <1>1, <1>2, <3>1 DEF Settle, Typed, TypeOK
        <3>3. CASE x = sid
            BY <2>1, <3>2, <3>3 DEF LogInv, FeedInv, Log
        <3>4. CASE x # sid
            <4>1. lg1[x] = logs[x]
                BY <3>4 DEF Typed, TypeOK
            <4> HIDE DEF lg1
            <4> QED
                BY <1>2, <2>1, <4>1, SettleCases DEF LogInv, NoneIsEmpty
        <3> QED
            BY <3>3, <3>4
    <2> QED
        BY <2>1 DEF NoneIsEmpty
<1>8. \A s \in Subs : sub'[s].got = Backlog(Len(sub'[s].got))
    <2>1. ASSUME NEW s \in Listeners(sid)
          PROVE  sub'[s].got = Backlog(logs[sid] + 1)
        BY <1>1, <1>4, BacklogGrows DEF LogInv, WholeLog, Listeners
    <2>2. Len(Backlog(logs[sid] + 1)) = logs[sid] + 1
        BY <1>1, BacklogType
    <2>3. ASSUME NEW s \in Subs
          PROVE  sub'[s].got = Backlog(Len(sub'[s].got))
        <3>1. CASE s \in Listeners(sid)
            BY <2>1, <2>2, <3>1
        <3>2. CASE s \notin Listeners(sid)
            BY <1>4, <3>2 DEF LogInv, WholeLog
        <3> QED
            BY <3>1, <3>2
    <2> QED
        BY <2>3
<1>9. ASSUME NEW x \in Sids, NEW s \in Listeners(x)'
      PROVE  sub'[s].got = Backlog(logs'[x])
    <2>1. /\ s \in Subs /\ s # NoOne
          /\ InTable(s, sub', handlers)
          /\ reg'[x][sub'[s].conn] = s
        BY <1>2, <1>9, SessionAssumption DEF Listeners, Live
    <2>2. Live(s) /\ sub[s].conn \in Conns
        <3>1. Live(s) /\ sub[s] \in SubType
            BY <1>3, <2>1 DEF InTable, Live, Typed, TypeOK
        <3> QED
            BY <3>1 DEF Live, InTable, SubType
    <2>3. reg[x][sub[s].conn] = s /\ reg'[x] # NoReg
        BY <1>3, <1>5, <2>1, <2>2 DEF NoReg
    <2>4. s \in Listeners(x) /\ sub[s].sid = x
        BY <2>1, <2>2, <2>3 DEF Listeners, LogInv, RegInv
    <2>5. logs'[x] = lg1[x]
        <3> HIDE DEF lg1
        <3> QED
            BY <1>2, <2>3, SettleCases
    <2>6. CASE x = sid
        <3>1. logs'[x] = logs[sid] + 1
            BY <1>1, <2>5, <2>6 DEF Typed, TypeOK
        <3> QED
            BY <1>1, <1>4, <2>1, <2>4, <2>6, <3>1, BacklogGrows DEF LogInv, WholeLog
    <2>7. CASE x # sid
        <3>1. logs'[x] = logs[x]
            BY <2>5, <2>7 DEF Typed, TypeOK
        <3>2. s \notin Listeners(sid)
            BY <1>1, <2>1, <2>2, <2>4, <2>7 DEF Listeners, LogInv, RegInv
        <3> QED
            BY <1>4, <2>1, <2>4, <3>1, <3>2 DEF LogInv, WholeLog
    <2> QED
        BY <2>6, <2>7
<1>10. WholeLog'
    BY <1>8, <1>9 DEF WholeLog
<1>11. FeedInv'
    <2>1. feed' \in [Feeds -> Sids \cup {NoOne}]
        BY <1>2 DEF Typed, TypeOK
    <2>2. \A g \in Feeds : feed'[g] # NoOne => state[feed'[g]] # "none"
        BY <1>2 DEF LogInv, FeedInv
    <2> HIDE DEF lg1
    <2> QED
        BY <1>2, <2>1, <2>2, SettleFeed
<1> QED
    BY <1>6, <1>7, <1>10, <1>11 DEF LogInv

(* Every step preserves the log invariant. *)
LEMMA NextLog == Typed /\ LogInv /\ [Next]_vars => LogInv'
<1> SUFFICES ASSUME Typed, LogInv, [Next]_vars PROVE LogInv'
    OBVIOUS
<1>0. Typed'
    BY NextTyped
<1>1. ASSUME NEW c \in Conns, NEW s \in Subs, NEW sid \in Sids, NEW g \in Keys,
             SubscribeExisting(c, s, sid, g)
      PROVE  LogInv'
    <2>1. state[sid] \in States /\ logs[sid] \in Nat /\ timer[sid] \in Timers
        BY DEF Typed, TypeOK
    <2> QED
        BY <1>1, <2>1, AttachLog DEF SubscribeExisting, Fresh
<1>2. ASSUME NEW c \in Conns, NEW s \in Subs, NEW sid \in Sids, NEW n \in Indices,
             NEW g \in Keys, SubscribeOffline(c, s, sid, n, g)
      PROVE  LogInv'
    <2>1. "offline" \in States /\ "none" \in Timers /\ n \in Nat
        BY SessionAssumption DEF States, Timers, Indices
    <2>2. sub[s] = Unused /\ state[sid] = "none" /\ Attach(c, s, sid, "offline", n, "none", g)
        BY <1>2 DEF SubscribeOffline, Fresh
    <2> QED
        BY <2>1, <2>2, AttachLog
<1>3. ASSUME NEW c \in Conns, NEW s \in Subs, NEW sid \in Sids, SubscribeNew(c, s, sid)
      PROVE  LogInv'
    <2>1. "pending" \in States /\ "waiting" \in Timers /\ 0 \in Keys
        BY KeyModAssumption DEF States, Timers, Keys
    <2>2. sub[s] = Unused /\ state[sid] = "none" /\ Attach(c, s, sid, "pending", 0, "waiting", 0)
        BY <1>3 DEF SubscribeNew, Fresh
    <2> QED
        BY <2>1, <2>2, AttachLog
<1>4. ASSUME NEW c \in Conns, NEW sid \in Sids, Unsubscribe(c, sid)
      PROVE  LogInv'
    <2>1. PICK s \in Listeners(sid) : /\ sub' = [sub EXCEPT ![s].ref = FALSE]
                                      /\ handlers' = Without({s})
        BY <1>4 DEF Unsubscribe
    <2>2. \A r \in Subs : /\ sub'[r].conn = sub[r].conn
                          /\ sub'[r].sid = sub[r].sid
                          /\ sub'[r].got = sub[r].got
        BY <2>1 DEF Typed, TypeOK, SubType
    <2>3. \A r \in Subs : InTable(r, sub', handlers') => Live(r)
        BY <2>1, <2>2, WithoutLive
    <2>4. Settle(state, logs, reg) /\ feed' = feed
        BY <1>4 DEF Unsubscribe
    <2> QED
        BY <2>2, <2>3, <2>4, QuietStep DEF LogInv, FeedInv, Typed, TypeOK
<1>5. ASSUME NEW c \in Conns, Disconnect(c)
      PROVE  LogInv'
    <2>1. Settle(state, logs, reg) /\ feed' = feed /\ sub' = sub
        BY <1>5 DEF Disconnect
    <2>2. \A r \in Subs : InTable(r, sub', handlers') => Live(r)
        BY <1>5 DEF Disconnect, InTable, Live, Typed, TypeOK, EmptyTable
    <2> QED
        BY <2>1, <2>2, QuietStep DEF LogInv, FeedInv, Typed, TypeOK
<1>6. ASSUME NEW f \in Feeds, NEW sid \in Sids, Connect(f, sid)
      PROVE  LogInv'
    <2> DEFINE st == [state EXCEPT ![sid] = IF @ = "offline" THEN @ ELSE "in_progress"]
    <2>1. Settle(st, logs, reg) /\ sub' = sub /\ handlers' = handlers
        BY <1>6 DEF Connect
    <2>2. feed' \in [Feeds -> Sids \cup {NoOne}]
        BY <1>0 DEF Typed, TypeOK
    <2>3. \A g \in Feeds : feed'[g] # NoOne => st[feed'[g]] # "none"
        BY <1>6 DEF Connect, LogInv, FeedInv, Typed, TypeOK
    <2>4. \A x \in Sids : st[x] = "none" => state[x] = "none"
        BY DEF Typed, TypeOK
    <2> HIDE DEF st
    <2> QED
        BY <2>1, <2>2, <2>3, <2>4, QuietStep DEF Live
<1>7. ASSUME NEW f \in Feeds, Log(f)
      PROVE  LogInv'
    BY <1>7, LogLog
<1>8. ASSUME NEW f \in Feeds, FeedCloses(f)
      PROVE  LogInv'
    <2>1. Settle(state, logs, reg) /\ sub' = sub /\ handlers' = handlers
        BY <1>8 DEF FeedCloses
    <2>2. feed' \in [Feeds -> Sids \cup {NoOne}]
        BY <1>0 DEF Typed, TypeOK
    <2>3. \A g \in Feeds : feed'[g] # NoOne => state[feed'[g]] # "none"
        BY <1>8 DEF FeedCloses, LogInv, FeedInv, Typed, TypeOK
    <2> QED
        BY <2>1, <2>2, <2>3, QuietStep DEF Live
<1>9. ASSUME NEW sid \in Sids, WriteLogFile(sid)
      PROVE  LogInv'
    BY <1>9 DEF WriteLogFile, LogInv, RegInv, NoneIsEmpty, FeedInv, WholeLog,
                Listeners, Live, InTable
<1>10. ASSUME NEW S, NEW notice \in Notice, NEW sid \in Sids, NEW t \in States \ {"none"},
              Dismiss(S, notice), Settle([state EXCEPT ![sid] = t], logs, reg), feed' = feed
       PROVE  LogInv'
    <2> DEFINE st == [state EXCEPT ![sid] = t]
    <2>1. \A r \in Subs : /\ sub'[r].conn = sub[r].conn
                          /\ sub'[r].sid = sub[r].sid
                          /\ sub'[r].got = sub[r].got
        BY <1>10 DEF Dismiss, Typed, TypeOK, SubType
    <2>2. \A r \in Subs : InTable(r, sub', handlers') => Live(r)
        BY <1>10, <2>1, WithoutLive DEF Dismiss
    <2>3. \A x \in Sids : st[x] = "none" => state[x] = "none"
        BY <1>10 DEF Typed, TypeOK
    <2>4. Settle(st, logs, reg)
        BY <1>10
    <2>5. /\ feed' \in [Feeds -> Sids \cup {NoOne}]
          /\ \A g \in Feeds : feed'[g] # NoOne => st[feed'[g]] # "none"
        BY <1>10, <2>3 DEF LogInv, FeedInv, Typed, TypeOK
    <2> HIDE DEF st
    <2> QED
        BY <2>1, <2>2, <2>3, <2>4, <2>5, QuietStep
<1>11. ASSUME NEW sid \in Sids, Finish(sid)
       PROVE  LogInv'
    <2>1. CASE state[sid] \in {"none", "offline"}
        BY <1>11, <2>1 DEF Finish, LogInv, RegInv, NoneIsEmpty, FeedInv, WholeLog,
                           Listeners, Live, InTable
    <2>2. CASE state[sid] \notin {"none", "offline"}
        BY <1>10, <1>11, <2>2 DEF Finish, Notice, States
    <2> QED
        BY <2>1, <2>2
<1>12. ASSUME NEW sid \in Sids, TimerExpires(sid)
       PROVE  LogInv'
    BY <1>12 DEF TimerExpires, LogInv, RegInv, NoneIsEmpty, FeedInv, WholeLog,
                 Listeners, Live, InTable
<1>13. ASSUME NEW sid \in Sids, OnTimer(sid)
       PROVE  LogInv'
    <2>1. CASE GivesUp(sid)
        BY <1>10, <1>13, <2>1 DEF OnTimer, Notice, States
    <2>2. CASE ~GivesUp(sid)
        <3>1. /\ Settle(state, logs, reg)
              /\ sub' = sub /\ handlers' = handlers /\ feed' = feed
            BY <1>13, <2>2 DEF OnTimer
        <3> QED
            BY <3>1, QuietStep DEF Live, LogInv, FeedInv, Typed, TypeOK
    <2> QED
        BY <2>1, <2>2
<1>14. CASE UNCHANGED vars
    BY <1>14 DEF vars, LogInv, RegInv, NoneIsEmpty, FeedInv, WholeLog,
                 Listeners, Live, InTable
<1> QED
    BY <1>1, <1>2, <1>3, <1>4, <1>5, <1>6, <1>7, <1>8, <1>9, <1>11, <1>12, <1>13, <1>14
    DEF Next

(* Init establishes the log invariant. *)
LEMMA InitLog == Init => LogInv
<1> SUFFICES ASSUME Init PROVE LogInv
    OBVIOUS
<1>1. \A s \in Subs : sub[s].got = Backlog(Len(sub[s].got))
    BY BacklogGrows DEF Init, Unused
<1>2. \A x \in Sids : Listeners(x) = {}
    BY DEF Init, Listeners, Live, InTable, Unused
<1> QED
    BY <1>1, <1>2 DEF Init, LogInv, RegInv, NoneIsEmpty, FeedInv, WholeLog, NoReg

(* What session::subscribe replays and session::log fans out add up, for    *)
(* every client, to a gap-free prefix of the session's log, and to all of   *)
(* it while the session reaches the client.                                 *)
THEOREM NoLogIsMissed == Spec => []WholeLog
<1>1. Init => Typed /\ LogInv
    BY InitTyped, InitLog
<1>2. (Typed /\ LogInv) /\ [Next]_vars => (Typed /\ LogInv)'
    BY NextTyped, NextLog
<1>3. LogInv => WholeLog
    BY DEF LogInv
<1> QED
    BY <1>1, <1>2, <1>3, PTL DEF Spec

-----------------------------------------------------------------------------
(* What the clients of Session are told, and that Session implements       *)
(* LogFeed.                                                                *)

(* A close handler is entered under the key that its subscriber knows, in  *)
(* the table of its connection, and holds the session.                     *)
OwnHandlers ==
    \A c \in Conns : \A k \in DOMAIN handlers[c] :
        LET s == handlers[c][k]
        IN  sub[s].conn = c /\ sub[s].key = k /\ sub[s].ref

(* A session that nobody holds does not exist. *)
Settled ==
    \A x \in Sids :
        \/ Held(x, timer, feed, sub, handlers)
        \/ state[x] = "none" /\ logs[x] = 0 /\ reg[x] = NoReg

Closed == <<"closed">>
NotEstablished == <<"not_established">>

(* A client hears at most one notice, and none of a log that it was told   *)
(* is not established. *)
OneNotice ==
    \A s \in Subs :
        /\ sub[s].told \in {<< >>, Closed, NotEstablished}
        /\ sub[s].told = NotEstablished => sub[s].got = << >>

(* Whom a session reaches has heard that it is over if it is, or was, over *)
(* for good; a session that was given up reaches nobody.                   *)
Reached(told, st, over) ==
    /\ told # NotEstablished
    /\ Over(st) => told = Closed
    /\ st # "not_established"
    /\ told = Closed => st = "offline" \/ (over /\ st # "pending")

ServedInv ==
    \A x \in Sids : \A s \in Listeners(x) : Reached(sub[s].told, state[x], x \in exited)

(* A pending session has no log and no feed, a finished one had a job.     *)
StateInv ==
    /\ \A x \in Sids : state[x] = "finished" => x \in exited
    /\ \A x \in Sids : state[x] = "pending" => logs[x] = 0
    /\ \A f \in Feeds : feed[f] # NoOne => state[feed[f]] \notin {"pending", "not_established"}

ToldInv == OneNotice /\ ServedInv /\ StateInv

HoldInv == OwnHandlers /\ Settled

-----------------------------------------------------------------------------
(* Who holds what *)

(* Every step that ends in Settle leaves no session without a holder.      *)
LEMMA SettleSettled ==
    ASSUME NEW st, NEW lg, NEW rg, Settle(st, lg, rg)
    PROVE  Settled'
BY DEF Settle, Settled

(* A subscriber whose close handler is removed is gone.                    *)
LEMMA WithoutGone ==
    ASSUME Typed, OwnHandlers, NEW S \in SUBSET Subs, handlers' = Without(S),
           NEW s \in S, sub'[s].conn = sub[s].conn
    PROVE  ~InTable(s, sub', handlers')
<1> SUFFICES ASSUME InTable(s, sub', handlers') PROVE FALSE
    OBVIOUS
<1> DEFINE c == sub[s].conn
<1>1. c \in Conns
    BY DEF InTable, Typed, TypeOK, SubType
<1>2. PICK k \in DOMAIN handlers'[c] : handlers'[c][k] = s
    BY DEF InTable
<1>3. /\ k \in DOMAIN handlers[c] /\ handlers[c][k] = s
      /\ ~(sub[s].conn = c /\ sub[s].key = k)
    BY <1>1, <1>2 DEF Without, Restrict
<1> QED
    BY <1>1, <1>3 DEF OwnHandlers

(* Removing the close handlers of all who lose their session, and perhaps  *)
(* more, keeps the others'.                                                *)
LEMMA SmallerOwn ==
    ASSUME Typed, OwnHandlers,
           DOMAIN handlers' = Conns,
           \A c \in Conns : \A k \in DOMAIN handlers'[c] :
               k \in DOMAIN handlers[c] /\ handlers'[c][k] = handlers[c][k],
           \A s \in Subs : sub'[s].conn = sub[s].conn /\ sub'[s].key = sub[s].key,
           \A s \in Subs : InTable(s, sub', handlers') => sub'[s].ref = sub[s].ref
    PROVE  OwnHandlers'
<1> SUFFICES ASSUME NEW c \in Conns, NEW k \in DOMAIN handlers'[c]
             PROVE  /\ sub'[handlers'[c][k]].conn = c
                    /\ sub'[handlers'[c][k]].key = k
                    /\ sub'[handlers'[c][k]].ref
    BY DEF OwnHandlers
<1> DEFINE s == handlers'[c][k]
<1>1. k \in DOMAIN handlers[c] /\ s = handlers[c][k]
    OBVIOUS
<1>2. s \in Subs
    <2>1. IsTable(handlers[c])
        BY DEF Typed, TypeOK
    <2> QED
        BY <1>1, <2>1 DEF IsTable
<1>3. sub[s].conn = c /\ sub[s].key = k /\ sub[s].ref
    BY <1>1 DEF OwnHandlers
<1>4. InTable(s, sub', handlers')
    BY <1>2, <1>3, SessionAssumption DEF InTable
<1>5. sub'[s].conn = sub[s].conn /\ sub'[s].key = sub[s].key /\ sub'[s].ref = sub[s].ref
    BY <1>2, <1>4
<1>6. sub'[s].conn = c /\ sub'[s].key = k /\ sub'[s].ref
    BY <1>3, <1>5, Zenon
<1> QED
    BY <1>6

(* What unsubscribe leaves of the tables. *)
LEMMA WithoutSmaller ==
    ASSUME Typed, NEW S, handlers' = Without(S)
    PROVE  /\ DOMAIN handlers' = Conns
           /\ \A c \in Conns : \A k \in DOMAIN handlers'[c] :
                  k \in DOMAIN handlers[c] /\ handlers'[c][k] = handlers[c][k]
BY DEF Without, Restrict

(* A notice, too, keeps the handlers of the others. *)
LEMMA DismissOwn ==
    ASSUME Typed, OwnHandlers, NEW S \in SUBSET Subs, NEW notice, Dismiss(S, notice)
    PROVE  OwnHandlers'
<1>1. \A s \in Subs : sub'[s].conn = sub[s].conn /\ sub'[s].key = sub[s].key
    BY DEF Dismiss, Typed, TypeOK, SubType
<1>2. \A s \in Subs \ S : sub'[s] = sub[s]
    BY DEF Dismiss
<1>3. handlers' = Without(S)
    BY DEF Dismiss
<1>4. \A s \in Subs : InTable(s, sub', handlers') => sub'[s].ref = sub[s].ref
    BY <1>1, <1>2, <1>3, WithoutGone
<1> QED
    BY <1>1, <1>3, <1>4, WithoutSmaller, SmallerOwn

(* The handler of a new subscriber is its own, if it is entered at all.    *)
LEMMA AttachOwn ==
    ASSUME Typed, OwnHandlers,
           NEW c \in Conns, NEW s \in Subs, NEW sid \in Sids,
           NEW st, NEW n, NEW tm, NEW garbage,
           sub[s] = Unused,
           Attach(c, s, sid, st, n, tm, garbage)
    PROVE  OwnHandlers'
<1> DEFINE refused == st = "not_established"
           table == IF refused \/ Over(st) THEN RemoveHandler(handlers[c], garbage)
                                           ELSE handlers[c]
<1>1. handlers' = [handlers EXCEPT ![c] = AddHandler(table, s)]
    BY DEF Attach
<1>2. /\ sub'[s].conn = c /\ sub'[s].key = NewKey(table) /\ sub'[s].ref
      /\ \A r \in Subs \ {s} : sub'[r] = sub[r]
    <2> HIDE DEF table
    <2> QED
        BY DEF Attach, Typed, TypeOK, table
<1>3. \A k \in DOMAIN table : k \in DOMAIN handlers[c] /\ table[k] = handlers[c][k]
    BY DEF RemoveHandler, Restrict
<1> HIDE DEF table
<1>4. ASSUME NEW d \in Conns, NEW k \in DOMAIN handlers[d]
      PROVE  LET r == handlers[d][k]
             IN  r \in Subs \ {s} /\ sub'[r].conn = d /\ sub'[r].key = k /\ sub'[r].ref
    <2> DEFINE r == handlers[d][k]
    <2>1. r \in Subs
        <3>1. IsTable(handlers[d])
            BY DEF Typed, TypeOK
        <3> QED
            BY <3>1 DEF IsTable
    <2>2. sub[r].conn = d /\ sub[r].key = k /\ sub[r].ref
        BY DEF OwnHandlers
    <2>3. r # s
        BY <2>2, SessionAssumption DEF Unused
    <2> HIDE DEF r
    <2>4. sub'[r] = sub[r]
        BY <1>2, <2>1, <2>3
    <2> QED
        BY <2>1, <2>2, <2>3, <2>4 DEF r
<1>5. ASSUME NEW d \in Conns, NEW k \in DOMAIN handlers'[d]
      PROVE  LET r == handlers'[d][k] IN sub'[r].conn = d /\ sub'[r].key = k /\ sub'[r].ref
    <2>1. CASE d # c
        <3>1. handlers'[d] = handlers[d]
            BY <1>1, <2>1 DEF Typed, TypeOK
        <3> QED
            BY <1>4, <3>1
    <2>2. CASE d = c
        <3>1. handlers'[d] = AddHandler(table, s)
            BY <1>1, <2>2 DEF Typed, TypeOK
        <3>2. CASE k \in DOMAIN table
            <4>1. k \in DOMAIN handlers[d] /\ handlers'[d][k] = handlers[d][k]
                BY <1>3, <2>2, <3>1, <3>2 DEF AddHandler
            <4> QED
                BY <1>4, <4>1
        <3>3. CASE k \notin DOMAIN table
            <4>1. k = NewKey(table) /\ handlers'[d][k] = s
                BY <3>1, <3>3 DEF AddHandler
            <4> QED
                BY <1>2, <2>2, <4>1
        <3> QED
            BY <3>2, <3>3
    <2> QED
        BY <2>1, <2>2
<1> QED
    BY <1>5 DEF OwnHandlers

(* Every step preserves that handlers are their subscribers' own and that  *)
(* only what is held exists.                                               *)
LEMMA NextHold == Typed /\ HoldInv /\ [Next]_vars => HoldInv'
<1> SUFFICES ASSUME Typed, HoldInv, [Next]_vars PROVE HoldInv'
    OBVIOUS
<1> USE DEF HoldInv
<1>1. ASSUME NEW c \in Conns, NEW s \in Subs, NEW sid \in Sids, NEW st, NEW n, NEW tm, NEW g,
             sub[s] = Unused, Attach(c, s, sid, st, n, tm, g)
      PROVE  HoldInv'
    <2>1. OwnHandlers'
        BY <1>1, AttachOwn
    <2>2. Settled'
        <3>1. \E stt, lg, rg : Settle(stt, lg, rg)
            BY <1>1 DEF Attach
        <3> QED
            BY <3>1, SettleSettled
    <2> QED
        BY <2>1, <2>2
<1>2. ASSUME NEW c \in Conns, NEW s \in Subs, NEW sid \in Sids, NEW g \in Keys,
             SubscribeExisting(c, s, sid, g)
      PROVE  HoldInv'
    BY <1>1, <1>2 DEF SubscribeExisting, Fresh
<1>3. ASSUME NEW c \in Conns, NEW s \in Subs, NEW sid \in Sids, NEW n \in Indices,
             NEW g \in Keys, SubscribeOffline(c, s, sid, n, g)
      PROVE  HoldInv'
    BY <1>1, <1>3 DEF SubscribeOffline, Fresh
<1>4. ASSUME NEW c \in Conns, NEW s \in Subs, NEW sid \in Sids, SubscribeNew(c, s, sid)
      PROVE  HoldInv'
    BY <1>1, <1>4 DEF SubscribeNew, Fresh
<1>5. ASSUME NEW c \in Conns, NEW sid \in Sids, Unsubscribe(c, sid)
      PROVE  HoldInv'
    <2>1. PICK s \in Listeners(sid) : /\ sub' = [sub EXCEPT ![s].ref = FALSE]
                                      /\ handlers' = Without({s})
        BY <1>5 DEF Unsubscribe
    <2>2. \A r \in Subs : sub'[r].conn = sub[r].conn /\ sub'[r].key = sub[r].key
        BY <2>1 DEF Typed, TypeOK, SubType
    <2>3. \A r \in Subs \ {s} : sub'[r] = sub[r]
        BY <2>1 DEF Typed, TypeOK
    <2>4. \A r \in Subs : InTable(r, sub', handlers') => sub'[r].ref = sub[r].ref
        BY <2>1, <2>2, <2>3, WithoutGone DEF Listeners
    <2>5. OwnHandlers'
        BY <2>1, <2>2, <2>4, WithoutSmaller, SmallerOwn
    <2> QED
        BY <1>5, <2>5, SettleSettled DEF Unsubscribe
<1>6. ASSUME NEW c \in Conns, Disconnect(c)
      PROVE  HoldInv'
    <2>1. /\ DOMAIN handlers' = Conns
          /\ \A d \in Conns : \A k \in DOMAIN handlers'[d] :
                k \in DOMAIN handlers[d] /\ handlers'[d][k] = handlers[d][k]
        BY <1>6 DEF Disconnect, EmptyTable, Typed, TypeOK
    <2>2. sub' = sub /\ Settle(state, logs, reg)
        BY <1>6 DEF Disconnect
    <2> QED
        BY <2>1, <2>2, SmallerOwn, SettleSettled
<1>7. ASSUME sub' = sub, handlers' = handlers, NEW st, NEW lg, NEW rg, Settle(st, lg, rg)
      PROVE  HoldInv'
    BY <1>7, SettleSettled DEF OwnHandlers
<1>8. ASSUME NEW f \in Feeds, NEW sid \in Sids, Connect(f, sid)
      PROVE  HoldInv'
    BY <1>7, <1>8 DEF Connect
<1>9. ASSUME NEW f \in Feeds, Log(f)
      PROVE  HoldInv'
    <2>1. handlers' = handlers /\ DOMAIN handlers = Conns
        BY <1>9 DEF Log, Typed, TypeOK
    <2>2. \A s \in Subs : /\ sub'[s].conn = sub[s].conn
                          /\ sub'[s].key = sub[s].key
                          /\ sub'[s].ref = sub[s].ref
        BY <1>9 DEF Log, Typed, TypeOK, SubType
    <2>3. OwnHandlers'
        BY <2>1, <2>2, SmallerOwn
    <2>4. \E st, lg, rg : Settle(st, lg, rg)
        BY <1>9 DEF Log
    <2> QED
        BY <2>3, <2>4, SettleSettled
<1>10. ASSUME NEW f \in Feeds, FeedCloses(f)
       PROVE  HoldInv'
    BY <1>7, <1>10 DEF FeedCloses
<1>11. ASSUME NEW sid \in Sids, WriteLogFile(sid)
       PROVE  HoldInv'
    BY <1>11 DEF WriteLogFile, OwnHandlers, Settled, Held, InTable
<1>12. ASSUME NEW S \in SUBSET Subs, NEW notice, Dismiss(S, notice),
              NEW st, NEW lg, NEW rg, Settle(st, lg, rg)
       PROVE  HoldInv'
    BY <1>12, DismissOwn, SettleSettled
<1>13. ASSUME NEW sid \in Sids, Finish(sid)
       PROVE  HoldInv'
    <2>1. Listeners(sid) \in SUBSET Subs
        BY DEF Listeners
    <2>2. CASE state[sid] \in {"none", "offline"}
        BY <1>13, <2>2 DEF Finish, OwnHandlers, Settled, Held, InTable
    <2>3. CASE state[sid] \notin {"none", "offline"}
        BY <1>12, <1>13, <2>1, <2>3 DEF Finish
    <2> QED
        BY <2>2, <2>3
<1>14. ASSUME NEW sid \in Sids, TimerExpires(sid)
       PROVE  HoldInv'
    <2>1. \A x \in Sids : timer[x] # "none" => timer'[x] # "none"
        BY <1>14 DEF TimerExpires, Typed, TypeOK
    <2> QED
        BY <1>14, <2>1 DEF TimerExpires, OwnHandlers, Settled, Held, InTable
<1>15. ASSUME NEW sid \in Sids, OnTimer(sid)
       PROVE  HoldInv'
    <2>1. Listeners(sid) \in SUBSET Subs
        BY DEF Listeners
    <2>2. CASE GivesUp(sid)
        BY <1>12, <1>15, <2>1, <2>2 DEF OnTimer
    <2>3. CASE ~GivesUp(sid)
        BY <1>7, <1>15, <2>3 DEF OnTimer
    <2> QED
        BY <2>2, <2>3
<1>16. CASE UNCHANGED vars
    BY <1>16 DEF vars, OwnHandlers, Settled, Held, InTable
<1> QED
    BY <1>2, <1>3, <1>4, <1>5, <1>6, <1>8, <1>9, <1>10, <1>11, <1>13, <1>14, <1>15, <1>16
    DEF Next

-----------------------------------------------------------------------------
(* Who has been told what *)

(* What a step must see to, for the sessions that survive it.              *)
LEMMA ToldStep ==
    ASSUME NEW st, NEW lg, NEW rg, Settle(st, lg, rg),
           OneNotice',
           \A x \in Sids : \A s \in Listeners(x)' :
               state'[x] = st[x] /\ Reached(sub'[s].told, st[x], x \in exited'),
           \A x \in Sids : st[x] = "finished" => x \in exited',
           \A x \in Sids : st[x] = "pending" => lg[x] = 0,
           feed' \in [Feeds -> Sids \cup {NoOne}],
           \A f \in Feeds : feed'[f] # NoOne => st[feed'[f]] \notin {"pending", "not_established"}
    PROVE  ToldInv'
<1>1. ServedInv'
    BY DEF ServedInv
<1>2. StateInv'
    BY SettleCases DEF StateInv
<1> QED
    BY <1>1, <1>2 DEF ToldInv

(* A step that tells nobody anything, and lets sessions and subscribers    *)
(* only disappear.                                                         *)
LEMMA QuietTold ==
    ASSUME Typed, ToldInv,
           Settle(state, logs, reg),
           \A s \in Subs : /\ sub'[s].conn = sub[s].conn
                           /\ sub'[s].got = sub[s].got
                           /\ sub'[s].told = sub[s].told,
           \A s \in Subs : InTable(s, sub', handlers') => Live(s),
           exited' = exited,
           feed' \in [Feeds -> Sids \cup {NoOne}],
           \A f \in Feeds : feed'[f] # NoOne => feed'[f] = feed[f]
    PROVE  ToldInv'
<1>1. OneNotice'
    BY DEF ToldInv, OneNotice
<1>2. ASSUME NEW x \in Sids, NEW s \in Listeners(x)'
      PROVE  state'[x] = state[x] /\ Reached(sub'[s].told, state[x], x \in exited')
    <2>1. s \in Listeners(x) /\ state'[x] = state[x]
        BY <1>2, Audience
    <2>2. s \in Subs
        BY <2>1 DEF Listeners
    <2> QED
        BY <2>1, <2>2 DEF ToldInv, ServedInv
<1>3. StateInv
    BY DEF ToldInv
<1> QED
    BY <1>1, <1>2, <1>3, ToldStep DEF StateInv

(* What a notice does to what LogFeed sees. *)
Ended(sid, notice) ==
    /\ ToldInv'
    /\ Listeners(sid)' = {}
    /\ \A x \in Sids : Listeners(x)' \subseteq Listeners(x)
    /\ \A s \in Subs : /\ sub'[s].got = sub[s].got
                       /\ sub'[s].told = IF s \in Listeners(sid) THEN <<notice>>
                                         ELSE sub[s].told

(* A session ends, and all it reaches hear that.                           *)
LEMMA DismissTold ==
    ASSUME Typed, LogInv, OwnHandlers, ToldInv,
           NEW sid \in Sids, NEW notice \in Notice, NEW t \in {"finished", "not_established"},
           Dismiss(Listeners(sid), notice),
           Settle([state EXCEPT ![sid] = t], logs, reg),
           \A s \in Listeners(sid) : sub[s].told = << >>,
           notice = "not_established" => \A s \in Listeners(sid) : sub[s].got = << >>,
           exited \subseteq exited',
           t = "finished" => sid \in exited',
           feed' = feed,
           t = "not_established" => \A f \in Feeds : feed[f] # sid
    PROVE  Ended(sid, notice)
<1> DEFINE st == [state EXCEPT ![sid] = t]
<1>1. \A s \in Subs : /\ sub'[s].conn = sub[s].conn
                      /\ sub'[s].got = sub[s].got
                      /\ sub'[s].told = IF s \in Listeners(sid) THEN Append(sub[s].told, notice)
                                        ELSE sub[s].told
    BY DEF Dismiss, Typed, TypeOK, SubType
<1>2. \A s \in Subs : sub'[s].told = IF s \in Listeners(sid) THEN <<notice>> ELSE sub[s].told
    <2>1. Append(<< >>, notice) = <<notice>>
        OBVIOUS
    <2> QED
        BY <1>1, <2>1
<1>3. \A s \in Subs : InTable(s, sub', handlers') => Live(s) /\ s \notin Listeners(sid)
    <2>1. handlers' = Without(Listeners(sid)) /\ Listeners(sid) \in SUBSET Subs
        BY DEF Dismiss, Listeners
    <2> QED
        BY <1>1, <2>1, WithoutLive, WithoutGone
<1>4. OneNotice'
    <2>1. notice \in {"closed", "not_established"}
        BY DEF Notice
    <2> QED
        BY <1>1, <1>2, <2>1 DEF ToldInv, OneNotice, Closed, NotEstablished, Listeners
<1>5. ASSUME NEW x \in Sids, NEW s \in Listeners(x)'
      PROVE  /\ s \in Listeners(x) /\ x # sid
             /\ state'[x] = st[x] /\ st[x] = state[x] /\ sub'[s].told = sub[s].told
    <2>1. s \in Subs /\ InTable(s, sub', handlers')
        BY <1>5 DEF Listeners, Live
    <2>2. s \in Listeners(x) /\ state'[x] = st[x]
        <3>1. Settle(st, logs, reg)
            OBVIOUS
        <3>2. \A r \in Subs : sub'[r].conn = sub[r].conn
            BY <1>1
        <3>3. \A r \in Subs : InTable(r, sub', handlers') => Live(r)
            BY <1>3
        <3> HIDE DEF st
        <3> QED
            BY <1>5, <3>1, <3>2, <3>3, Audience
    <2>3. x # sid
        BY <1>3, <2>1, <2>2
    <2> QED
        BY <1>2, <1>3, <2>1, <2>2, <2>3 DEF Typed, TypeOK
<1>6. \A x \in Sids : \A s \in Listeners(x)' :
          state'[x] = st[x] /\ Reached(sub'[s].told, st[x], x \in exited')
    <2>1. ASSUME NEW x \in Sids, NEW s \in Listeners(x)'
          PROVE  Reached(sub'[s].told, st[x], x \in exited')
        <3>1. Reached(sub[s].told, state[x], x \in exited)
            BY <1>5, <2>1 DEF ToldInv, ServedInv
        <3> QED
            BY <1>5, <2>1, <3>1 DEF Reached
    <2> QED
        BY <1>5, <2>1
<1>7. /\ \A x \in Sids : st[x] = "finished" => x \in exited'
      /\ \A x \in Sids : st[x] = "pending" => logs[x] = 0
      /\ \A f \in Feeds : feed'[f] # NoOne => st[feed'[f]] \notin {"pending", "not_established"}
    BY DEF ToldInv, StateInv, Typed, TypeOK
<1>8. feed' \in [Feeds -> Sids \cup {NoOne}]
    BY DEF Typed, TypeOK
<1>9. ToldInv'
    <2> HIDE DEF st
    <2> QED
        BY <1>4, <1>6, <1>7, <1>8, ToldStep DEF st
<1> QED
    BY <1>1, <1>2, <1>5, <1>9 DEF Ended

(* A new subscriber is told at once if its session is over. *)
LEMMA AttachTold ==
    ASSUME Typed, LogInv, ToldInv,
           NEW c \in Conns, NEW s \in Subs, NEW sid \in Sids,
           NEW st \in States \ {"none"}, NEW n \in Nat, NEW tm, NEW garbage,
           sub[s] = Unused,
           \/ st = state[sid] /\ n = logs[sid]
           \/ state[sid] = "none" /\ (st = "offline" \/ (st = "pending" /\ n = 0)),
           Attach(c, s, sid, st, n, tm, garbage)
    PROVE  ToldInv'
<1> DEFINE st1 == [state EXCEPT ![sid] = st]
           lg1 == [logs EXCEPT ![sid] = n]
<1>1. PICK rg : Settle(st1, lg1, rg)
    BY DEF Attach
<1>2. /\ sub'[s].got = IF st = "not_established" THEN << >> ELSE Backlog(n)
      /\ sub'[s].told = IF st = "not_established" THEN NotEstablished
                        ELSE IF Over(st) THEN Closed ELSE << >>
      /\ \A r \in Subs \ {s} : sub'[r] = sub[r]
      /\ feed' = feed /\ exited' = exited
    BY DEF Attach, Typed, TypeOK, Closed, NotEstablished
<1>3. OneNotice'
    <2>1. ASSUME NEW r \in Subs
          PROVE  /\ sub'[r].told \in {<< >>, Closed, NotEstablished}
                 /\ sub'[r].told = NotEstablished => sub'[r].got = << >>
        <3>1. CASE r = s
            BY <1>2, <3>1 DEF Closed, NotEstablished
        <3>2. CASE r # s
            BY <1>2, <3>2 DEF ToldInv, OneNotice
        <3> QED
            BY <3>1, <3>2
    <2> QED
        BY <2>1 DEF OneNotice
<1>4. \A x \in Sids : st1[x] = "finished" => x \in exited
    BY DEF ToldInv, StateInv, Typed, TypeOK
<1>5. \A x \in Sids : st1[x] = "pending" => lg1[x] = 0
    BY DEF ToldInv, StateInv, Typed, TypeOK
<1>6. ASSUME NEW x \in Sids, NEW r \in Listeners(x)'
      PROVE  state'[x] = st1[x] /\ Reached(sub'[r].told, st1[x], x \in exited')
    <2>1. /\ state'[x] = st1[x]
          /\ \/ r = s /\ x = sid /\ st # "not_established"
             \/ r # s /\ r \in Listeners(x)
        BY <1>6, AttachAudience
    <2>2. CASE r = s
        <3>1. st1[x] = st /\ x = sid /\ st # "not_established"
            BY <2>1, <2>2 DEF Typed, TypeOK
        <3>2. st = "finished" => sid \in exited
            BY <1>4, <3>1
        <3>3. sub'[r].told = IF Over(st) THEN Closed ELSE << >>
            BY <1>2, <2>2, <3>1
        <3>4. Closed # NotEstablished /\ << >> # Closed /\ << >> # NotEstablished
            BY DEF Closed, NotEstablished
        <3>5. exited' = exited
            BY <1>2
        <3> HIDE DEF st1
        <3>6. Reached(sub'[r].told, st, x \in exited')
            <4>1. CASE Over(st)
                BY <3>1, <3>2, <3>3, <3>4, <3>5, <4>1 DEF Reached, Over
            <4>2. CASE ~Over(st)
                BY <3>1, <3>3, <3>4, <4>2 DEF Reached
            <4> QED
                BY <4>1, <4>2
        <3> QED
            BY <2>1, <3>1, <3>6
    <2>3. CASE r # s
        <3>1. r \in Listeners(x) /\ r \in Subs /\ sub'[r] = sub[r]
            BY <1>2, <2>1, <2>3 DEF Listeners
        <3>2. state[x] # "none"
            <4>1. reg[x] # NoReg
                BY <3>1, SessionAssumption DEF Listeners, Live, InTable, NoReg,
                                               Typed, TypeOK, SubType
            <4> QED
                BY <4>1 DEF LogInv, NoneIsEmpty
        <3>3. st1[x] = state[x]
            BY <3>2 DEF Typed, TypeOK
        <3>4. Reached(sub[r].told, state[x], x \in exited)
            BY <3>1 DEF ToldInv, ServedInv
        <3> HIDE DEF st1
        <3> QED
            BY <1>2, <2>1, <3>1, <3>3, <3>4
    <2> QED
        BY <2>2, <2>3
<1>7. ASSUME NEW f \in Feeds, feed'[f] # NoOne
      PROVE  st1[feed'[f]] \notin {"pending", "not_established"}
    <2>1. feed[f] \in Sids /\ state[feed[f]] # "none"
        BY <1>2, <1>7 DEF LogInv, FeedInv, Typed, TypeOK
    <2>2. st1[feed[f]] = state[feed[f]]
        BY <2>1 DEF Typed, TypeOK
    <2> QED
        BY <1>2, <1>7, <2>2 DEF ToldInv, StateInv
<1>8. feed' \in [Feeds -> Sids \cup {NoOne}]
    BY <1>2 DEF Typed, TypeOK
<1> HIDE DEF st1, lg1
<1> QED
    BY <1>1, <1>2, <1>3, <1>4, <1>5, <1>6, <1>7, <1>8, ToldStep

(* A job that exits for the first time had nobody told that it was over.   *)
LEMMA FinishTold ==
    ASSUME Typed, LogInv, OwnHandlers, ToldInv,
           NEW sid \in Sids, Finish(sid), state[sid] \notin {"none", "offline"}
    PROVE  /\ \A s \in Listeners(sid) : sub[s].told = << >>
           /\ Ended(sid, "closed")
<1>1. \A s \in Listeners(sid) : sub[s].told = << >>
    BY DEF Finish, ToldInv, OneNotice, ServedInv, Reached, Listeners
<1>2. /\ "closed" \in Notice /\ "closed" # "not_established"
      /\ "finished" \in {"finished", "not_established"}
    BY DEF Notice
<1>3. /\ Dismiss(Listeners(sid), "closed")
      /\ Settle([state EXCEPT ![sid] = "finished"], logs, reg)
      /\ exited \subseteq exited' /\ sid \in exited' /\ feed' = feed
    BY DEF Finish
<1> QED
    BY <1>1, <1>2, <1>3, DismissTold

(* A session that is given up had no log and nobody told anything.         *)
LEMMA GivesUpTold ==
    ASSUME Typed, LogInv, OwnHandlers, ToldInv,
           NEW sid \in Sids, OnTimer(sid), GivesUp(sid)
    PROVE  /\ \A s \in Listeners(sid) : sub[s].told = << >> /\ sub[s].got = << >>
           /\ Ended(sid, "not_established")
<1>1. state[sid] = "pending" /\ logs[sid] = 0
    BY DEF GivesUp, ToldInv, StateInv
<1>2. \A s \in Listeners(sid) : sub[s].told = << >>
    BY <1>1 DEF ToldInv, OneNotice, ServedInv, Reached, Listeners
<1>3. \A s \in Listeners(sid) : sub[s].got = << >>
    BY <1>1, BacklogGrows DEF LogInv, WholeLog
<1>4. "not_established" \in Notice /\ "not_established" \in {"finished", "not_established"}
    BY DEF Notice
<1>5. /\ Dismiss(Listeners(sid), "not_established")
      /\ Settle([state EXCEPT ![sid] = "not_established"], logs, reg)
      /\ exited' = exited /\ feed' = feed
    BY DEF OnTimer
<1>6. \A f \in Feeds : feed[f] # sid
    BY <1>1, SessionAssumption DEF ToldInv, StateInv
<1> QED
    BY <1>2, <1>3, <1>4, <1>5, <1>6, DismissTold

(* Every step preserves who has been told what. *)
LEMMA NextTold == Typed /\ LogInv /\ HoldInv /\ ToldInv /\ [Next]_vars => ToldInv'
<1> SUFFICES ASSUME Typed, LogInv, HoldInv, ToldInv, [Next]_vars PROVE ToldInv'
    OBVIOUS
<1>0. OwnHandlers /\ OneNotice /\ ServedInv /\ StateInv
    BY DEF HoldInv, ToldInv
<1>1. ASSUME NEW c \in Conns, NEW s \in Subs, NEW sid \in Sids, NEW g \in Keys,
             SubscribeExisting(c, s, sid, g)
      PROVE  ToldInv'
    <2>1. state[sid] \in States \ {"none"} /\ logs[sid] \in Nat /\ sub[s] = Unused
        BY <1>1 DEF SubscribeExisting, Fresh, Typed, TypeOK
    <2> QED
        BY <1>1, <2>1, AttachTold DEF SubscribeExisting
<1>2. ASSUME NEW c \in Conns, NEW s \in Subs, NEW sid \in Sids, NEW n \in Indices,
             NEW g \in Keys, SubscribeOffline(c, s, sid, n, g)
      PROVE  ToldInv'
    <2>1. "offline" \in States \ {"none"} /\ n \in Nat
        BY SessionAssumption DEF States, Indices
    <2>2. sub[s] = Unused /\ state[sid] = "none" /\ Attach(c, s, sid, "offline", n, "none", g)
        BY <1>2 DEF SubscribeOffline, Fresh
    <2> QED
        BY <2>1, <2>2, AttachTold
<1>3. ASSUME NEW c \in Conns, NEW s \in Subs, NEW sid \in Sids, SubscribeNew(c, s, sid)
      PROVE  ToldInv'
    <2>1. "pending" \in States \ {"none"} /\ 0 \in Nat
        BY DEF States
    <2>2. sub[s] = Unused /\ state[sid] = "none" /\ Attach(c, s, sid, "pending", 0, "waiting", 0)
        BY <1>3 DEF SubscribeNew, Fresh
    <2> QED
        BY <2>1, <2>2, AttachTold
<1>4. ASSUME NEW c \in Conns, NEW sid \in Sids, Unsubscribe(c, sid)
      PROVE  ToldInv'
    <2>1. PICK s \in Listeners(sid) : /\ sub' = [sub EXCEPT ![s].ref = FALSE]
                                      /\ handlers' = Without({s})
        BY <1>4 DEF Unsubscribe
    <2>2. \A r \in Subs : /\ sub'[r].conn = sub[r].conn
                          /\ sub'[r].got = sub[r].got
                          /\ sub'[r].told = sub[r].told
        BY <2>1 DEF Typed, TypeOK, SubType
    <2>3. \A r \in Subs : InTable(r, sub', handlers') => Live(r)
        BY <2>1, <2>2, WithoutLive
    <2>4. Settle(state, logs, reg) /\ feed' = feed /\ exited' = exited
        BY <1>4 DEF Unsubscribe
    <2> QED
        BY <2>2, <2>3, <2>4, QuietTold DEF Typed, TypeOK
<1>5. ASSUME NEW c \in Conns, Disconnect(c)
      PROVE  ToldInv'
    <2>1. /\ Settle(state, logs, reg)
          /\ feed' = feed /\ sub' = sub /\ exited' = exited
        BY <1>5 DEF Disconnect
    <2>2. \A r \in Subs : InTable(r, sub', handlers') => Live(r)
        BY <1>5 DEF Disconnect, InTable, Live, Typed, TypeOK, EmptyTable
    <2> QED
        BY <2>1, <2>2, QuietTold DEF Typed, TypeOK
<1>6. ASSUME NEW f \in Feeds, NEW sid \in Sids, Connect(f, sid)
      PROVE  ToldInv'
    <2> DEFINE st == [state EXCEPT ![sid] = IF @ = "offline" THEN @ ELSE "in_progress"]
    <2>1. Settle(st, logs, reg) /\ sub' = sub /\ handlers' = handlers /\ exited' = exited
        BY <1>6 DEF Connect
    <2>2. ASSUME NEW x \in Sids, NEW s \in Listeners(x)'
          PROVE  state'[x] = st[x] /\ Reached(sub'[s].told, st[x], x \in exited')
        <3>1. s \in Listeners(x) /\ state'[x] = st[x]
            <4> HIDE DEF st
            <4> QED
                BY <2>1, <2>2, Audience DEF Live
        <3>2. Reached(sub[s].told, state[x], x \in exited)
            BY <1>0, <3>1 DEF ServedInv
        <3>3. st[x] = state[x] \/ (st[x] = "in_progress" /\ state[x] # "offline")
            BY DEF Typed, TypeOK
        <3> HIDE DEF st
        <3> QED
            BY <2>1, <3>1, <3>2, <3>3 DEF Reached, Over
    <2>3. OneNotice'
        BY <1>0, <2>1 DEF OneNotice
    <2>4. /\ \A x \in Sids : st[x] = "finished" => x \in exited'
          /\ \A x \in Sids : st[x] = "pending" => logs[x] = 0
        BY <1>0, <2>1 DEF StateInv, Typed, TypeOK
    <2>5. feed' \in [Feeds -> Sids \cup {NoOne}]
        BY <1>6 DEF Connect, Typed, TypeOK
    <2>6. \A g \in Feeds : feed'[g] # NoOne => st[feed'[g]] \notin {"pending", "not_established"}
        BY <1>0, <1>6 DEF Connect, StateInv, Typed, TypeOK
    <2> HIDE DEF st
    <2> QED
        BY <2>1, <2>2, <2>3, <2>4, <2>5, <2>6, ToldStep
<1>7. ASSUME NEW f \in Feeds, Log(f)
      PROVE  ToldInv'
    <2> DEFINE sid == feed[f]
               lg == [logs EXCEPT ![sid] = @ + 1]
    <2>1. /\ Settle(state, lg, reg)
          /\ handlers' = handlers /\ feed' = feed /\ exited' = exited
        BY <1>7 DEF Log
    <2>2. sid \in Sids /\ state[sid] # "pending"
        BY <1>0, <1>7 DEF Log, StateInv, Typed, TypeOK
    <2>3. \A s \in Subs : /\ sub'[s].conn = sub[s].conn
                          /\ sub'[s].told = sub[s].told
                          /\ s \notin Listeners(sid) => sub'[s] = sub[s]
        BY <1>7 DEF Log, Typed, TypeOK, SubType
    <2>4. OneNotice'
        <3>1. \A s \in Listeners(sid) : sub[s].told # NotEstablished
            BY <1>0, <2>2 DEF ServedInv, Reached
        <3> QED
            BY <1>0, <2>3, <3>1 DEF OneNotice
    <2>5. \A s \in Subs : InTable(s, sub', handlers') => Live(s)
        BY <2>1, <2>3 DEF InTable, Live
    <2>6. ASSUME NEW x \in Sids, NEW s \in Listeners(x)'
          PROVE  state'[x] = state[x] /\ Reached(sub'[s].told, state[x], x \in exited')
        <3>1. s \in Listeners(x) /\ state'[x] = state[x]
            <4> HIDE DEF lg
            <4> QED
                BY <2>1, <2>3, <2>5, <2>6, Audience
        <3> QED
            BY <1>0, <2>1, <2>3, <3>1 DEF ServedInv, Listeners
    <2>7. \A x \in Sids : state[x] = "pending" => lg[x] = 0
        BY <1>0, <2>2 DEF StateInv, Typed, TypeOK
    <2>8. feed' \in [Feeds -> Sids \cup {NoOne}]
        BY <2>1 DEF Typed, TypeOK
    <2> HIDE DEF lg
    <2> QED
        BY <1>0, <2>1, <2>4, <2>6, <2>7, <2>8, ToldStep DEF StateInv
<1>8. ASSUME NEW f \in Feeds, FeedCloses(f)
      PROVE  ToldInv'
    <2>1. /\ Settle(state, logs, reg)
          /\ sub' = sub /\ handlers' = handlers /\ exited' = exited
          /\ feed' = [feed EXCEPT ![f] = NoOne]
        BY <1>8 DEF FeedCloses
    <2> QED
        BY <2>1, QuietTold DEF Live, Typed, TypeOK
<1>9. ASSUME NEW sid \in Sids, WriteLogFile(sid)
      PROVE  ToldInv'
    BY <1>9 DEF WriteLogFile, ToldInv, OneNotice, ServedInv, StateInv, Listeners, Live, InTable
<1>10. ASSUME NEW sid \in Sids, Finish(sid)
       PROVE  ToldInv'
    <2>1. CASE state[sid] \in {"none", "offline"}
        <3>1. /\ UNCHANGED <<state, logs, reg, sub, handlers, feed>>
              /\ exited \subseteq exited'
            BY <1>10, <2>1 DEF Finish
        <3>2. OneNotice'
            BY <1>0, <3>1 DEF OneNotice
        <3>3. StateInv'
            BY <1>0, <3>1 DEF StateInv
        <3>4. ServedInv'
            BY <1>0, <3>1 DEF ServedInv, Reached, Listeners, Live, InTable
        <3> QED
            BY <3>2, <3>3, <3>4 DEF ToldInv
    <2>2. CASE state[sid] \notin {"none", "offline"}
        BY <1>0, <1>10, <2>2, FinishTold DEF Ended
    <2> QED
        BY <2>1, <2>2
<1>11. ASSUME NEW sid \in Sids, TimerExpires(sid)
       PROVE  ToldInv'
    BY <1>11 DEF TimerExpires, ToldInv, OneNotice, ServedInv, StateInv, Listeners, Live, InTable
<1>12. ASSUME NEW sid \in Sids, OnTimer(sid)
       PROVE  ToldInv'
    <2>1. CASE GivesUp(sid)
        BY <1>0, <1>12, <2>1, GivesUpTold DEF Ended
    <2>2. CASE ~GivesUp(sid)
        <3>1. /\ Settle(state, logs, reg)
              /\ sub' = sub /\ handlers' = handlers /\ feed' = feed /\ exited' = exited
            BY <1>12, <2>2 DEF OnTimer
        <3> QED
            BY <3>1, QuietTold DEF Live, Typed, TypeOK
    <2> QED
        BY <2>1, <2>2
<1>13. CASE UNCHANGED vars
    BY <1>13 DEF vars, ToldInv, OneNotice, ServedInv, StateInv, Listeners, Live, InTable
<1> QED
    BY <1>1, <1>2, <1>3, <1>4, <1>5, <1>6, <1>7, <1>8, <1>9, <1>10, <1>11, <1>12, <1>13
    DEF Next

-----------------------------------------------------------------------------
(* The invariants together *)

FeedInd == Typed /\ LogInv /\ HoldInv /\ ToldInv

(* Init establishes them. *)
LEMMA InitFeedInd == Init => FeedInd
<1> SUFFICES ASSUME Init PROVE FeedInd
    OBVIOUS
<1>1. Typed /\ LogInv
    BY InitTyped, InitLog
<1>2. \A x \in Sids : Listeners(x) = {}
    BY DEF Init, Listeners, Live, InTable, Unused
<1>3. HoldInv
    BY DEF Init, HoldInv, OwnHandlers, Settled, EmptyTable
<1>4. ToldInv
    BY <1>2, SessionAssumption
    DEF Init, ToldInv, OneNotice, ServedInv, StateInv, Unused, NotEstablished
<1> QED
    BY <1>1, <1>3, <1>4 DEF FeedInd

(* Every step preserves them. *)
LEMMA NextFeedInd == FeedInd /\ [Next]_vars => FeedInd'
BY NextTyped, NextLog, NextHold, NextTold DEF FeedInd

(* They hold in every reachable state. *)
LEMMA FeedInvariant == Spec => []FeedInd
BY InitFeedInd, NextFeedInd, PTL DEF Spec

(* No live subscriber of a session that is over is left without notice,     *)
(* whichever of finish, on_timer and subscribe came first.                  *)
THEOREM OverHasBeenTold == Spec => []OverIsTold
<1>1. FeedInd => OverIsTold
    BY DEF FeedInd, ToldInv, ServedInv, Reached, Over, Closed, OverIsTold
<1> QED
    BY <1>1, FeedInvariant, PTL

(* A client told that its session was not established never gets a log      *)
(* entry, and no second notice.                                             *)
THEOREM NotEstablishedIsAll == Spec => []NotEstablishedSawNothing
<1>1. FeedInd => NotEstablishedSawNothing
    <2> SUFFICES ASSUME FeedInd, NEW s \in Subs,
                        "not_established" \in {sub[s].told[i] : i \in DOMAIN sub[s].told}
                 PROVE  sub[s].got = << >> /\ Len(sub[s].told) = 1
        BY DEF NotEstablishedSawNothing
    <2>1. sub[s].told = NotEstablished
        BY DEF FeedInd, ToldInv, OneNotice, Closed, NotEstablished
    <2> QED
        BY <2>1 DEF FeedInd, ToldInv, OneNotice, NotEstablished
<1> QED
    BY <1>1, FeedInvariant, PTL

-----------------------------------------------------------------------------
(* Session implements LogFeed *)

(* A destroyed session reaches nobody. *)
LEMMA DestroyedReachesNobody ==
    ASSUME Typed', NEW x \in Sids, reg'[x] = NoReg
    PROVE  Listeners(x)' = {}
<1> SUFFICES ASSUME NEW s \in Listeners(x)' PROVE FALSE
    OBVIOUS
<1>1. s \in Subs /\ InTable(s, sub', handlers') /\ reg'[x][sub'[s].conn] = s
    BY DEF Listeners, Live
<1>2. sub'[s].conn \in Conns
    BY <1>1 DEF InTable, Typed, TypeOK, SubType
<1> QED
    BY <1>1, <1>2, SessionAssumption DEF NoReg

(* Settle forgets a log only when it serves nobody. *)
LEMMA SettleKeeps ==
    ASSUME Typed', NEW st, NEW lg, NEW rg, Settle(st, lg, rg)
    PROVE  Feed!Keeps(lg)
<1>1. \A x \in Sids : logs'[x] = lg[x] \/ (logs'[x] = 0 /\ Listeners(x)' = {})
    BY SettleCases, DestroyedReachesNobody
<1> QED
    BY <1>1 DEF Feed!Keeps, Typed, TypeOK

(* Steps that let subscribers and sessions only disappear are departures.  *)
LEMMA LeaveStep ==
    ASSUME Typed, Typed',
           NEW st, Settle(st, logs, reg),
           \A s \in Subs : /\ sub'[s].conn = sub[s].conn
                           /\ sub'[s].got = sub[s].got
                           /\ sub'[s].told = sub[s].told,
           \A s \in Subs : InTable(s, sub', handlers') => Live(s)
    PROVE  Feed!Leave
<1>1. Feed!Keeps(logs)
    BY SettleKeeps
<1>2. \A x \in Sids : Listeners(x)' \subseteq Listeners(x)
    BY Audience
<1>3. Feed!NobodyNew
    BY <1>2 DEF Feed!NobodyNew, Listeners
<1> QED
    BY <1>1, <1>3 DEF Feed!Leave

(* A new subscriber joins, or is refused. *)
LEMMA AttachStep ==
    ASSUME Typed, Typed', LogInv,
           NEW c \in Conns, NEW s \in Subs, NEW sid \in Sids,
           NEW st \in States \ {"none"}, NEW n \in Nat, NEW tm, NEW garbage,
           sub[s] = Unused,
           n = logs[sid] \/ state[sid] = "none",
           st = "not_established" => n = logs[sid],
           Attach(c, s, sid, st, n, tm, garbage)
    PROVE  Feed!Refuse(s) \/ Feed!Join(s, sid)
<1> DEFINE lg == [logs EXCEPT ![sid] = n]
<1>1. /\ sub'[s].got = IF st = "not_established" THEN << >> ELSE Backlog(n)
      /\ sub'[s].told = IF st = "not_established" THEN <<"not_established">>
                        ELSE IF Over(st) THEN <<"closed">> ELSE << >>
      /\ \A r \in Subs \ {s} : sub'[r] = sub[r]
    BY DEF Attach, Typed, TypeOK
<1>2. Feed!Keeps(lg)
    <2>1. \E stt, rg : Settle(stt, lg, rg)
        BY DEF Attach
    <2> HIDE DEF lg
    <2> QED
        BY <2>1, SettleKeeps
<1>3. Feed!New(s)
    <2>1. \A x \in Sids : s \notin Listeners(x)
        BY DEF Listeners, Live, InTable, Unused
    <2> QED
        BY <2>1 DEF Feed!New, Unused
<1>4. \A x \in Sids : \A r \in Listeners(x)' :
          \/ r = s /\ x = sid /\ st # "not_established"
          \/ r # s /\ r \in Listeners(x)
    BY AttachAudience
<1>5. CASE st = "not_established"
    <2>1. lg = logs
        BY <1>5 DEF Typed, TypeOK
    <2>2. Feed!Keeps(logs)
        BY <1>2, <2>1
    <2>3. Feed!NobodyNew
        BY <1>4, <1>5 DEF Feed!NobodyNew, Listeners
    <2>4. \A r \in Subs : sub'[r].got = sub[r].got
        BY <1>1, <1>5 DEF Unused
    <2>5. \A r \in Subs : sub'[r].told = IF r = s THEN <<"not_established">> ELSE sub[r].told
        BY <1>1, <1>5
    <2> QED
        BY <1>3, <2>2, <2>3, <2>4, <2>5 DEF Feed!Refuse
<1>6. CASE st # "not_established"
    <2>1. Feed!NobodyElse(s, sid)
        BY <1>4 DEF Feed!NobodyElse, Listeners
    <2>2. Len(sub'[s].got) = n /\ sub'[s].got = Feed!Whole(n)
        BY <1>1, <1>6, BacklogType DEF Backlog, Feed!Whole
    <2>3. n = logs[sid] \/ (logs[sid] = 0 /\ Listeners(sid) = {})
        <3>1. CASE state[sid] = "none"
            <4>1. logs[sid] = 0 /\ reg[sid] = NoReg
                BY <3>1 DEF LogInv, NoneIsEmpty
            <4>2. Listeners(sid) = {}
                <5> SUFFICES ASSUME NEW r \in Listeners(sid) PROVE FALSE
                    OBVIOUS
                <5>1. r \in Subs /\ sub[r].conn \in Conns
                    BY DEF Listeners, Live, InTable, Typed, TypeOK, SubType
                <5> QED
                    BY <4>1, <5>1, SessionAssumption DEF Listeners, NoReg
            <4> QED
                BY <4>1, <4>2
        <3> QED
            BY <3>1
    <2>4. \A r \in Subs : sub'[r].got = IF r = s THEN Feed!Whole(n) ELSE sub[r].got
        BY <1>1, <2>2
    <2>5. \/ \A r \in Subs : sub'[r].told = sub[r].told
          \/ \A r \in Subs : sub'[r].told = IF r = s THEN <<"closed">> ELSE sub[r].told
        BY <1>1, <1>6 DEF Unused
    <2> HIDE DEF lg
    <2>6. [r \in Subs |-> sub'[r].got]
              = [[r \in Subs |-> sub[r].got] EXCEPT ![s] = Feed!Whole(n)]
        BY <2>4
    <2>7. [r \in Subs |-> sub'[r].told]
              \in {[r \in Subs |-> sub[r].told],
                   [[r \in Subs |-> sub[r].told] EXCEPT ![s] = <<"closed">>]}
        BY <2>5
    <2> QED
        BY <1>2, <1>3, <2>1, <2>2, <2>3, <2>6, <2>7 DEF Feed!Join, lg
<1> QED
    BY <1>5, <1>6

(* A notice ends a topic. *)
LEMMA EndStep ==
    ASSUME Typed', NEW sid \in Sids, NEW notice \in Notice,
           Ended(sid, notice),
           NEW st, Settle(st, logs, reg),
           \A s \in Listeners(sid) : sub[s].told = << >>,
           notice = "not_established" => \A s \in Listeners(sid) : sub[s].got = << >>
    PROVE  Feed!End(sid, notice)
<1>1. Feed!Keeps(logs)
    BY SettleKeeps
<1>2. Feed!NobodyNew
    BY DEF Ended, Feed!NobodyNew, Listeners
<1>3. \A s \in Listeners(sid) : s \in Subs
    BY DEF Listeners
<1> QED
    BY <1>1, <1>2, <1>3 DEF Ended, Feed!End

(* An entry reaches all who are served, and nobody joins or leaves.        *)
LEMMA LogStep ==
    ASSUME Typed, LogInv, HoldInv,
           NEW f \in Feeds, NEW sid \in Sids, feed[f] = sid, Log(f)
    PROVE  Feed!Entry(sid)
<1> DEFINE lg == [logs EXCEPT ![sid] = @ + 1]
<1>1. /\ Settle(state, lg, reg)
      /\ handlers' = handlers /\ feed' = feed /\ timer' = timer
      /\ sid \in Sids
    BY DEF Log, Typed, TypeOK
<1>2. \A s \in Subs : /\ sub'[s].conn = sub[s].conn
                      /\ sub'[s].sid = sub[s].sid
                      /\ sub'[s].ref = sub[s].ref
                      /\ sub'[s].told = sub[s].told
                      /\ sub'[s].got = IF s \in Listeners(sid)
                                       THEN Append(sub[s].got, logs[sid] + 1)
                                       ELSE sub[s].got
    BY DEF Log, Typed, TypeOK, SubType
<1>3. \A s \in Subs : InTable(s, sub', handlers') <=> Live(s)
    BY <1>1, <1>2 DEF InTable, Live
<1>4. \A x \in Sids : Held(x, timer', feed', sub', handlers')
                          <=> Held(x, timer, feed, sub, handlers)
    BY <1>1, <1>2, <1>3 DEF Held, Live
<1>5. ASSUME NEW x \in Sids
      PROVE  logs'[x] = lg[x]
    <2>1. CASE Held(x, timer, feed, sub, handlers)
        BY <1>1, <1>4, <2>1 DEF Settle
    <2>2. CASE ~Held(x, timer, feed, sub, handlers)
        <3>1. x # sid /\ logs[x] = 0
            BY <2>2 DEF Held, HoldInv, Settled
        <3>2. logs'[x] = 0
            BY <1>1, <1>4, <2>2 DEF Settle
        <3>3. lg[x] = logs[x]
            BY <3>1 DEF Typed, TypeOK
        <3> QED
            BY <3>1, <3>2, <3>3
    <2> QED
        BY <2>1, <2>2
<1>6. logs' = lg
    <2>1. DOMAIN logs' = Sids /\ DOMAIN lg = Sids
        BY <1>1 DEF Settle, Typed, TypeOK
    <2>2. logs' = [x \in Sids |-> logs'[x]] /\ lg = [x \in Sids |-> lg[x]]
        BY <1>1 DEF Settle, Typed, TypeOK
    <2> HIDE DEF lg
    <2> QED
        BY <1>5, <2>2
<1>7. ASSUME NEW x \in Sids
      PROVE  Listeners(x)' = Listeners(x)
    <2>1. Listeners(x)' \subseteq Listeners(x)
        <3> HIDE DEF lg
        <3> QED
            BY <1>1, <1>2, <1>3, Audience
    <2>2. ASSUME NEW s \in Listeners(x)
          PROVE  s \in Listeners(x)'
        <3>1. s \in Subs /\ Live(s) /\ reg[x][sub[s].conn] = s /\ sub[s].conn \in Conns
            BY DEF Listeners, Live, InTable, Typed, TypeOK, SubType
        <3>2. sub[s].ref /\ sub[s].sid = x
            <4>1. sub[s].ref
                BY <3>1 DEF Live, InTable, HoldInv, OwnHandlers
            <4>2. sub[s].sid = x
                BY <3>1, SessionAssumption DEF LogInv, RegInv
            <4> QED
                BY <4>1, <4>2
        <3>3. Held(x, timer, feed, sub, handlers)
            BY <3>1, <3>2 DEF Held, Live
        <3>4. reg'[x] = reg[x]
            BY <1>1, <1>4, <3>3 DEF Settle
        <3> QED
            BY <1>2, <1>3, <3>1, <3>4 DEF Listeners, Live
    <2> QED
        BY <2>1, <2>2
<1>8. [x \in Sids |-> Listeners(x)'] = [x \in Sids |-> Listeners(x)]
    BY <1>7
<1>9. /\ [s \in Subs |-> sub'[s].told] = [s \in Subs |-> sub[s].told]
      /\ [s \in Subs |-> sub'[s].got] = [s \in Subs |->
             IF s \in Listeners(sid) THEN Append(sub[s].got, logs[sid] + 1) ELSE sub[s].got]
    BY <1>2
<1> QED
    BY <1>1, <1>6, <1>8, <1>9 DEF Feed!Entry

(* Init maps to the initial state of the feed. *)
LEMMA InitFeed == Init => Feed!Init
<1> SUFFICES ASSUME Init PROVE Feed!Init
    OBVIOUS
<1>1. \A x \in Sids : Listeners(x) = {}
    BY DEF Init, Listeners, Live, InTable, Unused
<1>2. \A s \in Subs : sub[s].got = << >> /\ sub[s].told = << >>
    BY DEF Init, Unused
<1> QED
    BY <1>1, <1>2 DEF Init, Feed!Init

(* A step that changes no log, subscriber or handler changes no feed.      *)
LEMMA Unseen ==
    ASSUME UNCHANGED <<logs, reg, sub, handlers>>
    PROVE  UNCHANGED Feed!vars
<1>1. \A x \in Sids : Listeners(x)' = Listeners(x)
    BY DEF Listeners, Live, InTable
<1> QED
    BY <1>1 DEF Feed!vars

(* Every step maps to a step of the feed or changes nothing of it.         *)
LEMMA NextFeed == FeedInd /\ [Next]_vars => [Feed!Next]_Feed!vars
<1> SUFFICES ASSUME FeedInd, [Next]_vars PROVE Feed!Next \/ UNCHANGED Feed!vars
    OBVIOUS
<1>0. Typed /\ Typed' /\ LogInv /\ HoldInv /\ ToldInv /\ OwnHandlers
    BY NextTyped DEF FeedInd, HoldInv
<1>1. Feed!Leave => Feed!Next
    BY DEF Feed!Next
<1>2. ASSUME NEW c \in Conns, NEW s \in Subs, NEW sid \in Sids, NEW g \in Keys,
             SubscribeExisting(c, s, sid, g)
      PROVE  Feed!Next
    <2>1. state[sid] \in States \ {"none"} /\ logs[sid] \in Nat /\ sub[s] = Unused
        BY <1>0, <1>2 DEF SubscribeExisting, Fresh, Typed, TypeOK
    <2>2. Attach(c, s, sid, state[sid], logs[sid], timer[sid], g)
        BY <1>2 DEF SubscribeExisting
    <2>3. Feed!Refuse(s) \/ Feed!Join(s, sid)
        BY <1>0, <2>1, <2>2, AttachStep
    <2> QED
        BY <2>3 DEF Feed!Next
<1>3. ASSUME NEW c \in Conns, NEW s \in Subs, NEW sid \in Sids, NEW n \in Indices,
             NEW g \in Keys, SubscribeOffline(c, s, sid, n, g)
      PROVE  Feed!Next
    <2>1. "offline" \in States \ {"none"} /\ n \in Nat
        BY SessionAssumption DEF States, Indices
    <2>2. sub[s] = Unused /\ state[sid] = "none" /\ Attach(c, s, sid, "offline", n, "none", g)
        BY <1>3 DEF SubscribeOffline, Fresh
    <2>3. Feed!Refuse(s) \/ Feed!Join(s, sid)
        BY <1>0, <2>1, <2>2, AttachStep
    <2> QED
        BY <2>3 DEF Feed!Next
<1>4. ASSUME NEW c \in Conns, NEW s \in Subs, NEW sid \in Sids, SubscribeNew(c, s, sid)
      PROVE  Feed!Next
    <2>1. "pending" \in States \ {"none"} /\ 0 \in Nat
        BY DEF States
    <2>2. sub[s] = Unused /\ state[sid] = "none" /\ Attach(c, s, sid, "pending", 0, "waiting", 0)
        BY <1>4 DEF SubscribeNew, Fresh
    <2>3. Feed!Refuse(s) \/ Feed!Join(s, sid)
        BY <1>0, <2>1, <2>2, AttachStep
    <2> QED
        BY <2>3 DEF Feed!Next
<1>5. ASSUME NEW c \in Conns, NEW sid \in Sids, Unsubscribe(c, sid)
      PROVE  Feed!Next
    <2>1. PICK s \in Listeners(sid) : /\ sub' = [sub EXCEPT ![s].ref = FALSE]
                                      /\ handlers' = Without({s})
        BY <1>5 DEF Unsubscribe
    <2>2. \A r \in Subs : /\ sub'[r].conn = sub[r].conn
                          /\ sub'[r].got = sub[r].got
                          /\ sub'[r].told = sub[r].told
        BY <1>0, <2>1 DEF Typed, TypeOK, SubType
    <2>3. \A r \in Subs : InTable(r, sub', handlers') => Live(r)
        BY <1>0, <2>1, <2>2, WithoutLive
    <2>4. Settle(state, logs, reg)
        BY <1>5 DEF Unsubscribe
    <2> QED
        BY <1>0, <1>1, <2>2, <2>3, <2>4, LeaveStep
<1>6. ASSUME NEW c \in Conns, Disconnect(c)
      PROVE  Feed!Next
    <2>1. Settle(state, logs, reg) /\ sub' = sub
        BY <1>6 DEF Disconnect
    <2>2. \A r \in Subs : InTable(r, sub', handlers') => Live(r)
        BY <1>0, <1>6 DEF Disconnect, InTable, Live, Typed, TypeOK, EmptyTable
    <2> QED
        BY <1>0, <1>1, <2>1, <2>2, LeaveStep
<1>7. ASSUME NEW st, Settle(st, logs, reg), sub' = sub, handlers' = handlers
      PROVE  Feed!Next
    BY <1>0, <1>1, <1>7, LeaveStep DEF Live
<1>8. ASSUME NEW f \in Feeds, NEW sid \in Sids, Connect(f, sid)
      PROVE  Feed!Next
    BY <1>7, <1>8 DEF Connect
<1>9. ASSUME NEW f \in Feeds, Log(f)
      PROVE  Feed!Next
    <2>1. PICK sid \in Sids : feed[f] = sid
        BY <1>0, <1>9 DEF Log, Typed, TypeOK
    <2>2. Feed!Entry(sid)
        BY <1>0, <1>9, <2>1, LogStep
    <2> QED
        BY <2>2 DEF Feed!Next
<1>10. ASSUME NEW f \in Feeds, FeedCloses(f)
       PROVE  Feed!Next
    BY <1>7, <1>10 DEF FeedCloses
<1>11. ASSUME NEW sid \in Sids, WriteLogFile(sid) \/ TimerExpires(sid)
       PROVE  UNCHANGED Feed!vars
    BY <1>11, Unseen DEF WriteLogFile, TimerExpires
<1>12. ASSUME NEW sid \in Sids, Finish(sid)
       PROVE  Feed!Next \/ UNCHANGED Feed!vars
    <2>1. CASE state[sid] \in {"none", "offline"}
        BY <1>12, <2>1, Unseen DEF Finish
    <2>2. CASE state[sid] \notin {"none", "offline"}
        <3>1. /\ \A s \in Listeners(sid) : sub[s].told = << >>
              /\ Ended(sid, "closed")
            BY <1>0, <1>12, <2>2, FinishTold
        <3>2. \E st : Settle(st, logs, reg)
            BY <1>12, <2>2 DEF Finish
        <3>3. "closed" \in Notice /\ "closed" # "not_established"
            BY DEF Notice
        <3>4. Feed!End(sid, "closed")
            BY <1>0, <3>1, <3>2, <3>3, EndStep
        <3> QED
            BY <3>4 DEF Feed!Next
    <2> QED
        BY <2>1, <2>2
<1>13. ASSUME NEW sid \in Sids, OnTimer(sid)
       PROVE  Feed!Next
    <2>1. CASE GivesUp(sid)
        <3>1. /\ \A s \in Listeners(sid) : sub[s].told = << >> /\ sub[s].got = << >>
              /\ Ended(sid, "not_established")
            BY <1>0, <1>13, <2>1, GivesUpTold
        <3>2. \E st : Settle(st, logs, reg)
            BY <1>13, <2>1 DEF OnTimer
        <3>3. "not_established" \in Notice
            BY DEF Notice
        <3>4. Feed!End(sid, "not_established")
            BY <1>0, <3>1, <3>2, <3>3, EndStep
        <3> QED
            BY <3>4 DEF Feed!Next
    <2>2. CASE ~GivesUp(sid)
        BY <1>7, <1>13, <2>2 DEF OnTimer
    <2> QED
        BY <2>1, <2>2
<1>14. CASE UNCHANGED vars
    BY <1>14, Unseen DEF vars
<1> QED
    BY <1>2, <1>3, <1>4, <1>5, <1>6, <1>8, <1>9, <1>10, <1>11, <1>12, <1>13, <1>14
    DEF Next

(* The log sessions implement the abstract feed: whatever connections,      *)
(* timers, close handlers and reference counts do, every client gets the    *)
(* log from its first entry on and every notice reaches all who are served. *)
THEOREM SessionImplementsFeed == Spec => ImplementsLogFeed
<1>1. Init => Feed!Init
    BY InitFeed
<1>2. FeedInd /\ [Next]_vars => [Feed!Next]_Feed!vars
    BY NextFeed
<1> QED
    BY <1>1, <1>2, FeedInvariant, PTL DEF Spec, ImplementsLogFeed, Feed!Spec

-----------------------------------------------------------------------------
(* Who waits for news *)

(* A live subscriber that was not refused found an entry of its connection *)
(* in its session's map, or is that entry.                                 *)
Entered ==
    \A s \in Subs : Live(s) =>
        /\ sub[s].sid \in Sids
        /\ sub[s].told # NotEstablished => reg[sub[s].sid][sub[s].conn] # NoOne

(* A live subscriber's session survives a step, and its entries with it.   *)
LEMMA EnteredStep ==
    ASSUME Typed', OwnHandlers',
           NEW st, NEW lg, NEW rg, Settle(st, lg, rg),
           \A s \in Subs : InTable(s, sub', handlers') =>
               /\ sub'[s].sid \in Sids
               /\ sub'[s].told # NotEstablished => rg[sub'[s].sid][sub'[s].conn] # NoOne
    PROVE  Entered'
<1> SUFFICES ASSUME NEW s \in Subs, InTable(s, sub', handlers')
             PROVE  /\ sub'[s].sid \in Sids
                    /\ sub'[s].told # NotEstablished => reg'[sub'[s].sid][sub'[s].conn] # NoOne
    BY DEF Entered, Live
<1>1. sub'[s].conn \in Conns
    BY DEF InTable, Typed, TypeOK, SubType
<1>2. sub'[s].ref
    BY <1>1 DEF InTable, OwnHandlers
<1>3. Held(sub'[s].sid, timer', feed', sub', handlers')
    BY <1>2 DEF Held
<1> QED
    BY <1>3 DEF Settle

(* Steps that let subscribers only disappear. *)
LEMMA EnteredLeave ==
    ASSUME Typed', OwnHandlers', Entered,
           NEW st, NEW lg, Settle(st, lg, reg),
           \A s \in Subs : /\ sub'[s].conn = sub[s].conn
                           /\ sub'[s].sid = sub[s].sid
                           /\ InTable(s, sub', handlers') =>
                                  Live(s) /\ sub'[s].told = sub[s].told
    PROVE  Entered'
<1>1. \A s \in Subs : InTable(s, sub', handlers') =>
          /\ sub'[s].sid \in Sids
          /\ sub'[s].told # NotEstablished => reg[sub'[s].sid][sub'[s].conn] # NoOne
    BY DEF Entered
<1> QED
    BY <1>1, EnteredStep

(* A new subscriber enters itself unless it is refused. *)
LEMMA EnteredAttach ==
    ASSUME Typed, Typed', OwnHandlers', Entered,
           NEW c \in Conns, NEW s \in Subs, NEW sid \in Sids,
           NEW st, NEW n, NEW tm, NEW garbage,
           Attach(c, s, sid, st, n, tm, garbage)
    PROVE  Entered'
<1> DEFINE entered == IF st = "not_established" \/ reg[sid][c] # NoOne THEN reg
                      ELSE [reg EXCEPT ![sid][c] = s]
<1>1. PICK stt, lg : Settle(stt, lg, entered)
    BY DEF Attach
<1>2. /\ sub'[s].conn = c /\ sub'[s].sid = sid
      /\ st = "not_established" => sub'[s].told = NotEstablished
      /\ \A r \in Subs \ {s} : sub'[r] = sub[r]
    BY DEF Attach, NotEstablished, Typed, TypeOK
<1>3. ASSUME NEW r \in Subs, InTable(r, sub', handlers')
      PROVE  /\ sub'[r].sid \in Sids
             /\ sub'[r].told # NotEstablished => entered[sub'[r].sid][sub'[r].conn] # NoOne
    <2>1. CASE r = s
        <3>1. st # "not_established" => entered[sid][c] # NoOne
            BY SessionAssumption DEF Typed, TypeOK
        <3> QED
            BY <1>2, <2>1, <3>1
    <2>2. CASE r # s
        <3>1. Live(r) /\ sub'[r] = sub[r]
            BY <1>2, <1>3, <2>2, AttachLive
        <3>2. sub[r].conn \in Conns
            BY <3>1 DEF Live, InTable, Typed, TypeOK, SubType
        <3>3. \A x \in Sids, d \in Conns : reg[x][d] # NoOne => entered[x][d] # NoOne
            BY SessionAssumption DEF Typed, TypeOK
        <3> QED
            BY <3>1, <3>2, <3>3 DEF Entered
    <2> QED
        BY <2>1, <2>2
<1> HIDE DEF entered
<1> QED
    BY <1>1, <1>3, EnteredStep

(* Every step preserves that. *)
LEMMA NextEntered == FeedInd /\ FeedInd' /\ Entered /\ [Next]_vars => Entered'
<1> SUFFICES ASSUME FeedInd, FeedInd', Entered, [Next]_vars PROVE Entered'
    OBVIOUS
<1>0. Typed /\ Typed' /\ OwnHandlers /\ OwnHandlers'
    BY DEF FeedInd, HoldInv
<1>1. ASSUME NEW c \in Conns, NEW s \in Subs, NEW sid \in Sids,
             \/ \E g \in Keys : SubscribeExisting(c, s, sid, g)
             \/ \E n \in Indices, g \in Keys : SubscribeOffline(c, s, sid, n, g)
             \/ SubscribeNew(c, s, sid)
      PROVE  Entered'
    BY <1>0, <1>1, EnteredAttach DEF SubscribeExisting, SubscribeOffline, SubscribeNew
<1>2. ASSUME NEW c \in Conns, NEW sid \in Sids, Unsubscribe(c, sid)
      PROVE  Entered'
    <2>1. PICK s \in Listeners(sid) : /\ sub' = [sub EXCEPT ![s].ref = FALSE]
                                      /\ handlers' = Without({s})
        BY <1>2 DEF Unsubscribe
    <2>2. \A r \in Subs : /\ sub'[r].conn = sub[r].conn
                          /\ sub'[r].sid = sub[r].sid
                          /\ sub'[r].told = sub[r].told
        BY <1>0, <2>1 DEF Typed, TypeOK, SubType
    <2>3. \A r \in Subs : InTable(r, sub', handlers') => Live(r)
        BY <1>0, <2>1, <2>2, WithoutLive
    <2>4. Settle(state, logs, reg)
        BY <1>2 DEF Unsubscribe
    <2> QED
        BY <1>0, <2>2, <2>3, <2>4, EnteredLeave
<1>3. ASSUME NEW c \in Conns, Disconnect(c)
      PROVE  Entered'
    <2>1. Settle(state, logs, reg) /\ sub' = sub
        BY <1>3 DEF Disconnect
    <2>2. \A r \in Subs : InTable(r, sub', handlers') => Live(r)
        BY <1>0, <1>3 DEF Disconnect, InTable, Live, Typed, TypeOK, EmptyTable
    <2> QED
        BY <1>0, <2>1, <2>2, EnteredLeave
<1>4. ASSUME NEW st, Settle(st, logs, reg), sub' = sub, handlers' = handlers
      PROVE  Entered'
    BY <1>0, <1>4, EnteredLeave DEF Live
<1>5. ASSUME NEW f \in Feeds, Log(f)
      PROVE  Entered'
    <2>1. \E lg : Settle(state, lg, reg)
        BY <1>5 DEF Log
    <2>2. \A s \in Subs : /\ sub'[s].conn = sub[s].conn
                          /\ sub'[s].sid = sub[s].sid
                          /\ sub'[s].told = sub[s].told
        BY <1>0, <1>5 DEF Log, Typed, TypeOK, SubType
    <2>3. \A s \in Subs : InTable(s, sub', handlers') => Live(s)
        BY <1>5, <2>2 DEF Log, InTable, Live
    <2> QED
        BY <1>0, <2>1, <2>2, <2>3, EnteredLeave
<1>6. ASSUME NEW S \in SUBSET Subs, NEW notice, Dismiss(S, notice),
             NEW st, Settle(st, logs, reg)
      PROVE  Entered'
    <2>1. \A s \in Subs : /\ sub'[s].conn = sub[s].conn
                          /\ sub'[s].sid = sub[s].sid
                          /\ s \notin S => sub'[s] = sub[s]
        BY <1>0, <1>6 DEF Dismiss, Typed, TypeOK, SubType
    <2>2. \A s \in Subs : InTable(s, sub', handlers') => Live(s) /\ s \notin S
        BY <1>0, <1>6, <2>1, WithoutLive, WithoutGone DEF Dismiss
    <2> QED
        BY <1>0, <1>6, <2>1, <2>2, EnteredLeave
<1>7. ASSUME NEW sid \in Sids, Finish(sid)
      PROVE  Entered'
    <2>1. CASE state[sid] \in {"none", "offline"}
        BY <1>7, <2>1 DEF Finish, Entered, Live, InTable
    <2>2. CASE state[sid] \notin {"none", "offline"}
        BY <1>6, <1>7, <2>2 DEF Finish, Listeners
    <2> QED
        BY <2>1, <2>2
<1>8. ASSUME NEW sid \in Sids, OnTimer(sid)
      PROVE  Entered'
    <2>1. CASE GivesUp(sid)
        BY <1>6, <1>8, <2>1 DEF OnTimer, Listeners
    <2>2. CASE ~GivesUp(sid)
        BY <1>4, <1>8, <2>2 DEF OnTimer
    <2> QED
        BY <2>1, <2>2
<1>9. CASE UNCHANGED <<reg, sub, handlers>>
    BY <1>9 DEF Entered, Live, InTable
<1> QED
    BY <1>1, <1>2, <1>3, <1>4, <1>5, <1>7, <1>8, <1>9
    DEF Next, Connect, FeedCloses, WriteLogFile, TimerExpires, vars

(* A live subscriber waiting for news has a session that will bring it, or  *)
(* the session's map already has an entry of the same connection, which     *)
(* emplace does not replace.                                                *)
THEOREM OnlyTheShadowedAreDeaf == Spec => []DeafOnlyIfShadowed
<1>1. Init => Entered
    BY DEF Init, Entered, Live, InTable, Unused
<1>2. FeedInd /\ Entered => DeafOnlyIfShadowed
    <2> SUFFICES ASSUME FeedInd, Entered, NEW s \in Subs, Live(s), sub[s].told = << >>,
                        \A t \in Subs \ {s} : reg[sub[s].sid][sub[s].conn] # t
                 PROVE  /\ s \in Listeners(sub[s].sid)
                        /\ state[sub[s].sid] \in {"pending", "in_progress"}
        BY DEF DeafOnlyIfShadowed
    <2> DEFINE x == sub[s].sid
               c == sub[s].conn
    <2>1. Typed /\ NoneIsEmpty /\ ServedInv
        BY DEF FeedInd, LogInv, ToldInv
    <2>0. sub[s].told # NotEstablished /\ sub[s].told # Closed
        BY DEF NotEstablished, Closed
    <2>2. x \in Sids /\ c \in Conns /\ reg[x][c] # NoOne
        <3>1. x \in Sids /\ reg[x][c] # NoOne
            BY <2>0 DEF Entered
        <3>2. sub[s] \in SubType /\ c # NoOne
            BY <2>1 DEF Live, InTable, Typed, TypeOK
        <3> QED
            BY <3>1, <3>2 DEF SubType
    <2>3. s \in Listeners(x)
        BY <2>1, <2>2 DEF Listeners, Typed, TypeOK
    <2>4. state[x] # "none"
        BY <2>1, <2>2 DEF NoneIsEmpty, NoReg
    <2>5. state[x] # "not_established" /\ ~Over(state[x])
        BY <2>0, <2>1, <2>2, <2>3 DEF ServedInv, Reached
    <2> QED
        BY <2>1, <2>2, <2>3, <2>4, <2>5 DEF Over, States, Typed, TypeOK
<1> QED
    BY <1>1, <1>2, NextEntered, FeedInvariant, PTL DEF Spec

-----------------------------------------------------------------------------
(* Who goes silent *)

(* Unsubscribing some of the living removes no other's close handler.      *)
LEMMA WithoutOnly ==
    ASSUME Typed, OwnHandlers, NEW S \in SUBSET Subs, \A t \in S : Live(t),
           handlers' = Without(S),
           NEW s \in Subs, Live(s), sub'[s].conn = sub[s].conn, ~InTable(s, sub', handlers')
    PROVE  s \in S
<1> DEFINE c == sub[s].conn
<1>1. c \in Conns
    BY DEF Live, InTable, Typed, TypeOK, SubType
<1>2. PICK k \in DOMAIN handlers[c] : handlers[c][k] = s
    BY DEF Live, InTable
<1>3. ~(k \in DOMAIN handlers'[c] /\ handlers'[c][k] = s)
    BY DEF Live, InTable
<1>4. PICK t \in S : sub[t].conn = c /\ sub[t].key = k
    BY <1>1, <1>2, <1>3 DEF Without, Restrict
<1>5. PICK j \in DOMAIN handlers[c] : handlers[c][j] = t
    BY <1>4 DEF Live, InTable
<1>6. sub[t].key = j
    BY <1>1, <1>5 DEF OwnHandlers
<1> QED
    BY <1>2, <1>4, <1>5, <1>6

(* A new subscriber costs another one its close handler only by the        *)
(* garbage that is read when the session is over.                          *)
LEMMA AttachSilences ==
    ASSUME Typed,
           NEW c \in Conns, NEW s \in Subs, NEW sid \in Sids,
           NEW st, NEW n, NEW tm, NEW garbage,
           sub[s] = Unused,
           Attach(c, s, sid, st, n, tm, garbage),
           NEW r \in Subs, Live(r), ~InTable(r, sub', handlers')
    PROVE  sub'[s].conn = sub[r].conn /\ sub'[s].told # << >>
<1> DEFINE over == st = "not_established" \/ Over(st)
           table == IF over THEN RemoveHandler(handlers[c], garbage) ELSE handlers[c]
<1>1. handlers' = [handlers EXCEPT ![c] = AddHandler(table, s)]
    BY DEF Attach
<1>2. /\ sub'[s].conn = c
      /\ over => sub'[s].told # << >>
      /\ \A q \in Subs \ {s} : sub'[q] = sub[q]
    BY DEF Attach, Typed, TypeOK
<1>3. r # s
    BY DEF Live, InTable, Unused
<1>4. sub'[r] = sub[r] /\ sub[r].conn \in Conns
    BY <1>2, <1>3 DEF Live, InTable, Typed, TypeOK, SubType
<1>5. PICK k \in DOMAIN handlers[sub[r].conn] : handlers[sub[r].conn][k] = r
    BY DEF Live, InTable
<1>6. ~(/\ k \in DOMAIN handlers'[sub[r].conn]
        /\ handlers'[sub[r].conn][k] = r)
    BY <1>4 DEF Live, InTable
<1>7. sub[r].conn = c
    BY <1>1, <1>4, <1>5, <1>6 DEF Typed, TypeOK
<1>8. over
    <2> SUFFICES ASSUME ~over PROVE FALSE
        OBVIOUS
    <2>1. handlers'[c] = AddHandler(handlers[c], s)
        BY <1>1 DEF Typed, TypeOK
    <2> QED
        BY <1>5, <1>6, <1>7, <2>1 DEF AddHandler
<1> QED
    BY <1>2, <1>7, <1>8

(* A live subscriber nobody told anything goes silent only because its      *)
(* connection closed, because its client unsubscribed it, or because the    *)
(* same connection subscribed to a session that was already over.           *)
THEOREM NobodyIsSilencedWithoutCause == Spec => SilencedForACause
<1> DEFINE Cause(s) == \/ sub[s].conn \notin open'
                       \/ ~sub'[s].ref
                       \/ \E t \in Subs : /\ sub[t] = Unused
                                          /\ sub'[t].conn = sub[s].conn
                                          /\ sub'[t].told # << >>
<1>1. FeedInd /\ [Next]_vars => [\A s \in Subs : Silenced(s) => Cause(s)]_vars
    <2> SUFFICES ASSUME FeedInd, [Next]_vars, NEW s \in Subs, Silenced(s)
                 PROVE  Cause(s)
        OBVIOUS
    <2>0. Typed /\ OwnHandlers
        BY DEF FeedInd, HoldInv
    <2>1. Live(s) /\ ~InTable(s, sub', handlers') /\ sub'[s].told = sub[s].told
        BY DEF Silenced
    <2>2. ASSUME NEW c \in Conns, NEW t \in Subs, NEW sid \in Sids,
                 \/ \E g \in Keys : SubscribeExisting(c, t, sid, g)
                 \/ \E n \in Indices, g \in Keys : SubscribeOffline(c, t, sid, n, g)
                 \/ SubscribeNew(c, t, sid)
          PROVE  Cause(s)
        <3>1. sub[t] = Unused /\ \E st, n, tm, g : Attach(c, t, sid, st, n, tm, g)
            BY <2>2 DEF SubscribeExisting, SubscribeOffline, SubscribeNew, Fresh
        <3> QED
            BY <2>0, <2>1, <3>1, AttachSilences
    <2>3. ASSUME NEW c \in Conns, NEW sid \in Sids, Unsubscribe(c, sid)
          PROVE  Cause(s)
        <3>1. PICK t \in Listeners(sid) : /\ sub' = [sub EXCEPT ![t].ref = FALSE]
                                          /\ handlers' = Without({t})
            BY <2>3 DEF Unsubscribe
        <3>2. {t} \in SUBSET Subs /\ \A q \in {t} : Live(q)
            BY DEF Listeners
        <3>3. sub'[s].conn = sub[s].conn
            BY <2>0, <3>1 DEF Typed, TypeOK, SubType
        <3>4. s \in {t}
            BY <2>0, <2>1, <3>1, <3>2, <3>3, WithoutOnly
        <3>5. sub[s] \in SubType
            BY <2>0 DEF Typed, TypeOK
        <3>6. ~sub'[s].ref
            BY <2>0, <3>1, <3>4, <3>5 DEF Typed, TypeOK, SubType
        <3> QED
            BY <3>6
    <2>4. ASSUME NEW c \in Conns, Disconnect(c)
          PROVE  Cause(s)
        <3>1. sub' = sub /\ \A d \in Conns \ {c} : handlers'[d] = handlers[d]
            BY <2>0, <2>4 DEF Disconnect, Typed, TypeOK
        <3>2. sub[s].conn \in Conns
            BY <2>0, <2>1 DEF Live, InTable, Typed, TypeOK, SubType
        <3>3. sub[s].conn = c
            BY <2>1, <3>1, <3>2 DEF Live, InTable
        <3> QED
            BY <2>4, <3>3 DEF Disconnect
    <2>5. ASSUME NEW sid \in Sids, NEW notice, Dismiss(Listeners(sid), notice)
          PROVE  Cause(s)
        <3>1. Listeners(sid) \in SUBSET Subs /\ \A t \in Listeners(sid) : Live(t)
            BY DEF Listeners
        <3>2. /\ handlers' = Without(Listeners(sid))
              /\ sub'[s].conn = sub[s].conn
              /\ s \in Listeners(sid) => ~sub'[s].ref
            BY <2>0, <2>5 DEF Dismiss, Typed, TypeOK, SubType
        <3> QED
            BY <2>0, <2>1, <3>1, <3>2, WithoutOnly
    <2>6. ASSUME handlers' = handlers, sub'[s].conn = sub[s].conn
          PROVE  Cause(s)
        BY <2>1, <2>6 DEF Live, InTable
    <2>7. ASSUME NEW f \in Feeds, Log(f)
          PROVE  Cause(s)
        <3>1. handlers' = handlers /\ sub'[s].conn = sub[s].conn
            BY <2>0, <2>7 DEF Log, Typed, TypeOK, SubType
        <3> QED
            BY <2>6, <3>1
    <2>8. ASSUME NEW sid \in Sids, Finish(sid) \/ OnTimer(sid)
          PROVE  Cause(s)
        <3>1. \/ handlers' = handlers /\ sub' = sub
              \/ \E notice : Dismiss(Listeners(sid), notice)
            BY <2>8 DEF Finish, OnTimer
        <3> QED
            BY <2>5, <2>6, <3>1
    <2>9. CASE UNCHANGED <<handlers, sub>>
        BY <2>6, <2>9
    <2> HIDE DEF Cause
    <2> QED
        BY <2>2, <2>3, <2>4, <2>7, <2>8, <2>9
        DEF Next, Connect, FeedCloses, WriteLogFile, TimerExpires, vars
<1> QED
    BY <1>1, FeedInvariant, PTL DEF Spec, SilencedForACause

=================================================================================
