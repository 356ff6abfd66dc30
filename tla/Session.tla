------------------------------- MODULE Session -------------------------------
(***************************************************************************)
(* Live log sessions: a CIS core feeds the log of a running job over TCP,  *)
(* browsers subscribe to it over their websocket connections.              *)
(*                                                                         *)
(*   cis::session_manager      sid -> weak pointer to a session            *)
(*   cis::session              state, log, subscribers, 5 s timer          *)
(*   cis::offline_session      a finished log read back from disk          *)
(*   websocket::handlers::subscriber   one subscription of one connection  *)
(*   net::websocket_queue      the close handlers that keep it alive       *)
(*                                                                         *)
(* The program runs one io_context on one thread, so a handler or a timer  *)
(* callback is one step; their order is free.  Objects are reference       *)
(* counted: a subscriber lives while a close handler of its connection     *)
(* holds it, a session while a subscriber, a feed or its timer's pending   *)
(* callback holds it.                                                      *)
(***************************************************************************)
EXTENDS CloseHandlers, Sequences

CONSTANTS
    Sids,       \* session ids
    OldSids,    \* those of sessions that ended before the server started
    Conns,      \* websocket connections (ctx.session_id, never reused)
    Feeds,      \* TCP connections of CIS cores
    Subs,       \* subscriber objects; their number bounds the subscriptions
    MaxLogs,    \* bound on the entries of one session's log
    NoOne       \* "no session", "no subscriber", "no connection"

ASSUME SessionAssumption ==
    /\ OldSids \subseteq Sids
    /\ MaxLogs \in Nat
    /\ NoOne \notin Sids \cup Conns \cup Subs

VARIABLES
    state,      \* sid -> state of its session object, "none" when there is none
    logs,       \* sid -> number of entries in received_logs_
    reg,        \* sid -> connection -> subscriber entered in subscribers_
    timer,      \* sid -> the 5 s timer and its callback
    sub,        \* subscriber -> its fields and what its client was sent
    handlers,   \* connection -> its close handlers
    open,       \* connections that are open
    feed,       \* TCP connection -> the session of its context
    disk,       \* sids that have a <sid>.combined.log file
    exited      \* sids whose job process was seen to exit

vars == <<state, logs, reg, timer, sub, handlers, open, feed, disk, exited>>

States == {"none", "pending", "not_established", "in_progress", "finished", "offline"}

Timers == {"none",      \* no callback outstanding
           "waiting",   \* armed
           "expired",   \* the callback is queued, without an error
           "aborted"}   \* the callback is queued with operation_aborted

Notice == {"closed", "not_established"}

Indices == 0 .. MaxLogs

Unused == [conn |-> NoOne, sid |-> NoOne, key |-> 0, ref |-> FALSE,
           got |-> << >>, told |-> << >>]

NoReg == [c \in Conns |-> NoOne]

Backlog(n) == [i \in 1 .. n |-> i]

-----------------------------------------------------------------------------
(* Reference counting *)

InTable(s, sb, hs) ==
    /\ sb[s].conn # NoOne
    /\ \E k \in DOMAIN hs[sb[s].conn] : hs[sb[s].conn][k] = s

Live(s) == InTable(s, sub, handlers)

(* variant: subscribers only have a weak pointer to their session *)
HeldByFeed(x, tm, fd, sb, hs) == tm[x] # "none" \/ \E f \in Feeds : fd[f] = x

Held(x, tm, fd, sb, hs) ==
    \/ tm[x] # "none"
    \/ \E f \in Feeds : fd[f] = x
    \/ \E s \in Subs : InTable(s, sb, hs) /\ sb[s].ref /\ sb[s].sid = x

(* Every step ends by destroying the session objects nobody holds any      *)
(* longer; their deleter erases them from the manager's map.               *)
Settle(st, lg, rg) ==
    LET held == {x \in Sids : Held(x, timer', feed', sub', handlers')}
    IN  /\ state' = [x \in Sids |-> IF x \in held THEN st[x] ELSE "none"]
        /\ logs'  = [x \in Sids |-> IF x \in held THEN lg[x] ELSE 0]
        /\ reg'   = [x \in Sids |-> IF x \in held THEN rg[x] ELSE NoReg]

(* The subscribers a session's notification loops reach: entered in        *)
(* subscribers_ and still locked by their weak pointer.                    *)
Listeners(sid) == {s \in Subs : Live(s) /\ reg[sid][sub[s].conn] = s}

(* variant: one table of subscribe ids for all connections *)
WithoutAnyConn(S) ==
    [c \in Conns |-> Restrict(handlers[c], DOMAIN handlers[c] \ {sub[s].key : s \in S})]

(* variant: a notice does not end the subscription *)
WithoutNone(S) == handlers

(* subscriber::unsubscribe on each of the subscribers S *)
Without(S) ==
    [c \in Conns |-> Restrict(handlers[c],
                              {k \in DOMAIN handlers[c] :
                                  \A s \in S : ~(sub[s].conn = c /\ sub[s].key = k)})]

(* session_closed / session_not_established on each of the subscribers S:  *)
(* send the notice, drop the session, drop the close handler.              *)
Dismiss(S, notice) ==
    /\ sub' = [s \in Subs |-> IF s \in S
                              THEN [sub[s] EXCEPT !.told = Append(@, notice), !.ref = FALSE]
                              ELSE sub[s]]
    /\ handlers' = Without(S)

-----------------------------------------------------------------------------
(* A browser subscribes *)

(* variant: subscribe forgets the sessions that finished while online *)
OverOffline(st) == st = "offline"

(* A session whose subscribe ends with session_closed *)
Over(st) == st \in {"finished", "offline"}

(* session::subscribe and offline_session::subscribe for a new subscriber  *)
(* s of connection c, followed by set_session, add_close_handler and       *)
(* set_subscribe_id.  A session that is over sends its notice from inside  *)
(* subscribe, where unsubscribe reads a subscribe_id_ nobody has set yet:  *)
(* garbage is its value.                                                   *)
Attach(c, s, sid, st, n, tm, garbage) ==
    LET refused == st = "not_established"
        table   == IF refused \/ Over(st) THEN RemoveHandler(handlers[c], garbage) ELSE handlers[c]
        entered == IF refused \/ reg[sid][c] # NoOne THEN reg
                   ELSE [reg EXCEPT ![sid][c] = s]
    IN  /\ handlers' = [handlers EXCEPT ![c] = AddHandler(table, s)]
        /\ sub' = [sub EXCEPT ![s] =
                      [conn |-> c, sid |-> sid, key |-> NewKey(table), ref |-> TRUE,
                       got  |-> IF refused THEN << >> ELSE Backlog(n),
                       told |-> IF refused THEN <<"not_established">>
                                ELSE IF Over(st) THEN <<"closed">> ELSE << >>]]
        /\ timer' = [timer EXCEPT ![sid] = tm]
        /\ UNCHANGED <<open, feed, disk, exited>>
        /\ Settle([state EXCEPT ![sid] = st], [logs EXCEPT ![sid] = n], entered)

Fresh(c, s) == c \in open /\ sub[s] = Unused

SubscribeExisting(c, s, sid, garbage) ==
    /\ Fresh(c, s)
    /\ state[sid] # "none"
    /\ Attach(c, s, sid, state[sid], logs[sid], timer[sid], garbage)

(* Nobody holds a session of that id, but its log file exists: it is read  *)
(* into an offline session of n entries.                                   *)
SubscribeOffline(c, s, sid, n, garbage) ==
    /\ Fresh(c, s)
    /\ state[sid] = "none"
    /\ sid \in disk
    /\ Attach(c, s, sid, "offline", n, "none", garbage)

(* Neither: the session is expected to be established within 5 s.          *)
SubscribeNew(c, s, sid) ==
    /\ Fresh(c, s)
    /\ state[sid] = "none"
    /\ sid \notin disk
    /\ Attach(c, s, sid, "pending", 0, "waiting", 0)

(* websocket::handlers::session_unsubscribe *)
Unsubscribe(c, sid) ==
    /\ c \in open
    /\ \E s \in Listeners(sid) :
          /\ sub[s].conn = c
          /\ sub' = [sub EXCEPT ![s].ref = FALSE]
          /\ handlers' = Without({s})
    /\ UNCHANGED <<timer, open, feed, disk, exited>>
    /\ Settle(state, logs, reg)

(* variant: the table outlives its connection *)
DisconnectKeepingTable(c) ==
    /\ c \in open
    /\ open' = open \ {c}
    /\ UNCHANGED <<state, logs, reg, timer, sub, handlers, feed, disk, exited>>

(* The connection object is destroyed, with its table of close handlers.   *)
Disconnect(c) ==
    /\ c \in open
    /\ open' = open \ {c}
    /\ handlers' = [handlers EXCEPT ![c] = EmptyTable]
    /\ UNCHANGED <<timer, sub, feed, disk, exited>>
    /\ Settle(state, logs, reg)

-----------------------------------------------------------------------------
(* The CIS core *)

(* session_auth: session_manager::connect, then the context keeps it.      *)
(* A core never gives a new session the id of an old one.                  *)
Connect(f, sid) ==
    LET new == state[sid] = "none"
    IN  /\ sid \notin OldSids
        /\ feed' = [feed EXCEPT ![f] = sid]
        /\ timer' = [timer EXCEPT ![sid] = IF new \/ @ = "waiting" THEN "aborted" ELSE @]
        /\ UNCHANGED <<sub, handlers, open, disk, exited>>
        /\ Settle([state EXCEPT ![sid] = IF @ = "offline" THEN @ ELSE "in_progress"],
                  logs, reg)

(* variant: entries are passed on but not stored *)
LogFanOutOnly(f) ==
    /\ feed[f] # NoOne
    /\ sub' = [s \in Subs |-> IF s \in Listeners(feed[f])
                              THEN [sub[s] EXCEPT !.got = Append(@, Len(@) + 1)]
                              ELSE sub[s]]
    /\ UNCHANGED <<state, logs, reg, timer, handlers, open, feed, disk, exited>>

(* log_entry: session::log stores the entry and fans it out.               *)
Log(f) ==
    /\ feed[f] # NoOne
    /\ LET sid == feed[f]
       IN  /\ logs[sid] < MaxLogs
           /\ sub' = [s \in Subs |-> IF s \in Listeners(sid)
                                     THEN [sub[s] EXCEPT !.got = Append(@, logs[sid] + 1)]
                                     ELSE sub[s]]
           /\ UNCHANGED <<timer, handlers, open, feed, disk, exited>>
           /\ Settle(state, [logs EXCEPT ![sid] = @ + 1], reg)

(* The TCP connection ends and its context is destroyed. *)
FeedCloses(f) ==
    /\ feed[f] # NoOne
    /\ feed' = [feed EXCEPT ![f] = NoOne]
    /\ UNCHANGED <<timer, sub, handlers, open, disk, exited>>
    /\ Settle(state, logs, reg)

(* The core creates the session's log file. *)
WriteLogFile(sid) ==
    /\ sid \notin disk
    /\ disk' = disk \cup {sid}
    /\ UNCHANGED <<state, logs, reg, timer, sub, handlers, open, feed, exited>>

(* The job's process exits: session_manager::finish_session, once for a    *)
(* sid.  An offline session ignores it.                                    *)
Finish(sid) ==
    /\ sid \notin exited
    /\ exited' = exited \cup {sid}
    /\ UNCHANGED <<timer, open, feed, disk>>
    /\ IF state[sid] \in {"none", "offline"}
       THEN UNCHANGED <<state, logs, reg, sub, handlers>>
       ELSE /\ Dismiss(Listeners(sid), "closed")
            /\ Settle([state EXCEPT ![sid] = "finished"], logs, reg)

-----------------------------------------------------------------------------
(* The establishment timer *)

TimerExpires(sid) ==
    /\ timer[sid] = "waiting"
    /\ timer' = [timer EXCEPT ![sid] = "expired"]
    /\ UNCHANGED <<state, logs, reg, sub, handlers, open, feed, disk, exited>>

(* variants: the state is not looked at again; the error code is inverted *)
GivesUpAnyway(sid) == timer[sid] = "expired"
GivesUpOnAbort(sid) == timer[sid] = "aborted" /\ state[sid] = "pending"

(* The callback finds nothing changed since the timer expired. *)
GivesUp(sid) == timer[sid] = "expired" /\ state[sid] = "pending"

(* session::on_timer; its return releases the reference it held. *)
OnTimer(sid) ==
    /\ timer[sid] \in {"expired", "aborted"}
    /\ timer' = [timer EXCEPT ![sid] = "none"]
    /\ UNCHANGED <<open, feed, disk, exited>>
    /\ IF GivesUp(sid)
       THEN /\ Dismiss(Listeners(sid), "not_established")
            /\ Settle([state EXCEPT ![sid] = "not_established"], logs, reg)
       ELSE /\ UNCHANGED <<sub, handlers>>
            /\ Settle(state, logs, reg)

-----------------------------------------------------------------------------
Init ==
    /\ state    = [x \in Sids |-> "none"]
    /\ logs     = [x \in Sids |-> 0]
    /\ reg      = [x \in Sids |-> NoReg]
    /\ timer    = [x \in Sids |-> "none"]
    /\ sub      = [s \in Subs |-> Unused]
    /\ handlers = [c \in Conns |-> EmptyTable]
    /\ open     = Conns
    /\ feed     = [f \in Feeds |-> NoOne]
    /\ disk     = OldSids
    /\ exited   = {}

Next ==
    \/ \E c \in Conns, s \in Subs, sid \in Sids :
          \/ \E garbage \in Keys : SubscribeExisting(c, s, sid, garbage)
          \/ \E n \in Indices, garbage \in Keys : SubscribeOffline(c, s, sid, n, garbage)
          \/ SubscribeNew(c, s, sid)
    \/ \E c \in Conns, sid \in Sids : Unsubscribe(c, sid)
    \/ \E c \in Conns : Disconnect(c)
    \/ \E f \in Feeds, sid \in Sids : Connect(f, sid)
    \/ \E f \in Feeds : Log(f) \/ FeedCloses(f)
    \/ \E sid \in Sids : WriteLogFile(sid) \/ Finish(sid) \/ TimerExpires(sid) \/ OnTimer(sid)

Spec == Init /\ [][Next]_vars

(* The clock runs and the io_context gets round to every queued callback. *)
Fairness == \A sid \in Sids : WF_vars(TimerExpires(sid)) /\ WF_vars(OnTimer(sid))

FairSpec == Spec /\ Fairness
-----------------------------------------------------------------------------
(* Properties *)

(* The type of every variable: keys stay in the range of uint32_t, a        *)
(* subscriber's notices and log indices are what the handlers can send.     *)
SubType == [conn : Conns \cup {NoOne}, sid : Sids \cup {NoOne}, key : Keys,
            ref : BOOLEAN, got : Seq(Nat), told : Seq(Notice)]

IsTable(h) == DOMAIN h \subseteq Keys /\ h \in [DOMAIN h -> Subs]

TypeOK ==
    /\ state \in [Sids -> States]
    /\ logs \in [Sids -> Nat]
    /\ reg \in [Sids -> [Conns -> Subs \cup {NoOne}]]
    /\ timer \in [Sids -> Timers]
    /\ sub \in [Subs -> SubType]
    /\ DOMAIN handlers = Conns
    /\ \A c \in Conns : IsTable(handlers[c])
    /\ open \subseteq Conns
    /\ feed \in [Feeds -> Sids \cup {NoOne}]
    /\ disk \subseteq Sids
    /\ exited \subseteq Sids

(* session::subscribe replays the log, session::log fans out: across        *)
(* backlog and live entries no client sees a gap, a duplicate or a          *)
(* reordering, and one the session still reaches has all of its log.        *)
WholeLog ==
    /\ \A s \in Subs : sub[s].got = Backlog(Len(sub[s].got))
    /\ \A x \in Sids : \A s \in Listeners(x) : sub[s].got = Backlog(logs[x])

(* No live subscriber of a session that is over is left without notice,     *)
(* whichever of finish, on_timer and subscribe came first.                  *)
OverIsTold ==
    \A x \in Sids : \A s \in Listeners(x) :
        /\ state[x] \in {"finished", "offline"} => sub[s].told = <<"closed">>
        /\ state[x] # "not_established"

(* A client told that its session was not established has been sent no log, *)
(* although connect may come between the timer's expiry and its callback    *)
(* and may revive a session that was given up.                              *)
NotEstablishedSawNothing ==
    \A s \in Subs : "not_established" \in {sub[s].told[i] : i \in DOMAIN sub[s].told}
                        => sub[s].got = << >> /\ Len(sub[s].told) = 1

(* A live subscriber waiting for news has a session that will bring it, or  *)
(* the session's map already has an entry of the same connection, which     *)
(* emplace does not replace: subscribing again gets the backlog only.       *)
DeafOnlyIfShadowed ==
    \A s \in Subs : Live(s) /\ sub[s].told = << >> =>
        \/ s \in Listeners(sub[s].sid) /\ state[sub[s].sid] \in {"pending", "in_progress"}
        \/ \E t \in Subs \ {s} : reg[sub[s].sid][sub[s].conn] = t

(* Because add_close_handler counts down from the largest key, a connection *)
(* never keeps more than three close handlers: whatever it subscribes to    *)
(* beyond that is dropped at once.                                          *)
AtMostThree == \A c \in Conns : Cardinality(DOMAIN handlers[c]) <= 3

(* A live subscriber nobody told anything goes silent only because its      *)
(* connection closed, because its client unsubscribed it, or because the    *)
(* same connection subscribed to a session that was already over, whose     *)
(* unsubscribe erased the close handler of an unset subscribe_id_.          *)
Silenced(s) == Live(s) /\ ~InTable(s, sub', handlers') /\ sub'[s].told = sub[s].told

SilencedForACause ==
    [][\A s \in Subs : Silenced(s) =>
          \/ sub[s].conn \notin open'
          \/ ~sub'[s].ref
          \/ \E t \in Subs : /\ sub[t] = Unused
                             /\ sub'[t].conn = sub[s].conn
                             /\ sub'[t].told # << >>]_vars

(* The subscriptions implement the abstract feed: whatever connections,     *)
(* timers and reference counts do, every client gets the log from its       *)
(* first entry on, every notice reaches all who are served, is their first, *)
(* and is the last they hear of a session that was running; a log is        *)
(* forgotten, and starts again from nothing, only when it serves nobody.    *)
Feed == INSTANCE LogFeed
          WITH Topics <- Sids, Clients <- Subs, log <- logs,
               served <- [x \in Sids |-> Listeners(x)],
               got <- [s \in Subs |-> sub[s].got],
               told <- [s \in Subs |-> sub[s].told]

ImplementsLogFeed == Feed!Spec

(* A pending session does not stay pending: the timer's callback gives it   *)
(* up unless a feed establishes it or everybody leaves.                     *)
PendingResolved == \A x \in Sids : state[x] = "pending" ~> state[x] # "pending"

(* Once no feed and no open connection uses a session, it is destroyed:     *)
(* neither a timer callback nor a reference cycle keeps it.                 *)
Unwanted(x) == /\ \A f \in Feeds : feed[f] # x
               /\ \A s \in Subs : sub[s].sid = x => sub[s].conn \notin open

SessionReleased == \A x \in Sids : Unwanted(x) ~> (state[x] = "none" \/ ~Unwanted(x))

(* The comment in offline_session::establish: a feed connects to a session  *)
(* read back from disk only if a new session has the id of an old one.      *)
(* Here no id is ever reused: Connect refuses the ids of old sessions.      *)
OfflineNeverEstablished == \A f \in Feeds : feed[f] # NoOne => state[feed[f]] # "offline"
==============================================================================
