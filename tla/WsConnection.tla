----------------------------- MODULE WsConnection -----------------------------
(***************************************************************************)
(* One websocket connection of the server (net::basic_websocket_session,   *)
(* net::queued_websocket_session, net::websocket_queue).                   *)
(*                                                                         *)
(* One thread runs every completion handler, so each is one step.  Three   *)
(* loops share the connection:                                             *)
(*   reading   on_read handles a message and reads on unless the queue of  *)
(*             outgoing messages is full;                                  *)
(*   writing   on_write drops the message sent, sends the next one and, if *)
(*             the queue was full, starts the reading again;               *)
(*   timing    on_timer pings a peer that was silent for 15 s, and closes  *)
(*             the socket when 15 s more bring nothing.                    *)
(* Outgoing messages also come from job sessions and job callbacks, at any *)
(* time (Push).                                                            *)
(*                                                                         *)
(* The stream below, of Beast and outside this program, takes one          *)
(* operation of a kind at a time.  Reading is started by on_write without  *)
(* asking whether it goes on, and so is a ping by on_timer.                *)
(***************************************************************************)
EXTENDS Integers

CONSTANTS
    Limit,      \* websocket_queue::limit: 64 in the code
    MaxQueue,   \* bound on the queue's length; the code has none
    MaxReplies  \* bound on the messages one handler pushes synchronously

ASSUME WsAssumption ==
    Limit \in Nat \ {0} /\ MaxQueue \in Nat /\ MaxReplies \in Nat

VARIABLES
    status,     \* the stream: accepting, open, failed (not open), closed (by the
                \* timer); aborted: an assertion of the stream ended the program
    timer,      \* "armed", or "due" once its expiry has passed
    wait,       \* the wait on it: "waiting", "queued" (its handler will run), "none"
    ping_state, \* 0 nothing, 1 ping being sent, 2 ping sent
    pings,      \* async_ping operations that the stream works on
    reads,      \* async_read operations that the stream works on
    paused,     \* what was started besides and put aside: "read", "ping"
    queue,      \* length of messages_
    writes,     \* async_write operations outstanding
    idle        \* periods that ended since the peer was last heard of (at most 2)

vars == <<status, timer, wait, ping_state, pings, reads, paused, queue, writes, idle>>

Running == status # "aborted"

(* The object lives while the handler of some operation holds it.          *)
Exists == Running /\ (wait # "none" \/ reads > 0 \/ writes > 0 \/ pings > 0 \/ paused # {})

Usable == status = "open"

Dead == status \in {"failed", "closed"}

-----------------------------------------------------------------------------
(* timer_.expires_after: an outstanding wait completes as cancelled.       *)
Expires(when) == /\ timer' = when
                 /\ wait' = IF wait = "waiting" THEN "queued" ELSE wait

(* Called on every message and on every control frame of the peer.         *)
activity == Expires("armed") /\ idle' = 0 /\ ping_state' = 0

(* websocket_queue::send_text and send_binary, n times: the first message  *)
(* of an empty queue is sent at once.                                      *)
SendText(n) == /\ queue + n <= MaxQueue
               /\ queue' = queue + n
               /\ writes' = IF queue = 0 /\ n > 0 THEN writes + 1 ELSE writes

is_full(n) == n >= Limit

(* An operation is started while one of its kind goes on: the stream       *)
(* asserts that this does not happen.  In a build without assertions it    *)
(* puts the operation aside, with the handler that holds this object, in   *)
(* place of the one that may be there already.                             *)
Overlaps(kind) ==
    \/ status' = "aborted" /\ UNCHANGED paused
    \/ paused' = paused \cup {kind} /\ UNCHANGED status

-----------------------------------------------------------------------------
(* The websocket handshake ends. *)
OnAccept ==
    /\ status = "accepting"
    /\ \/ status' = "open" /\ reads' = reads + 1
       \/ status' = "failed" /\ UNCHANGED reads
    /\ UNCHANGED <<timer, wait, ping_state, pings, paused, queue, writes, idle>>

(* A message arrives; its handler pushes n messages. *)
OnRead(n) ==
    /\ Usable /\ reads > 0
    /\ activity
    /\ SendText(n)
    /\ reads' = reads - 1 + (IF is_full(queue') THEN 0 ELSE 1)
    /\ UNCHANGED <<status, pings, paused>>

(* A read fails, and on_read goes on: the handler runs on what is there,   *)
(* and the next read is started on the failed stream.                      *)
OnReadError(n) ==
    /\ Usable /\ reads > 0
    /\ status' = "failed"
    /\ activity
    /\ SendText(n)
    /\ reads' = reads - 1 + (IF is_full(queue') THEN 0 ELSE 1)
    /\ UNCHANGED <<pings, paused>>

(* The peer closed the websocket: the timer is made to expire now. *)
OnReadClosed ==
    /\ Usable /\ reads > 0
    /\ status' = "failed"
    /\ reads' = reads - 1
    /\ Expires("due")
    /\ ping_state' = 0 /\ idle' = 0
    /\ UNCHANGED <<pings, paused, queue, writes>>

(* A ping, pong or close frame is noticed, but only while a read is        *)
(* outstanding.                                                            *)
OnControl ==
    /\ Usable /\ reads > 0
    /\ activity
    /\ UNCHANGED <<status, pings, reads, paused, queue, writes>>

(* variant: the reader is woken when the queue is no longer full *)
WakesIfRoom(n) == n < Limit

(* websocket_queue::on_write tells whether the queue was full before the   *)
(* message left it.                                                        *)
WakesReader(n) == is_full(n)

(* variants: the next message is not sent from on_write; off by one *)
NextWriteForgotten(n) == FALSE
NextWriteAlways(n) == n >= 0

NextWrite(n) == n > 0

(* A message has been sent. *)
OnWrite ==
    /\ Usable /\ writes > 0
    /\ queue' = queue - 1
    /\ writes' = writes - 1 + (IF NextWrite(queue') THEN 1 ELSE 0)
    /\ IF ~WakesReader(queue) THEN UNCHANGED <<status, reads, paused>>
       ELSE IF reads = 0 THEN reads' = 1 /\ UNCHANGED <<status, paused>>
       ELSE Overlaps("read") /\ UNCHANGED reads
    /\ UNCHANGED <<timer, wait, ping_state, pings, idle>>

(* A write fails: the message stays in the queue and nothing is sent. *)
OnWriteError ==
    /\ Usable /\ writes > 0
    /\ status' = "failed"
    /\ writes' = writes - 1
    /\ UNCHANGED <<timer, wait, ping_state, pings, reads, paused, queue, idle>>

(* A job session or a job's callback pushes a message. *)
Push ==
    /\ Exists
    /\ status # "accepting"
    /\ SendText(1)
    /\ UNCHANGED <<status, timer, wait, ping_state, pings, reads, paused, idle>>

(* The ping has been sent. *)
OnPing ==
    /\ Usable /\ pings > 0
    /\ pings' = pings - 1
    /\ ping_state' = IF ping_state = 1 THEN 2 ELSE ping_state
    /\ UNCHANGED <<status, timer, wait, reads, paused, queue, writes, idle>>

(* A ping that was put aside is taken up when something else has been      *)
(* written, if it ever is.  A read would be by a close frame of this side, *)
(* which the program never sends.                                          *)
OnResumed ==
    /\ Running
    /\ "ping" \in paused /\ pings = 0
    /\ pings' = 1
    /\ paused' = paused \ {"ping"}
    /\ UNCHANGED <<status, timer, wait, ping_state, reads, queue, writes, idle>>

(* The operations that a stream which is not open works on complete with   *)
(* operation_aborted, and their handlers return.                           *)
OnAborted ==
    /\ Dead
    /\ \/ reads > 0 /\ reads' = reads - 1 /\ UNCHANGED <<writes, pings>>
       \/ writes > 0 /\ writes' = writes - 1 /\ UNCHANGED <<reads, pings>>
       \/ pings > 0 /\ pings' = pings - 1 /\ UNCHANGED <<reads, writes>>
    /\ UNCHANGED <<status, timer, wait, ping_state, paused, queue, idle>>

-----------------------------------------------------------------------------
(* The 15 s pass. *)
Timeout ==
    /\ Running
    /\ timer = "armed" /\ wait # "none"
    /\ timer' = "due"
    /\ wait' = "queued"
    /\ idle' = IF idle < 2 THEN idle + 1 ELSE idle
    /\ UNCHANGED <<status, ping_state, pings, reads, paused, queue, writes>>

(* variants: the expiry is not looked at again; the wait is not renewed *)
DeadlinePassedUnchecked == TRUE
WaitOnce == "none"

(* on_timer sees if the timer really expired, as its deadline may have     *)
(* moved.                                                                  *)
DeadlinePassed == timer = "due"

WaitAgain == "waiting"

OnTimer ==
    /\ Running
    /\ wait = "queued"
    /\ IF ~DeadlinePassed
       THEN /\ wait' = WaitAgain
            /\ UNCHANGED <<status, timer, ping_state, pings, paused>>
       ELSE IF Usable /\ ping_state = 0
       THEN /\ ping_state' = 1
            /\ timer' = "armed"
            /\ wait' = WaitAgain
            /\ IF pings = 0 THEN pings' = 1 /\ UNCHANGED <<status, paused>>
               ELSE Overlaps("ping") /\ UNCHANGED pings
       ELSE /\ status' = "closed"
            /\ wait' = "none"
            /\ UNCHANGED <<timer, ping_state, pings, paused>>
    /\ UNCHANGED <<reads, queue, writes, idle>>

-----------------------------------------------------------------------------
Init ==
    /\ status = "accepting"
    /\ timer = "armed"
    /\ wait = "queued"
    /\ ping_state = 0
    /\ pings = 0
    /\ reads = 0
    /\ paused = {}
    /\ queue = 0
    /\ writes = 0
    /\ idle = 0

PeerSpeaks == OnReadClosed \/ OnControl \/ \E n \in 0 .. MaxReplies : OnRead(n) \/ OnReadError(n)

Next ==
    \/ OnAccept
    \/ PeerSpeaks
    \/ OnWrite \/ OnWriteError \/ Push \/ OnPing \/ OnResumed \/ OnAborted
    \/ Timeout \/ OnTimer

Spec == Init /\ [][Next]_vars

(* The clock runs, and the io_context runs the handlers that are ready.    *)
Fairness == WF_vars(Timeout) /\ WF_vars(OnTimer) /\ WF_vars(OnAborted)

FairSpec == Spec /\ Fairness

-----------------------------------------------------------------------------
(* Properties *)

(* The type of every variable. *)
TypeOK ==
    /\ status \in {"accepting", "open", "failed", "closed", "aborted"}
    /\ timer \in {"armed", "due"}
    /\ wait \in {"waiting", "queued", "none"}
    /\ ping_state \in 0 .. 2
    /\ pings \in {0, 1}
    /\ reads \in {0, 1}
    /\ paused \subseteq {"read", "ping"}
    /\ queue \in Nat
    /\ writes \in Nat
    /\ idle \in 0 .. 2

(* Reading that stops is always started again: on an open connection with  *)
(* no read outstanding the queue is full and a write is under way, whose   *)
(* completion starts a read.  No wakeup is lost between on_read, which     *)
(* looks at the queue after the handler, and on_write, which looks before  *)
(* it drops the message, whoever pushes in between.                        *)
ReaderNeverLost == Usable /\ reads = 0 => is_full(queue) /\ writes > 0

(* Messages are written one at a time, and a message waiting in the queue  *)
(* of an open connection always has a write under way that will get to it. *)
OneWrite == Usable => writes = IF queue > 0 THEN 1 ELSE 0

(* The timer gives up on an open connection only after two whole periods   *)
(* without a message or a control frame, whatever the order of the timer's *)
(* callback, an activity that moves the deadline, and the ping.            *)
ClosedOnlyWhenIdle == [][Usable /\ status' = "closed" => idle = 2]_vars

(* A second read or ping was started while one went on: the program was    *)
(* ended by it, or the stream still keeps it.                              *)
Overlapped == ~Running \/ paused # {}

(* A peer that falls silent for good, in any state of the connection, has  *)
(* its socket closed and the connection object is destroyed, unless an     *)
(* operation was started while one of its kind went on, as on_write does   *)
(* when the queue was filled during a read: the stream may keep it, and    *)
(* with it the object, for ever.                                           *)
SilentPeerReleased ==
    <>[][~PeerSpeaks]_vars => <>[]((status = "closed" /\ ~Exists) \/ Overlapped)

(* The assertion of on_ping: a ping completes with ping_state_ 1, or 0 if  *)
(* a control frame came in.                                                *)
PingAssertion == Usable /\ pings > 0 => ping_state \in {0, 1}
==============================================================================
