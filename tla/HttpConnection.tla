---------------------------- MODULE HttpConnection ----------------------------
(***************************************************************************)
(* One HTTP connection of the server: net::http_session with its queue of  *)
(* responses and its request reader, and http::handlers_chain, which it    *)
(* hands every request to.                                                 *)
(*                                                                         *)
(* Requests are pipelined.  A header is read, the chain handles it, and    *)
(* either sends the response at once and lets the body be thrown away, or  *)
(* reads the body and sends the response after it.  When the body has been *)
(* read and the queue of responses is not full the next header is read;    *)
(* when it is full, the write that makes room for one reads it.  One       *)
(* parser object serves the reads, and is replaced on the way: empty_body  *)
(* for a header, sink_body or the handler's body type for the rest.        *)
(***************************************************************************)
EXTENDS Integers

CONSTANTS
    Limit,      \* http_session_queue::limit: 8 in the code
    MaxQueue,   \* bound on the queue's length; the code has none
    MaxReads    \* bound on the reads of one kind outstanding together

ASSUME HttpAssumption == Limit \in Nat \ {0} /\ MaxQueue \in Nat /\ MaxReads \in Nat

VARIABLES
    status,   \* "open"; "shut" by do_close; "closed" by the timer; "upgraded":
              \* moved to a websocket; an exception ended the process: "bad_cast"
              \* (of the parser) or "crashed"
    timer,    \* "armed"; "due" once expired; "min", set when it upgrades
    wait,     \* the wait on it: "waiting", "queued" (its handler will run), "none"
    parser,   \* the body type of the parser
    reads,    \* the reads outstanding, by the body type they were started with
    queue,    \* length of items_
    writes,   \* async_write operations outstanding
    failed,   \* what fail() was called for, of read and write
    late,     \* operations that had succeeded when the socket was closed or moved
    idle      \* 1 once a whole period passed since a header's read was started, else 0

vars == <<status, timer, wait, parser, reads, queue, writes, failed, late, idle>>

Bodies == {"empty", "sink", "form"}   \* a header, a body thrown away, a body kept

Reading == \E b \in Bodies : reads[b] > 0

Running == status \notin {"bad_cast", "crashed"}

(* The object lives while the handler of some operation holds it.          *)
Exists == Running /\ (wait # "none" \/ Reading \/ writes > 0)

Outstanding == {b \in Bodies : reads[b] > 0} \cup (IF writes > 0 THEN {"write"} ELSE {})

(* Whether an operation can complete well: on a socket that was closed or  *)
(* moved away only if its success was queued by then.                      *)
CanRead(b) == reads[b] > 0 /\ (status \in {"open", "shut"} \/ b \in late)

(* One of n operations ended another way.                                  *)
StillLate(op, n) == late' = IF n = 1 THEN late \ {op} ELSE late

CanWrite == writes > 0 /\ (status = "open" \/ "write" \in late)

-----------------------------------------------------------------------------
is_full(n) == n >= Limit

(* A read of kind b completes and, if "next" is a kind, one is started.    *)
ReadDone(b) == reads' = [reads EXCEPT ![b] = @ - 1]

ReadDoneThen(b, next) ==
    /\ reads[next] < MaxReads
    /\ parser' = next
    /\ reads' = [[reads EXCEPT ![b] = @ - 1] EXCEPT ![next] = @ + 1]

(* timer_.expires_after in do_read_header: a wait is cancelled.            *)
Rearm == /\ timer' = "armed"
         /\ wait' = IF wait = "waiting" THEN "queued" ELSE wait
         /\ idle' = 0

(* variants: a write is started for every response; responses that cannot  *)
(* be sent are dropped                                                     *)
SendUnlessMute(n) == IF queue > 0 /\ writes = 0 THEN UNCHANGED <<queue, writes>>
                     ELSE /\ queue + n <= MaxQueue
                          /\ queue' = queue + n
                          /\ writes' = IF queue = 0 THEN writes + 1 ELSE writes

SendAtOnce(n) == /\ queue + n <= MaxQueue
                 /\ queue' = queue + n
                 /\ writes' = writes + n

(* http_session_queue::send, n times: the first response of an empty queue *)
(* is sent at once.                                                        *)
Send(n) == /\ queue + n <= MaxQueue
           /\ queue' = queue + n
           /\ writes' = IF queue = 0 THEN writes + 1 ELSE writes

(* Shuts the sending side down; what is outstanding goes on.               *)
do_close == status' = IF status = "open" THEN "shut" ELSE status

-----------------------------------------------------------------------------
(* A header has been read.  The handlers take the address of the peer      *)
(* first: it throws when the socket is no longer connected.                *)
Header ==
    /\ CanRead("empty")
    /\ late' = late \ {"empty"}

BadCast ==
    /\ Header /\ parser # "empty"
    /\ status' = "bad_cast"
    /\ ReadDone("empty")
    /\ UNCHANGED <<timer, wait, parser, queue, writes, failed, idle>>

NoPeer ==
    /\ Header /\ parser = "empty"
    /\ status' = "crashed"
    /\ ReadDone("empty")
    /\ UNCHANGED <<timer, wait, parser, queue, writes, failed, idle>>

(* handle_upgrade: the socket goes to a websocket and the timer is done     *)
(* with.                                                                   *)
EndTimer == /\ timer' = "min"
            /\ wait' = IF wait = "waiting" THEN "queued" ELSE wait

Upgrade ==
    /\ CanRead("empty") /\ parser = "empty" /\ status \in {"open", "shut"}
    /\ late' \in SUBSET Outstanding
    /\ EndTimer
    /\ status' = "upgraded"
    /\ ReadDone("empty")
    /\ UNCHANGED <<parser, queue, writes, failed, idle>>

(* handle_upgrade of an address that is no websocket: the error handler    *)
(* answers on the socket, and the timer is done with all the same.         *)
RefuseUpgrade ==
    /\ Header /\ parser = "empty" /\ status \in {"open", "shut"}
    /\ EndTimer
    /\ Send(1)
    /\ ReadDone("empty")
    /\ UNCHANGED <<status, parser, failed, idle>>

(* handle_header: a handler answers, or the error handler does, and done() *)
(* reads the rest of the request with sink_body.                           *)
Answer ==
    /\ Header /\ parser = "empty" /\ status \in {"open", "shut"}
    /\ Send(1)
    /\ ReadDoneThen("empty", "sink")
    /\ UNCHANGED <<status, timer, wait, failed, idle>>

(* handle_header: a handler calls async_read_body, and done() does nothing.*)
KeepBody ==
    /\ Header /\ parser = "empty" /\ status \in {"open", "shut"}
    /\ ReadDoneThen("empty", "form")
    /\ UNCHANGED <<status, timer, wait, queue, writes, failed, idle>>

OnReadHeader == BadCast \/ NoPeer \/ Upgrade \/ RefuseUpgrade \/ Answer \/ KeepBody

(* The rest of a request has been read: n responses are sent by the        *)
(* callback, none for sink_body.  A refused webhook is answered twice.     *)
OnReadBody(b, n) ==
    /\ b # "empty" /\ CanRead(b)
    /\ late' = late \ {b}
    /\ IF b = "form" /\ parser # "form"
       THEN /\ status' = "bad_cast"
            /\ ReadDone(b)
            /\ UNCHANGED <<timer, wait, parser, queue, writes, idle>>
       ELSE /\ IF b = "form" THEN Send(n) ELSE UNCHANGED <<queue, writes>>
            /\ IF ~is_full(queue')
               THEN ReadDoneThen(b, "empty") /\ Rearm
               ELSE ReadDone(b) /\ UNCHANGED <<parser, timer, wait, idle>>
            /\ UNCHANGED status
    /\ UNCHANGED failed

(* The peer closed its side.                                               *)
OnReadEnd ==
    \E b \in Bodies :
        /\ reads[b] > 0 /\ status \in {"open", "shut"}
        /\ ReadDone(b)
        /\ do_close
        /\ late' \in IF status = "open" /\ writes > 0 THEN {late, late \cup {"write"}} ELSE {late}
        /\ UNCHANGED <<timer, wait, parser, queue, writes, failed, idle>>

(* A read fails, as when the request is malformed: nothing is answered.    *)
OnReadError ==
    \E b \in Bodies :
        /\ reads[b] > 0 /\ Running
        /\ ReadDone(b)
        /\ failed' = failed \cup {"read"}
        /\ StillLate(b, reads[b])
        /\ UNCHANGED <<status, timer, wait, parser, queue, writes, idle>>

(* A second read replaced the parser that an outstanding one works on.     *)
ParserLost ==
    /\ Running
    /\ \E b \in Bodies : reads[b] > 1 \/ \E c \in Bodies \ {b} : reads[b] > 0 /\ reads[c] > 0
    /\ status' = "crashed"
    /\ UNCHANGED <<timer, wait, parser, reads, queue, writes, failed, late, idle>>

(* variant: the room is looked at after the response left *)
WakesIfStillFull(n) == is_full(n - 1)

(* http_session_queue::on_write tells whether the queue was full before    *)
(* the response left it.                                                   *)
WakesReader(n) == is_full(n)

(* variant: the next response is not sent from on_write *)
NextWriteForgotten(n) == FALSE

NextWrite(n) == n > 0

(* A response has been sent, and the connection is kept. *)
OnWrite ==
    /\ CanWrite
    /\ late' = late \ {"write"}
    /\ queue' = queue - 1
    /\ writes' = writes - 1 + (IF NextWrite(queue') THEN 1 ELSE 0)
    /\ IF WakesReader(queue)
       THEN /\ reads["empty"] < MaxReads
            /\ reads' = [reads EXCEPT !["empty"] = @ + 1]
            /\ parser' = "empty"
            /\ Rearm
       ELSE UNCHANGED <<reads, parser, timer, wait, idle>>
    /\ UNCHANGED <<status, failed>>

(* A response that ends the connection has been sent: it stays the first   *)
(* of the queue, and nothing is sent after it.                             *)
OnLastWrite ==
    /\ CanWrite
    /\ late' = late \ {"write"}
    /\ writes' = writes - 1
    /\ do_close
    /\ UNCHANGED <<timer, wait, parser, reads, queue, failed, idle>>

(* A write fails: the response stays in the queue and nothing is sent.     *)
OnWriteError ==
    /\ Running /\ writes > 0
    /\ writes' = writes - 1
    /\ failed' = failed \cup {"write"}
    /\ StillLate("write", writes)
    /\ UNCHANGED <<status, timer, wait, parser, reads, queue, idle>>

-----------------------------------------------------------------------------
(* The 15 s pass. *)
Timeout ==
    /\ Running
    /\ timer = "armed" /\ wait # "none"
    /\ timer' = "due"
    /\ wait' = "queued"
    /\ idle' = 1
    /\ UNCHANGED <<status, parser, reads, queue, writes, failed, late>>

(* variants: the expiry is not looked at again; the wait is not renewed *)
DeadlinePassedUnchecked == TRUE
WaitOnce == "none"

(* on_timer sees if the timer really expired, as its deadline may have     *)
(* moved.                                                                  *)
DeadlinePassed == timer = "due"

WaitAgain == "waiting"

OnTimer ==
    /\ Running
    /\ wait = "queued"
    /\ IF timer = "min"
       THEN wait' = "none" /\ UNCHANGED <<status, late>>
       ELSE IF DeadlinePassed
       THEN /\ wait' = "none"
            /\ IF status = "upgraded" THEN UNCHANGED <<status, late>>
               ELSE status' = "closed" /\ late' \in SUBSET Outstanding
       ELSE wait' = WaitAgain /\ UNCHANGED <<status, late>>
    /\ UNCHANGED <<timer, parser, reads, queue, writes, failed, idle>>

(* operation_aborted: the handler returns. *)
OnAborted ==
    /\ status \in {"closed", "upgraded"}
    /\ \/ \E b \in Bodies :
             reads[b] > 0 /\ ReadDone(b) /\ StillLate(b, reads[b]) /\ UNCHANGED writes
       \/ writes > 0 /\ writes' = writes - 1 /\ StillLate("write", writes) /\ UNCHANGED reads
    /\ UNCHANGED <<status, timer, wait, parser, queue, failed, idle>>

-----------------------------------------------------------------------------
(* run: the first wait on the timer, and the first header. *)
Init ==
    /\ status = "open"
    /\ timer = "armed"
    /\ wait = "queued"
    /\ parser = "empty"
    /\ reads = [b \in Bodies |-> IF b = "empty" THEN 1 ELSE 0]
    /\ queue = 0
    /\ writes = 0
    /\ failed = {}
    /\ late = {}
    /\ idle = 0

(* What the peer sends; what completes on a socket that is gone is not.    *)
PeerSpeaks == (OnReadHeader \/ OnReadEnd \/ \E b \in Bodies, n \in {1, 2} : OnReadBody(b, n))
              /\ status \in {"open", "shut"}

Next ==
    \/ OnReadHeader \/ OnReadEnd \/ OnReadError \/ ParserLost
    \/ \E b \in Bodies, n \in {1, 2} : OnReadBody(b, n)
    \/ OnWrite \/ OnLastWrite \/ OnWriteError
    \/ Timeout \/ OnTimer \/ OnAborted

Spec == Init /\ [][Next]_vars

(* The clock runs, and the io_context runs the handlers that are ready; a  *)
(* peer, and the writes to it, may stand still for ever.                   *)
Fairness == WF_vars(Timeout) /\ WF_vars(OnTimer) /\ WF_vars(OnAborted)

FairSpec == Spec /\ Fairness

-----------------------------------------------------------------------------
(* Properties *)

(* The type of every variable. *)
TypeOK ==
    /\ status \in {"open", "shut", "closed", "upgraded", "bad_cast", "crashed"}
    /\ timer \in {"armed", "due", "min"}
    /\ wait \in {"waiting", "queued", "none"}
    /\ parser \in Bodies
    /\ reads \in [Bodies -> Nat]
    /\ queue \in Nat
    /\ writes \in Nat
    /\ failed \in SUBSET {"read", "write"}
    /\ late \in SUBSET (Bodies \cup {"write"})
    /\ idle \in {0, 1}

(* Reading that stops is always started again: on an open connection       *)
(* where nothing failed and no upgrade was refused, no read outstanding    *)
(* means a full queue and a write under way, whose completion reads the    *)
(* next header.  on_read_body looks at the queue after the callback, and   *)
(* on_write before it drops the response: no order of the two loses it.    *)
ReaderNeverLost ==
    status = "open" /\ failed = {} /\ timer # "min" /\ ~Reading => is_full(queue) /\ writes > 0

(* Responses leave in the order of the requests: one write at a time, and  *)
(* a response in the queue of a sound connection has a write under way     *)
(* that gets to it.                                                        *)
OneWrite == status = "open" /\ failed = {} => writes = IF queue > 0 THEN 1 ELSE 0

(* The timer closes a connection only when a whole period passed since it  *)
(* began to read its last header, whichever of on_timer and do_read_header *)
(* runs first.                                                             *)
ClosedOnlyWhenLate == [][status # "closed" /\ status' = "closed" => idle = 1]_vars

(* No request to upgrade was refused: see TimerOperated.                   *)
NoUpgradeRefused == [](timer = "min" => status = "upgraded")

(* A peer that sends nothing more, in any state of the connection, has its *)
(* socket closed and the connection is destroyed.                          *)
SilentPeerReleased ==
    NoUpgradeRefused /\ <>[][~PeerSpeaks]_vars => <>~Exists

(* A connection that can send nothing more (its sending side is shut down, *)
(* or a write failed) is destroyed even if its peer goes on with requests: *)
(* their responses fill the queue, reading stops, and the timer runs out.  *)
MuteReleased ==
    NoUpgradeRefused => (status = "shut" \/ (queue > 0 /\ writes = 0)) ~> ~Exists

(* get_parser finds the parser of the body type that the read was started  *)
(* with: a response that fills the queue while the rest of its request is  *)
(* being read must not start another read.                                 *)
ParserFits == status # "bad_cast"

(* "The timer is operated continuously": whenever the connection waits for *)
(* its peer, a wait on the timer is outstanding too.                       *)
TimerOperated == status = "open" /\ Reading => wait # "none"
==============================================================================
