-------------------------- MODULE WsConnectionProofs --------------------------
(***************************************************************************)
(* Theorems about WsConnection, for any queue limit and any bounds.        *)
(***************************************************************************)
EXTENDS WsConnection, TLAPS

(* Nothing is read or queued before the handshake is over.                  *)
NothingYet == status = "accepting" => reads = 0 /\ queue = 0 /\ writes = 0

(* Reading, writing and their types.  The facts hold of an open connection *)
(* only: a failed one keeps what its queue held.                           *)
FlowInv == TypeOK /\ NothingYet /\ ReaderNeverLost /\ OneWrite

LEMMA InitFlow == Init => FlowInv
BY DEF Init, FlowInv, TypeOK, NothingYet, ReaderNeverLost, OneWrite, Usable

LEMMA NextFlow == FlowInv /\ [Next]_vars => FlowInv'
<1> SUFFICES ASSUME FlowInv, [Next]_vars PROVE FlowInv'
    OBVIOUS
<1> USE WsAssumption DEF FlowInv, TypeOK, NothingYet, ReaderNeverLost, OneWrite, Usable, Running,
           is_full, Overlaps
<1>1. CASE OnAccept
    BY <1>1 DEF OnAccept
<1>2. ASSUME NEW n \in 0 .. MaxReplies, OnRead(n)
      PROVE  FlowInv'
    BY <1>2 DEF OnRead, activity, Expires, SendText
<1>3. ASSUME NEW n \in 0 .. MaxReplies, OnReadError(n)
      PROVE  FlowInv'
    BY <1>3 DEF OnReadError, activity, Expires, SendText
<1>4. CASE OnReadClosed
    BY <1>4 DEF OnReadClosed, Expires
<1>5. CASE OnControl
    BY <1>5 DEF OnControl, activity, Expires
<1>6. CASE OnWrite
    <2>1. /\ status = "open" /\ writes = 1 /\ queue > 0
          /\ queue' = queue - 1
          /\ writes' = IF queue' > 0 THEN 1 ELSE 0
          /\ UNCHANGED <<timer, wait, ping_state, pings, idle>>
        BY <1>6 DEF OnWrite, NextWrite
    <2>2. CASE ~WakesReader(queue) \/ reads = 0
        <3>1. UNCHANGED <<status, paused>>
            BY <1>6, <2>2 DEF OnWrite
        <3>2. reads' = IF WakesReader(queue) THEN 1 ELSE reads
            BY <1>6, <2>2 DEF OnWrite
        <3> QED
            BY <2>1, <3>1, <3>2 DEF WakesReader
    <2>3. CASE WakesReader(queue) /\ reads # 0
        <3>1. Overlaps("read") /\ reads' = 1
            BY <1>6, <2>3 DEF OnWrite
        <3>2. paused' \subseteq {"read", "ping"}
            BY <3>1, Zenon
        <3>3. status' \in {"open", "aborted"}
            BY <2>1, <3>1
        <3> QED
            BY <2>1, <3>1, <3>2, <3>3
    <2> QED
        BY <2>2, <2>3
<1>7. CASE OnWriteError
    BY <1>7 DEF OnWriteError
<1>8. CASE Push
    BY <1>8 DEF Push, SendText
<1>9. CASE OnPing
    BY <1>9 DEF OnPing
<1>10. CASE OnAborted
    BY <1>10 DEF OnAborted, Dead
<1>11. CASE OnResumed
    <2>1. paused' \subseteq {"read", "ping"}
        BY <1>11, Zenon DEF OnResumed
    <2>2. pings' = 1 /\ UNCHANGED <<status, timer, wait, ping_state, reads, queue, writes, idle>>
        BY <1>11 DEF OnResumed
    <2> QED
        BY <2>1, <2>2
<1>12. CASE Timeout
    BY <1>12 DEF Timeout
<1>13. CASE OnTimer
    <2>1. /\ UNCHANGED <<reads, queue, writes, idle>>
          /\ pings' \in {0, 1} /\ ping_state' \in 0 .. 2
          /\ timer' \in {"armed", "due"} /\ wait' \in {"waiting", "queued", "none"}
          /\ status' = status \/ status' \in {"aborted", "closed"}
        BY <1>13 DEF OnTimer, DeadlinePassed, WaitAgain
    <2>2. paused' = paused \/ paused' = paused \cup {"ping"}
        BY <1>13 DEF OnTimer
    <2>3. paused' \subseteq {"read", "ping"}
        BY <2>2, Zenon
    <2> QED
        BY <2>1, <2>3
<1>14. CASE UNCHANGED vars
    BY <1>14 DEF vars
<1> QED
    BY <1>1, <1>2, <1>3, <1>4, <1>5, <1>6, <1>7, <1>8, <1>9, <1>10, <1>11, <1>12, <1>13, <1>14
    DEF Next, PeerSpeaks

(* Every variable keeps its type. *)
THEOREM TypeCorrect == Spec => []TypeOK
<1>1. FlowInv => TypeOK
    BY DEF FlowInv
<1> QED
    BY <1>1, InitFlow, NextFlow, PTL DEF Spec

(* on_read and on_write never both leave the connection without a reader:   *)
(* an open connection that reads nothing has a full queue being written.    *)
THEOREM NoLostReader == Spec => []ReaderNeverLost
<1>1. FlowInv => ReaderNeverLost
    BY DEF FlowInv
<1> QED
    BY <1>1, InitFlow, NextFlow, PTL DEF Spec

(* websocket_queue::send is called exactly when no write is outstanding.    *)
THEOREM WritesAreSerial == Spec => []OneWrite
<1>1. FlowInv => OneWrite
    BY DEF FlowInv
<1> QED
    BY <1>1, InitFlow, NextFlow, PTL DEF Spec

-----------------------------------------------------------------------------
(* What the timer's state says of the time since the peer was heard of: a   *)
(* deadline that passed is a period that ended, and a ping was only sent    *)
(* after one.                                                               *)
IdleInv ==
    /\ timer = "due" /\ status \in {"accepting", "open"} => idle >= 1
    /\ ping_state # 0 => idle >= 1
    /\ ping_state # 0 /\ timer = "due" => idle = 2
    /\ status = "accepting" => ping_state = 0

LEMMA InitIdle == Init => IdleInv
BY DEF Init, IdleInv

LEMMA NextIdle == TypeOK /\ IdleInv /\ [Next]_vars => IdleInv'
<1> SUFFICES ASSUME TypeOK, IdleInv, [Next]_vars PROVE IdleInv'
    OBVIOUS
<1> USE DEF TypeOK, IdleInv, Usable
<1>1. CASE OnAccept
    BY <1>1 DEF OnAccept
<1>2. CASE PeerSpeaks
    BY <1>2 DEF PeerSpeaks, OnRead, OnReadError, OnReadClosed, OnControl, activity, Expires
<1>3. CASE OnWrite \/ OnWriteError \/ Push \/ OnAborted \/ OnResumed
    BY <1>3 DEF OnWrite, OnWriteError, Push, OnAborted, OnResumed, Overlaps, Dead
<1>4. CASE OnPing
    BY <1>4 DEF OnPing
<1>5. CASE Timeout
    BY <1>5 DEF Timeout
<1>6. CASE OnTimer
    BY <1>6 DEF OnTimer, DeadlinePassed, WaitAgain, Overlaps
<1>7. CASE UNCHANGED vars
    BY <1>7 DEF vars
<1> QED
    BY <1>1, <1>2, <1>3, <1>4, <1>5, <1>6, <1>7 DEF Next

(* on_timer closes the socket of an open connection only after two whole    *)
(* periods in which the peer sent nothing.                                  *)
THEOREM IdleBeforeClose == Spec => ClosedOnlyWhenIdle
<1> DEFINE Late == Usable /\ status' = "closed" => idle = 2
<1>1. ASSUME TypeOK, IdleInv, [Next]_vars
      PROVE  [Late]_vars
    <2>1. CASE OnTimer
        BY <1>1, <2>1 DEF OnTimer, DeadlinePassed, Usable, IdleInv, TypeOK, Overlaps
    <2>2. CASE ~OnTimer
        BY <1>1, <2>2
        DEF Next, PeerSpeaks, OnAccept, OnRead, OnReadError, OnReadClosed, OnControl, OnWrite,
            OnWriteError, Push, OnPing, OnAborted, OnResumed, Overlaps, Timeout, Usable, vars
    <2> QED
        BY <2>1, <2>2
<1>2. TypeOK /\ IdleInv /\ [Next]_vars => [Late]_vars
    BY <1>1
<1>3. Spec => []IdleInv
    BY InitIdle, NextIdle, TypeCorrect, PTL DEF Spec
<1> QED
    BY <1>2, <1>3, TypeCorrect, PTL DEF Spec, ClosedOnlyWhenIdle
==============================================================================
