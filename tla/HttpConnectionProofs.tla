------------------------- MODULE HttpConnectionProofs -------------------------
(***************************************************************************)
(* Theorems about HttpConnection, for any queue limit and any bounds.      *)
(***************************************************************************)
EXTENDS HttpConnection, TLAPS

(* In every state, also of a connection that failed or was closed, the     *)
(* only write is that of the first response.                               *)
FrontWrite == writes \in {0, 1} /\ (writes = 1 => queue > 0)

FlowInv == TypeOK /\ FrontWrite /\ ReaderNeverLost /\ OneWrite

(* Sending n responses keeps the only write that of the first.             *)
LEMMA SendKeeps ==
    ASSUME queue \in Nat, FrontWrite, NEW n \in {1, 2}, Send(n)
    PROVE  /\ queue' \in Nat /\ queue' > 0
           /\ FrontWrite'
           /\ (writes = IF queue > 0 THEN 1 ELSE 0) => writes' = 1
BY DEF Send, FrontWrite

(* A read that ends, and one that is started in its place.                 *)
LEMMA ReadsKeep ==
    ASSUME reads \in [Bodies -> Nat], NEW b \in Bodies, reads[b] > 0
    PROVE  /\ ReadDone(b) => reads' \in [Bodies -> Nat]
           /\ \A next \in Bodies :
                  ReadDoneThen(b, next) => reads' \in [Bodies -> Nat] /\ Reading'
BY DEF ReadDone, ReadDoneThen, Reading

LEMMA InitFlow == Init => FlowInv
BY DEF Init, FlowInv, TypeOK, FrontWrite, ReaderNeverLost, OneWrite, Bodies, Reading

LEMMA NextFlow == FlowInv /\ [Next]_vars => FlowInv'
<1> SUFFICES ASSUME FlowInv, [Next]_vars PROVE FlowInv'
    OBVIOUS
<1> USE HttpAssumption DEF FlowInv, TypeOK, ReaderNeverLost, OneWrite, is_full
<1>0. /\ "empty" \in Bodies /\ "sink" \in Bodies /\ "form" \in Bodies
      /\ \A b \in Bodies : b = "empty" \/ b = "sink" \/ b = "form"
    BY DEF Bodies
<1>1. CASE BadCast \/ NoPeer
    BY <1>0, <1>1, ReadsKeep DEF BadCast, NoPeer, Header, CanRead, FrontWrite
<1>2. CASE Upgrade
    BY <1>0, <1>2, ReadsKeep DEF Upgrade, CanRead, EndTimer, Outstanding, FrontWrite
<1>3. CASE RefuseUpgrade
    BY <1>0, <1>3, ReadsKeep, SendKeeps DEF RefuseUpgrade, Header, CanRead, EndTimer, FrontWrite
<1>4. CASE Answer
  <2>1. /\ queue' \in Nat /\ FrontWrite'
        /\ (writes = IF queue > 0 THEN 1 ELSE 0) => queue' > 0 /\ writes' = 1
      BY <1>4, SendKeeps DEF Answer
  <2>2. reads' \in [Bodies -> Nat] /\ Reading' /\ parser' = "sink"
      BY <1>0, <1>4, ReadsKeep DEF Answer, Header, CanRead, ReadDoneThen
  <2>3. late' \in SUBSET (Bodies \cup {"write"}) /\ UNCHANGED <<status, timer, wait, failed, idle>>
      BY <1>4 DEF Answer, Header
  <2> QED
      BY <1>0, <2>1, <2>2, <2>3 DEF FrontWrite
<1>5. CASE KeepBody
  <2>1. reads' \in [Bodies -> Nat] /\ Reading' /\ parser' = "form"
      BY <1>0, <1>5, ReadsKeep DEF KeepBody, Header, CanRead, ReadDoneThen
  <2> QED
      BY <1>0, <1>5, <2>1 DEF KeepBody, Header, FrontWrite
<1>6. ASSUME NEW b \in Bodies, NEW n \in {1, 2}, OnReadBody(b, n)
      PROVE  FlowInv'
  <2>1. CASE b = "form" /\ parser # "form"
      BY <1>0, <1>6, <2>1, ReadsKeep DEF OnReadBody, CanRead, FrontWrite
  <2>2. CASE ~(b = "form" /\ parser # "form")
    <3>1. /\ queue' \in Nat /\ FrontWrite'
          /\ (writes = IF queue > 0 THEN 1 ELSE 0) => writes' = IF queue' > 0 THEN 1 ELSE 0
        BY <1>6, <2>2, SendKeeps DEF OnReadBody, FrontWrite
    <3>2. late' \in SUBSET (Bodies \cup {"write"}) /\ UNCHANGED <<status, failed>>
        BY <1>6, <2>2 DEF OnReadBody
    <3>3. CASE queue' >= Limit
        BY <1>0, <1>6, <2>2, <3>1, <3>2, <3>3, ReadsKeep DEF OnReadBody, CanRead, FrontWrite
    <3>4. CASE ~(queue' >= Limit)
      <4>1. ReadDoneThen(b, "empty") /\ Rearm
          BY <1>6, <2>2, <3>4 DEF OnReadBody
      <4>2. reads' \in [Bodies -> Nat] /\ Reading' /\ parser' = "empty"
          BY <1>0, <1>6, <4>1, ReadsKeep DEF OnReadBody, CanRead, ReadDoneThen
      <4> QED
          BY <1>0, <3>1, <3>2, <4>1, <4>2 DEF Rearm, FrontWrite
    <3> QED
        BY <3>3, <3>4
  <2> QED
      BY <2>1, <2>2
<1>7. CASE OnReadEnd
    BY <1>0, <1>7, ReadsKeep DEF OnReadEnd, do_close, FrontWrite
<1>8. CASE OnReadError
    BY <1>0, <1>8, ReadsKeep DEF OnReadError, StillLate, FrontWrite
<1>9. CASE ParserLost
    BY <1>9 DEF ParserLost, FrontWrite
<1>10. CASE OnWrite
  <2>1. /\ queue' \in Nat /\ FrontWrite'
        /\ writes' = IF queue' > 0 THEN 1 ELSE 0
        /\ late' \in SUBSET (Bodies \cup {"write"}) /\ UNCHANGED <<status, failed>>
      BY <1>10 DEF OnWrite, CanWrite, NextWrite, FrontWrite
  <2>2. CASE queue >= Limit
    <3>1. reads' = [reads EXCEPT !["empty"] = @ + 1] /\ parser' = "empty" /\ Rearm
        BY <1>10, <2>2 DEF OnWrite, WakesReader
    <3>2. reads' \in [Bodies -> Nat] /\ reads'["empty"] > 0
        BY <1>0, <3>1
    <3> QED
        BY <1>0, <2>1, <3>1, <3>2 DEF Rearm, Reading
  <2>3. CASE ~(queue >= Limit)
      BY <1>10, <2>1, <2>3 DEF OnWrite, WakesReader, CanWrite, Reading
  <2> QED
      BY <2>2, <2>3
<1>11. CASE OnLastWrite
    BY <1>11 DEF OnLastWrite, CanWrite, do_close, FrontWrite
<1>12. CASE OnWriteError
    BY <1>12 DEF OnWriteError, StillLate, FrontWrite
<1>13. CASE Timeout
    BY <1>13 DEF Timeout, FrontWrite, Reading
<1>14. CASE OnTimer
    BY <1>14 DEF OnTimer, DeadlinePassed, WaitAgain, Outstanding, FrontWrite, Reading
<1>15. CASE OnAborted
  <2>1. reads' \in [Bodies -> Nat]
      BY <1>0, <1>15, ReadsKeep DEF OnAborted
  <2>2. FrontWrite'
      BY <1>15 DEF OnAborted, FrontWrite
  <2>3. late' \in SUBSET (Bodies \cup {"write"})
      BY <1>15 DEF OnAborted, StillLate
  <2> QED
      BY <1>15, <2>1, <2>2, <2>3 DEF OnAborted, FrontWrite
<1>16. CASE UNCHANGED vars
    BY <1>16 DEF vars, FrontWrite, Reading
<1> QED
    BY <1>1, <1>2, <1>3, <1>4, <1>5, <1>6, <1>7, <1>8, <1>9, <1>10, <1>11, <1>12, <1>13,
       <1>14, <1>15, <1>16
    DEF Next, OnReadHeader

(* Every variable keeps its type; on_write's assertion that the queue is    *)
(* not empty is the part of it that TypeOK' needs.                          *)
THEOREM TypeCorrect == Spec => []TypeOK
<1>1. FlowInv => TypeOK
    BY DEF FlowInv
<1> QED
    BY <1>1, InitFlow, NextFlow, PTL DEF Spec

(* on_read_body and on_write never both leave the connection without a      *)
(* reader.                                                                  *)
THEOREM NoLostReader == Spec => []ReaderNeverLost
<1>1. FlowInv => ReaderNeverLost
    BY DEF FlowInv
<1> QED
    BY <1>1, InitFlow, NextFlow, PTL DEF Spec

(* Responses are written one at a time, and none waits without a write that *)
(* gets to it.                                                              *)
THEOREM WritesAreSerial == Spec => []OneWrite
<1>1. FlowInv => OneWrite
    BY DEF FlowInv
<1> QED
    BY <1>1, InitFlow, NextFlow, PTL DEF Spec

-----------------------------------------------------------------------------
(* A deadline that passed is a whole period since the last header's read    *)
(* was started.                                                             *)
LateInv == timer = "due" => idle = 1

LEMMA InitLate == Init => LateInv
BY DEF Init, LateInv

LEMMA NextLate == LateInv /\ [Next]_vars => LateInv'
<1> SUFFICES ASSUME LateInv, [Next]_vars PROVE LateInv'
    OBVIOUS
<1> USE DEF LateInv
<1>1. CASE OnReadHeader
    BY <1>1 DEF OnReadHeader, BadCast, NoPeer, Upgrade, RefuseUpgrade, Answer, KeepBody, EndTimer
<1>2. CASE OnReadEnd \/ OnReadError \/ ParserLost \/ OnLastWrite \/ OnWriteError \/ OnAborted
    BY <1>2 DEF OnReadEnd, OnReadError, ParserLost, OnLastWrite, OnWriteError, OnAborted
<1>3. ASSUME NEW b \in Bodies, NEW n \in {1, 2}, OnReadBody(b, n)
      PROVE  LateInv'
    BY <1>3 DEF OnReadBody, Rearm
<1>4. CASE OnWrite
    BY <1>4 DEF OnWrite, Rearm
<1>5. CASE Timeout \/ OnTimer
    BY <1>5 DEF Timeout, OnTimer
<1>6. CASE UNCHANGED vars
    BY <1>6 DEF vars
<1> QED
    BY <1>1, <1>2, <1>3, <1>4, <1>5, <1>6 DEF Next

(* on_timer closes the socket only when a whole period passed since the     *)
(* last header's read was started.                                          *)
THEOREM LateBeforeClose == Spec => ClosedOnlyWhenLate
<1> DEFINE InTime == status # "closed" /\ status' = "closed" => idle = 1
<1>1. ASSUME LateInv, [Next]_vars
      PROVE  [InTime]_vars
    <2>1. CASE OnTimer
        BY <1>1, <2>1 DEF OnTimer, DeadlinePassed, LateInv
    <2>2. CASE ~OnTimer
        BY <1>1, <2>2
        DEF Next, OnReadHeader, BadCast, NoPeer, Upgrade, RefuseUpgrade, Answer, KeepBody,
            OnReadBody, OnReadEnd, OnReadError, ParserLost, OnWrite, OnLastWrite, OnWriteError,
            Timeout, OnAborted, do_close, vars
    <2> QED
        BY <2>1, <2>2
<1>2. LateInv /\ [Next]_vars => [InTime]_vars
    BY <1>1
<1>3. Spec => []LateInv
    BY InitLate, NextLate, PTL DEF Spec
<1> QED
    BY <1>2, <1>3, PTL DEF Spec, ClosedOnlyWhenLate
==============================================================================
