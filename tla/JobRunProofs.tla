----------------------------- MODULE JobRunProofs -----------------------------
(***************************************************************************)
(* The safety properties of a job run, for every number of lines.          *)
(***************************************************************************)
EXTENDS JobRun, TLAPS

Alive == chain \in {"posted", "held", "resumed"}

(* How far the chain, the process and the handling of its end have come.   *)
StageInv ==
    /\ chain = "posted" => child = "none"
    /\ child = "none" => out = << >> /\ seen = Never
    /\ child = "running" => chain = "held"
    /\ child = "exited" /\ seen = Never => chain = "held"
    /\ seen # Never => child = "exited" /\ chain \in {"resumed", "done", "undefined"}
    /\ chain = "undefined" => seen \in {0, 1}
    /\ kind = "webhook" /\ Alive => file
    /\ Alive => (session <=> read > 0)

FinishInv == finished = IF seen > 0 THEN 1 ELSE 0

(* What has been sent: before the last task nothing but the start, and     *)
(* that only with the first line; the end first only if it was handled     *)
(* before that line.                                                       *)
Start == "cis_job_run_success"

Ended(c) ==
    \/ sent = <<c>>
    \/ sent = Append(<<Start>>, c) /\ read > 0
    \/ sent = Append(<<c>>, Start) /\ read > 0 /\ seen = 0

SentInv ==
    \/ sent = << >>
    \/ sent = <<Start>> /\ read > 0
    \/ ~Alive /\ \E c \in Codes : Ended(c)

(* The code on its way is the one of the last line read, and an exit code  *)
(* is the last line written.                                               *)
Real(c) ==
    /\ c = "0" => \E n \in DOMAIN out : out[n] = "Exit code: 0"
    /\ c = "1" => \E n \in DOMAIN out : out[n] = "Exit code: 1"
    /\ c = "-1" => \A n \in 1 .. seen : out[n] \notin ExitLines

CodeInv ==
    /\ \A n \in DOMAIN out : out[n] \in ExitLines => n = Len(out)
    /\ info.success => seen # Never /\ Real(info.exit_code)
    /\ \A i \in DOMAIN sent : sent[i] \in Codes => seen # Never /\ Real(sent[i])

-----------------------------------------------------------------------------
LEMMA InitTypes == Init => TypeOK
<1> SUFFICES ASSUME Init PROVE TypeOK
    OBVIOUS
<1>1. info \in [success : BOOLEAN, exit_code : Codes]
    BY DEF Init, NoInfo, Codes
<1>2. out \in Seq(Lines) /\ read \in 0 .. Len(out) /\ sent \in Seq(Messages)
    BY DEF Init
<1>3. file \in BOOLEAN /\ open \in BOOLEAN
    BY DEF Init
<1> QED
    BY <1>1, <1>2, <1>3 DEF Init, TypeOK, Never

LEMMA NextTypes == TypeOK /\ [Next]_vars => TypeOK'
<1> SUFFICES ASSUME TypeOK, [Next]_vars PROVE TypeOK'
    OBVIOUS
<1> USE DEF TypeOK
<1>1. CASE JobNotFound
    BY <1>1 DEF JobNotFound, NoInfo, Codes
<1>2. CASE Spawn
    BY <1>2 DEF Spawn
<1>3. CASE SpawnFails
    BY <1>3 DEF SpawnFails
<1>4. ASSUME NEW l \in Lines, Writes(l) PROVE TypeOK'
    <2>1. out' \in Seq(Lines) /\ Len(out') = Len(out) + 1
        BY <1>4 DEF Writes
    <2> QED
        BY <1>4, <2>1 DEF Writes, Never
<1>5. CASE Exits
    BY <1>5 DEF Exits
<1>6. CASE OnLine
    <2>1. read' \in 0 .. Len(out) /\ seen \in {Never} \cup 0 .. read'
        BY <1>6 DEF OnLine, Unread, Never
    <2>2. sent' \in Seq(Messages)
        <3>1. sent' = sent \/ sent' = Append(sent, "cis_job_run_success")
            BY <1>6 DEF OnLine, StartIsTold, Send
        <3> QED
            BY <3>1 DEF Messages
    <2>3. chain' \in {"posted", "held", "resumed", "done", "undefined"}
        BY <1>6 DEF OnLine
    <2>4. session' \in BOOLEAN
        BY <1>6, Zenon DEF OnLine
    <2>5. UNCHANGED <<kind, info, child, out, seen, finished, file, open>>
        BY <1>6 DEF OnLine
    <2> QED
        BY <2>1, <2>2, <2>3, <2>4, <2>5
<1>7. CASE OnExit
    <2>1. info' \in [success : BOOLEAN, exit_code : Codes]
        <3>1. ExitCode \in Codes
            BY DEF ExitCode, Codes
        <3>2. NoInfo \in [success : BOOLEAN, exit_code : Codes]
            BY DEF NoInfo, Codes
        <3>3. info' = [success |-> TRUE, exit_code |-> ExitCode] \/ info' = NoInfo
            BY <1>7 DEF OnExit
        <3>4. [success |-> TRUE, exit_code |-> ExitCode] \in [success : BOOLEAN, exit_code : Codes]
            BY <3>1
        <3> QED
            BY <3>2, <3>3, <3>4, Zenon
    <2>2. finished' \in Nat
        BY <1>7 DEF OnExit, FinishSession
    <2>3. chain' = "resumed" /\ seen' = read
        BY <1>7 DEF OnExit
    <2>4. UNCHANGED <<kind, child, out, read, session, file, open, sent>>
        BY <1>7 DEF OnExit
    <2> QED
        BY <2>1, <2>2, <2>3, <2>4
<1>8. CASE Resume
    <2>1. sent' \in Seq(Messages)
        BY <1>8 DEF Resume, Send, Messages
    <2> QED
        BY <1>8, <2>1 DEF Resume
<1>9. CASE Leave
    BY <1>9 DEF Leave
<1>10. CASE UNCHANGED vars
    BY <1>10 DEF vars
<1> QED
    BY <1>1, <1>2, <1>3, <1>4, <1>5, <1>6, <1>7, <1>8, <1>9, <1>10 DEF Next

(* Every variable keeps its type, whatever the process writes and however  *)
(* the handlers of its lines and of its end are ordered.                   *)
THEOREM TypeCorrect == Spec => []TypeOK
<1> QED
    BY InitTypes, NextTypes, PTL DEF Spec

-----------------------------------------------------------------------------
LEMMA InitStage == Init => StageInv
<1> SUFFICES ASSUME Init PROVE StageInv
    OBVIOUS
<1>1. kind = "webhook" => file
    BY DEF Init
<1>2. session = FALSE /\ read = 0 /\ chain = "posted" /\ child = "none" /\ out = << >> /\ seen = Never
    BY DEF Init
<1>3. session <=> read > 0
    BY <1>2
<1> QED
    BY <1>1, <1>2, <1>3 DEF StageInv, Never

LEMMA NextStage == TypeOK /\ StageInv /\ [Next]_vars => StageInv'
<1> SUFFICES ASSUME TypeOK, StageInv, [Next]_vars PROVE StageInv'
    OBVIOUS
<1> USE DEF StageInv, Alive, Never
<1>1. CASE JobNotFound
    BY <1>1 DEF JobNotFound
<1>2. CASE Spawn
    BY <1>2 DEF Spawn
<1>3. CASE SpawnFails
    BY <1>3 DEF SpawnFails
<1>4. ASSUME NEW l \in Lines, Writes(l) PROVE StageInv'
    BY <1>4 DEF Writes
<1>5. CASE Exits
    BY <1>5 DEF Exits
<1>6. CASE OnLine
    <2>1. read' = read + 1 /\ UNCHANGED <<kind, child, out, seen, file>>
        BY <1>6 DEF OnLine
    <2>2. child # "none"
        BY <1>6 DEF OnLine, Unread, TypeOK
    <2>3. Alive' => Alive
        BY <1>6 DEF OnLine, Destroyed
    <2>4. Alive => (session' <=> read' > 0)
        <3>1. session' <=> (session \/ read = 0)
            BY <1>6 DEF OnLine, FirstLine
        <3>2. read \in Nat
            BY DEF TypeOK
        <3> QED
            BY <2>1, <3>1, <3>2
    <2>5. chain' = chain \/ (chain = "done" /\ chain' = "undefined" /\ seen \in {0, 1})
        <3>1. CASE Destroyed /\ TouchesJob
            <4>1. chain = "done" /\ chain' \in {"undefined", "done"}
                BY <1>6, <3>1 DEF OnLine, Destroyed
            <4>2. seen \in {0, 1}
                BY <2>2, <3>1, <4>1 DEF TouchesJob, TypeOK
            <4> QED
                BY <4>1, <4>2
        <3>2. CASE ~(Destroyed /\ TouchesJob)
            BY <1>6, <3>2 DEF OnLine
        <3> QED
            BY <3>1, <3>2
    <2> QED
        BY <2>1, <2>2, <2>3, <2>4, <2>5
<1>7. CASE OnExit
    BY <1>7 DEF OnExit, TypeOK
<1>8. CASE Resume
    BY <1>8 DEF Resume
<1>9. CASE Leave
    BY <1>9 DEF Leave
<1>10. CASE UNCHANGED vars
    BY <1>10 DEF vars
<1> QED
    BY <1>1, <1>2, <1>3, <1>4, <1>5, <1>6, <1>7, <1>8, <1>9, <1>10 DEF Next

LEMMA InitFinish == Init => FinishInv
    BY DEF Init, FinishInv, Never

LEMMA NextFinish == TypeOK /\ StageInv /\ FinishInv /\ [Next]_vars => FinishInv'
<1> SUFFICES ASSUME TypeOK, StageInv, FinishInv, [Next]_vars PROVE FinishInv'
    OBVIOUS
<1>1. CASE OnExit
    <2>1. finished = 0 /\ seen' = read
        BY <1>1 DEF OnExit, FinishInv, Never
    <2>2. session <=> read > 0
        BY <1>1 DEF OnExit, StageInv, Alive
    <2>3. finished' = IF session THEN finished + 1 ELSE finished
        BY <1>1 DEF OnExit, FinishSession
    <2> QED
        BY <2>1, <2>2, <2>3 DEF FinishInv
<1>2. CASE UNCHANGED <<seen, finished>>
    BY <1>2 DEF FinishInv
<1>3. OnExit \/ UNCHANGED <<seen, finished>>
    BY DEF Next, JobNotFound, Spawn, SpawnFails, Writes, Exits, OnLine, Resume, Leave, vars
<1> QED
    BY <1>1, <1>2, <1>3

LEMMA InitSent == Init => SentInv
    BY DEF Init, SentInv

LEMMA AppendFacts ==
    ASSUME NEW a \in Messages, NEW b \in Messages
    PROVE  /\ Append(<< >>, b) = <<b>>
           /\ LET s == Append(<<a>>, b)
              IN  DOMAIN s = 1 .. 2 /\ s[1] = a /\ s[2] = b
<1>1. << >> \in Seq(Messages) /\ <<a>> \in Seq(Messages)
    OBVIOUS
<1>2. Append(<< >>, b) = <<b>>
    BY <1>1
<1> QED
    BY <1>1, <1>2

LEMMA NextSent == TypeOK /\ StageInv /\ SentInv /\ [Next]_vars => SentInv'
<1> SUFFICES ASSUME TypeOK, StageInv, SentInv, [Next]_vars PROVE SentInv'
    OBVIOUS
<1>1. CASE UNCHANGED <<sent, read>> /\ (Alive' => Alive) /\ (seen' = seen \/ Alive)
    BY <1>1 DEF SentInv, Ended
<1>2. CASE OnLine
    <2>1. read' = read + 1 /\ read \in Nat /\ seen' = seen
        BY <1>2 DEF OnLine, TypeOK
    <2>2. Alive' => Alive
        BY <1>2 DEF OnLine, Destroyed, Alive
    <2>3. CASE sent' = sent
        <3>1. read > 0 => read' > 0
            BY <2>1
        <3>2. ASSUME NEW c \in Codes, Ended(c) PROVE Ended(c)'
            BY <2>1, <2>3, <3>1, <3>2, Zenon DEF Ended
        <3> QED
            BY <2>2, <2>3, <3>1, <3>2, Zenon DEF SentInv
    <2>4. CASE sent' # sent
        <3>1. read = 0 /\ sent' = Append(sent, Start)
            BY <1>2, <2>4 DEF OnLine, StartIsTold, Send, FirstLine, Start
        <3>2. CASE sent = << >>
            <4>1. sent' = <<Start>> /\ read' > 0
                BY <2>1, <3>1, <3>2, AppendFacts DEF Messages, Start
            <4> QED
                BY <4>1 DEF SentInv
        <3>3. ASSUME NEW c \in Codes, ~Alive, sent = <<c>> PROVE SentInv'
            <4>1. seen = 0
                <5>1. child # "none"
                    BY <1>2, <2>1 DEF OnLine, Unread, StageInv, TypeOK
                <5>2. child # "running" /\ seen # Never
                    BY <3>3, <5>1 DEF StageInv, Alive, TypeOK
                <5> QED
                    BY <3>1, <5>2 DEF TypeOK
            <4>2. sent' = Append(<<c>>, Start)
                BY <3>1, <3>3
            <4>3. Ended(c)'
                BY <2>1, <4>1, <4>2 DEF Ended
            <4>4. ~Alive'
                BY <2>2, <3>3
            <4> QED
                BY <4>3, <4>4 DEF SentInv
        <3>4. sent = << >> \/ (~Alive /\ \E c \in Codes : sent = <<c>>)
            <4>1. ~(read > 0)
                BY <3>1
            <4> QED
                BY <4>1, Zenon DEF SentInv, Ended
        <3> QED
            BY <3>2, <3>3, <3>4, Zenon
    <2> QED
        BY <2>3, <2>4
<1>3. CASE Resume
    <2>1. ~Alive' /\ UNCHANGED <<read, seen>>
        BY <1>3 DEF Resume, Alive
    <2>2. sent = << >> \/ (sent = <<Start>> /\ read > 0)
        BY <1>3 DEF Resume, SentInv, Alive
    <2>3. sent' = sent \/ sent' = Append(sent, info.exit_code)
        BY <1>3 DEF Resume, Send
    <2>4. info.exit_code \in Codes
        BY DEF TypeOK
    <2>5. CASE sent' = sent
        BY <2>1, <2>2, <2>5 DEF SentInv
    <2>6. CASE sent' = Append(sent, info.exit_code)
        <3>1. PICK c \in Codes : sent' = Append(sent, c)
            BY <2>4, <2>6
        <3>2. c \in Messages /\ Start \in Messages
            BY DEF Messages, Start
        <3>3. sent' = <<c>> \/ (sent' = Append(<<Start>>, c) /\ read > 0)
            BY <2>2, <3>1, <3>2, AppendFacts
        <3>4. Ended(c)'
            BY <2>1, <3>3 DEF Ended
        <3> QED
            BY <2>1, <3>4, Zenon DEF SentInv
    <2> QED
        BY <2>3, <2>5, <2>6
<1>4. OnLine \/ Resume \/ (UNCHANGED <<sent, read>> /\ (Alive' => Alive) /\ (seen' = seen \/ Alive))
    BY DEF Next, JobNotFound, Spawn, SpawnFails, Writes, Exits, OnExit, Leave, vars, Alive
<1> QED
    BY <1>1, <1>2, <1>3, <1>4

LEMMA InitCode == Init => CodeInv
    BY DEF Init, CodeInv, NoInfo

(* What was real stays real once the end has been handled: the process     *)
(* writes no more.                                                         *)
LEMMA RealStays ==
    ASSUME StageInv, [Next]_vars, seen # Never
    PROVE  out' = out /\ seen' = seen
    BY DEF StageInv, Never, Next, JobNotFound, Spawn, SpawnFails, Writes, Exits, OnLine,
           OnExit, Resume, Leave, vars

(* The code the end of the process reports. *)
LEMMA ExitCodeReal ==
    ASSUME TypeOK, CodeInv, OnExit
    PROVE  Real(ExitCode)'
<1>1. seen' = read /\ out' = out
    BY DEF OnExit
<1>2. read \in Nat /\ read <= Len(out) /\ out \in Seq(Lines)
    BY DEF TypeOK
<1>3. \A n \in 1 .. read : n \in DOMAIN out /\ out[n] \in Lines
    BY <1>2
<1>4. ASSUME ExitCode = "-1" PROVE \A n \in 1 .. read : out[n] \notin ExitLines
    <2> SUFFICES ASSUME NEW n \in 1 .. read, out[n] \in ExitLines PROVE FALSE
        OBVIOUS
    <2>1. n = Len(out)
        BY <1>3 DEF CodeInv
    <2>2. n = read
        BY <1>2, <2>1
    <2>3. out[read] \in {"Exit code: 0", "Exit code: 1"}
        BY <2>2 DEF ExitLines, Lines
    <2>4. read > 0
        BY <1>2
    <2>5. ExitCode \in {"0", "1"}
        BY <2>3, <2>4 DEF ExitCode
    <2> QED
        BY <1>4, <2>5
<1>5. ASSUME ExitCode = "0" PROVE \E n \in DOMAIN out : out[n] = "Exit code: 0"
    <2>1. read > 0
        BY <1>5 DEF ExitCode
    <2>2. out[read] = "Exit code: 0"
        BY <1>5 DEF ExitCode
    <2>3. read \in DOMAIN out
        BY <1>2, <1>3, <2>1
    <2> QED
        BY <2>2, <2>3, Zenon
<1>6. ASSUME ExitCode = "1" PROVE \E n \in DOMAIN out : out[n] = "Exit code: 1"
    <2>1. read > 0
        BY <1>6 DEF ExitCode
    <2>2. out[read] = "Exit code: 1"
        BY <1>6 DEF ExitCode
    <2>3. read \in DOMAIN out
        BY <1>2, <1>3, <2>1
    <2> QED
        BY <2>2, <2>3, Zenon
<1>7. ExitCode' = ExitCode
    BY <1>1 DEF ExitCode, OnExit
<1> QED
    BY <1>1, <1>4, <1>5, <1>6, <1>7 DEF Real

LEMMA NextCode == TypeOK /\ StageInv /\ CodeInv /\ [Next]_vars => CodeInv'
<1> SUFFICES ASSUME TypeOK, StageInv, CodeInv, [Next]_vars PROVE CodeInv'
    OBVIOUS
<1>1. \A n \in DOMAIN out' : out'[n] \in ExitLines => n = Len(out')
    <2>1. CASE out' = out
        BY <2>1 DEF CodeInv
    <2>2. ASSUME NEW l \in Lines, Writes(l)
          PROVE  \A n \in DOMAIN out' : out'[n] \in ExitLines => n = Len(out')
        <3>1. out' = Append(out, l) /\ out \in Seq(Lines)
            BY <2>2 DEF Writes, TypeOK
        <3>2. \A n \in DOMAIN out : out[n] \notin ExitLines
            BY <2>2 DEF Writes
        <3> QED
            BY <3>1, <3>2
    <2>3. out' = out \/ \E l \in Lines : Writes(l)
        BY DEF Next, JobNotFound, Spawn, SpawnFails, Exits, OnLine, OnExit, Resume, Leave, vars
    <2> QED
        BY <2>1, <2>2, <2>3
<1>2. info'.success => seen' # Never /\ Real(info.exit_code)'
    <2>1. CASE info' = info
        BY <2>1, RealStays DEF CodeInv, Real
    <2>2. CASE info' = NoInfo
        BY <2>2 DEF NoInfo
    <2>3. CASE OnExit /\ info' = [success |-> TRUE, exit_code |-> ExitCode]
        <3>1. info'.exit_code = ExitCode /\ ExitCode' = ExitCode
            BY <2>3 DEF OnExit, ExitCode
        <3>2. seen' # Never
            BY <2>3 DEF OnExit, TypeOK, Never
        <3>3. Real(ExitCode)'
            BY <2>3, ExitCodeReal
        <3> QED
            BY <3>1, <3>2, <3>3 DEF Real
    <2>4. info' = info \/ info' = NoInfo
          \/ (OnExit /\ info' = [success |-> TRUE, exit_code |-> ExitCode])
        BY DEF Next, JobNotFound, Spawn, SpawnFails, Writes, Exits, OnLine, OnExit, Resume,
               Leave, vars
    <2> QED
        BY <2>1, <2>2, <2>3, <2>4
<1>3. \A i \in DOMAIN sent' : sent'[i] \in Codes => seen' # Never /\ Real(sent[i])'
    <2>1. CASE sent' = sent
        BY <2>1, RealStays DEF CodeInv, Real
    <2>2. CASE sent' = Append(sent, "cis_job_run_success")
        <3>1. \A i \in DOMAIN sent' :
                  (i \in DOMAIN sent /\ sent'[i] = sent[i]) \/ sent'[i] = "cis_job_run_success"
            BY <2>2 DEF TypeOK
        <3> QED
            BY <3>1, RealStays DEF CodeInv, Real, Codes
    <2>3. CASE Resume /\ info.success /\ sent' = Append(sent, info.exit_code)
        <3>1. \A i \in DOMAIN sent' :
                  (i \in DOMAIN sent /\ sent'[i] = sent[i]) \/ sent'[i] = info.exit_code
            BY <2>3 DEF TypeOK
        <3> QED
            BY <2>3, <3>1, RealStays DEF CodeInv, Real
    <2>4. sent' = sent \/ sent' = Append(sent, "cis_job_run_success")
          \/ (Resume /\ info.success /\ sent' = Append(sent, info.exit_code))
        BY DEF Next, JobNotFound, Spawn, SpawnFails, Writes, Exits, OnLine, OnExit, Resume,
               Leave, StartIsTold, Send, vars
    <2> QED
        BY <2>1, <2>2, <2>3, <2>4
<1> QED
    BY <1>1, <1>2, <1>3 DEF CodeInv

-----------------------------------------------------------------------------
(* A client is told of the start and of the end of its run at most once    *)
(* each, and of the end first only if it was handled before the first line *)
(* was read, whose callback then works on a destroyed job.                 *)
THEOREM Answers == Spec => []AnswersInOrder
<1>1. SentInv => AnswersInOrder
    <2> SUFFICES ASSUME SentInv, NEW i \in DOMAIN sent, NEW j \in DOMAIN sent, i < j
                 PROVE  \/ sent[i] = Start /\ sent[j] \in Codes
                        \/ seen = 0 /\ sent[i] \in Codes /\ sent[j] = Start
        BY DEF AnswersInOrder, Start
    <2>1. sent # << >> /\ (\A x : sent # <<x>>)
        <3>1. DOMAIN << >> = {} /\ \A x : DOMAIN <<x>> = 1 .. 1
            OBVIOUS
        <3> QED
            BY <3>1
    <2>2. PICK c \in Codes : Ended(c) /\ sent # <<c>>
        BY <2>1, Zenon DEF SentInv
    <2>3. c \in Messages /\ Start \in Messages
        BY DEF Messages, Start
    <2>4. CASE sent = Append(<<Start>>, c)
        BY <2>3, <2>4, AppendFacts
    <2>5. CASE sent = Append(<<c>>, Start) /\ seen = 0
        BY <2>3, <2>5, AppendFacts
    <2> QED
        BY <2>2, <2>4, <2>5 DEF Ended
<1> QED
    BY <1>1, InitTypes, NextTypes, InitStage, NextStage, InitSent, NextSent, PTL DEF Spec

(* No failed run is reported as a success, whatever the process writes and *)
(* whichever of its lines are overtaken by its end.                        *)
THEOREM Honest == Spec => []CodeIsReal
<1>1. TypeOK /\ CodeInv => CodeIsReal
    <2> SUFFICES ASSUME TypeOK, CodeInv, NEW i \in DOMAIN sent
                 PROVE  /\ sent[i] = "0" => "Exit code: 0" \in ToSet(out)
                        /\ sent[i] = "1" => "Exit code: 1" \in ToSet(out)
                        /\ sent[i] = "-1" => \A n \in 1 .. seen : out[n] \notin ExitLines
        BY DEF CodeIsReal
    <2>1. sent[i] \in Codes => Real(sent[i])
        BY DEF CodeInv
    <2> QED
        BY <2>1 DEF Real, Codes, ToSet
<1> QED
    BY <1>1, InitTypes, NextTypes, InitStage, NextStage, InitCode, NextCode, PTL DEF Spec

(* The session of a run is finished at most once, and exactly once if the  *)
(* line with its id was read before the end of the process was handled.    *)
THEOREM Finishes == Spec => []AnnouncedIsFinished
<1>1. TypeOK /\ StageInv /\ FinishInv => AnnouncedIsFinished
    BY DEF TypeOK, StageInv, FinishInv, AnnouncedIsFinished, Never
<1> QED
    BY <1>1, InitTypes, NextTypes, InitStage, NextStage, InitFinish, NextFinish, PTL DEF Spec

(* The file a webhook's process reads is not removed while it runs.        *)
THEOREM FileStays == Spec => []FileOutlivesProcess
<1>1. StageInv => FileOutlivesProcess
    BY DEF StageInv, FileOutlivesProcess, Alive
<1> QED
    BY <1>1, InitTypes, NextTypes, InitStage, NextStage, PTL DEF Spec

(* The overtaking of the first two lines is the only way to the use of a   *)
(* destroyed job.                                                          *)
THEOREM OnlyOvertaking == Spec => []UndefinedOnlyIfOvertaken
<1>1. StageInv => UndefinedOnlyIfOvertaken
    BY DEF StageInv, UndefinedOnlyIfOvertaken, Defined
<1> QED
    BY <1>1, InitTypes, NextTypes, InitStage, NextStage, PTL DEF Spec
==============================================================================
