-------------------------------- MODULE JobRun --------------------------------
(***************************************************************************)
(* One run of a job: cis::cis_job and child_process, the task chain that   *)
(* cis_manager::run_job is started in, and the request that asked for it   *)
(* (the websocket handler run_job, or a webhook).                          *)
(*                                                                         *)
(* The startjob program writes lines to a pipe: the session id, a status   *)
(* line, whatever the job says, and at last its exit code.  line_reader    *)
(* hands them on one completion at a time; the end of the process is a     *)
(* completion of its own, and may overtake them.  The continuation of the  *)
(* chain holds the chain, the chain its tasks, a task the job, and the job *)
(* the continuation: the end of the process cuts this circle, and the job  *)
(* is destroyed when the continuation has run.                             *)
(***************************************************************************)
EXTENDS Integers, SequencesExt

CONSTANT MaxLines   \* bound on the lines the process writes

ASSUME JobRunAssumption == MaxLines \in Nat

VARIABLES
    kind,      \* who asked: "websocket" or "webhook"
    chain,     \* the task chain: "posted", "held" by the job's callbacks,
               \* "resumed" (its continuation is posted), "done" (destroyed, with
               \* the job), "undefined" (a line was handed to a destroyed job)
    info,      \* the execution_info on its way: its success and exit_code
    child,     \* "none", "running", "exited"
    out,       \* the lines the process wrote
    read,      \* how many of them line_reader has handed on
    session,   \* whether session_id_ is set
    seen,      \* the lines read when the end of the process was handled, or Never
    finished,  \* calls of finish_session
    file,      \* whether the file with the webhook's body exists
    open,      \* whether the websocket is open
    sent       \* the messages sent to it

vars == <<kind, chain, info, child, out, read, session, seen, finished, file, open, sent>>

Lines == {"text", "Exit code: 0", "Exit code: 1"}

ExitLines == Lines \ {"text"}

(* -1: the last line read was no exit code. *)
Codes == {"0", "1", "-1"}

Never == -1

NoInfo == [success |-> FALSE, exit_code |-> "-1"]

Messages == {"cis_job_run_success"} \cup Codes    \* a code: cis_job_finished

Destroyed == chain = "done"

-----------------------------------------------------------------------------
(* transaction::send: nothing when the websocket is gone. *)
Send(m) == sent' = IF open THEN Append(sent, m) ELSE sent

(* cis_manager::run_job in the chain.  A job that is not found, or no      *)
(* longer, resumes the chain at once.                                      *)
JobNotFound ==
    /\ chain = "posted"
    /\ chain' = "resumed"
    /\ info' = NoInfo
    /\ UNCHANGED <<kind, child, out, read, session, seen, finished, file, open, sent>>

(* variant: the chain goes on while the job runs *)
SpawnAndResume ==
    /\ chain = "posted"
    /\ chain' = "resumed"
    /\ child' = "running"
    /\ UNCHANGED <<kind, info, out, read, session, seen, finished, file, open, sent>>

(* child_process::run: the reader is started, then the process. *)
Spawn ==
    /\ chain = "posted"
    /\ chain' = "held"
    /\ child' = "running"
    /\ UNCHANGED <<kind, info, out, read, session, seen, finished, file, open, sent>>

(* The process cannot be started: the error is logged, the callbacks are   *)
(* dropped, and the circle is never cut.                                   *)
SpawnFails ==
    /\ chain = "posted"
    /\ chain' = "held"
    /\ UNCHANGED <<kind, info, child, out, read, session, seen, finished, file, open, sent>>

-----------------------------------------------------------------------------
(* The process, outside this program: an exit code is its last line. *)
Writes(l) ==
    /\ child = "running"
    /\ Len(out) < MaxLines
    /\ \A i \in DOMAIN out : out[i] \notin ExitLines
    /\ out' = Append(out, l)
    /\ UNCHANGED <<kind, chain, info, child, read, session, seen, finished, file, open, sent>>

Exits ==
    /\ child = "running"
    /\ child' = "exited"
    /\ UNCHANGED <<kind, chain, info, out, read, session, seen, finished, file, open, sent>>

-----------------------------------------------------------------------------
(* variants: only the first two lines are asked for; the end of the pipe   *)
(* is taken for a line                                                     *)
UnreadHead == read < Len(out) /\ read < 2
UnreadOrEnd == read <= Len(out) /\ child # "none"

Unread == read < Len(out)

(* variant: every line *)
EveryLine == TRUE

(* The callback works on the job for the first two lines. *)
TouchesJob == read < 2

(* The callback of the first line. *)
FirstLine == read = 0

(* The client is told that its job has started. *)
StartIsTold == IF kind = "websocket" THEN Send("cis_job_run_success") ELSE UNCHANGED sent

(* line_reader's handler, with cis_job's callback in it: the first line is *)
(* the session id, the second has the build.  A job that is destroyed by   *)
(* then is used all the same, which may be noticed or not: the client may  *)
(* well be told.                                                           *)
OnLine ==
    /\ Unread
    /\ read' = read + 1
    /\ session' = (session \/ FirstLine)
    /\ IF FirstLine THEN StartIsTold \/ (Destroyed /\ UNCHANGED sent) ELSE UNCHANGED sent
    /\ IF Destroyed /\ TouchesJob THEN chain' \in {"undefined", chain} ELSE UNCHANGED chain
    /\ UNCHANGED <<kind, info, child, out, seen, finished, file, open>>

(* variant: no exit code counts as success *)
CodeOrZero ==
    IF read > 0 /\ out[read] = "Exit code: 1" THEN "1" ELSE "0"

(* The exit code as the last line read has it. *)
ExitCode ==
    IF read > 0 /\ out[read] = "Exit code: 0" THEN "0"
    ELSE IF read > 0 /\ out[read] = "Exit code: 1" THEN "1"
    ELSE "-1"

(* variant: only a run with an exit code finishes its session *)
FinishIfCode == IF session /\ ExitCode # "-1" THEN finished + 1 ELSE finished

FinishSession == IF session THEN finished + 1 ELSE finished

(* child_process's on_exit: on_success, or on_error when waiting for the   *)
(* process failed.                                                         *)
OnExit ==
    /\ child = "exited" /\ seen = Never
    /\ chain = "held"
    /\ seen' = read
    /\ finished' = FinishSession
    /\ info' \in {[success |-> TRUE, exit_code |-> ExitCode], NoInfo}
    /\ chain' = "resumed"
    /\ UNCHANGED <<kind, child, out, read, session, file, open, sent>>

(* variant: the file is removed if the run was successful *)
ResumeIfSuccess ==
    /\ chain = "resumed"
    /\ chain' = "done"
    /\ IF kind = "websocket" /\ info.success THEN Send(info.exit_code) ELSE UNCHANGED sent
    /\ file' = (file /\ ~info.success)
    /\ UNCHANGED <<kind, info, child, out, read, session, seen, finished, open>>

(* The last task: a websocket is told how a successful run ended, the file *)
(* of a webhook is removed.  The chain and the job are destroyed.          *)
Resume ==
    /\ chain = "resumed"
    /\ chain' = "done"
    /\ IF kind = "websocket" /\ info.success THEN Send(info.exit_code) ELSE UNCHANGED sent
    /\ file' = FALSE
    /\ UNCHANGED <<kind, info, child, out, read, session, seen, finished, open>>

(* The websocket is closed. *)
Leave ==
    /\ kind = "websocket" /\ open
    /\ open' = FALSE
    /\ UNCHANGED <<kind, chain, info, child, out, read, session, seen, finished, file, sent>>

-----------------------------------------------------------------------------
(* run_job, or webhooks_handler::finish after save_body: the chain has     *)
(* been posted.                                                            *)
Init ==
    /\ kind \in {"websocket", "webhook"}
    /\ chain = "posted"
    /\ info = NoInfo
    /\ child = "none"
    /\ out = << >>
    /\ read = 0
    /\ session = FALSE
    /\ seen = Never
    /\ finished = 0
    /\ file = (kind = "webhook")
    /\ open = (kind = "websocket")
    /\ sent = << >>

Defined == chain # "undefined"

Next ==
    /\ Defined
    /\ \/ JobNotFound \/ Spawn \/ SpawnFails
       \/ (\E l \in Lines : Writes(l)) \/ Exits
       \/ OnLine \/ OnExit \/ Resume
       \/ Leave

Spec == Init /\ [][Next]_vars

(* The io_context runs the handlers that are ready.  The process may run   *)
(* for ever.                                                               *)
Fairness == WF_vars(Defined /\ OnLine) /\ WF_vars(OnExit) /\ WF_vars(Resume)

FairSpec == Spec /\ Fairness

-----------------------------------------------------------------------------
(* Properties *)

(* The type of every variable. *)
TypeOK ==
    /\ kind \in {"websocket", "webhook"}
    /\ chain \in {"posted", "held", "resumed", "done", "undefined"}
    /\ info \in [success : BOOLEAN, exit_code : Codes]
    /\ child \in {"none", "running", "exited"}
    /\ out \in Seq(Lines)
    /\ read \in 0 .. Len(out)
    /\ session \in BOOLEAN
    /\ seen \in {Never} \cup 0 .. read
    /\ finished \in Nat
    /\ file \in BOOLEAN
    /\ open \in BOOLEAN
    /\ sent \in Seq(Messages)

(* A client is told at most once that its job started and at most once     *)
(* that it finished, and in this order unless the end of the process was   *)
(* handled before the line that has the session id.                        *)
AnswersInOrder ==
    \A i, j \in DOMAIN sent :
        i < j => \/ sent[i] = "cis_job_run_success" /\ sent[j] \in Codes
                 \/ seen = 0 /\ sent[i] \in Codes /\ sent[j] = "cis_job_run_success"

(* The exit code a client is told is the one the process wrote, or -1 when *)
(* it wrote none or its end overtook that line: a failed job is never      *)
(* reported as a success.                                                  *)
CodeIsReal ==
    \A i \in DOMAIN sent :
        /\ sent[i] = "0" => "Exit code: 0" \in ToSet(out)
        /\ sent[i] = "1" => "Exit code: 1" \in ToSet(out)
        /\ sent[i] = "-1" => \A n \in 1 .. seen : out[n] \notin ExitLines

(* A session that was announced is finished exactly once when the process  *)
(* has ended, so that those who watch it are told; it is never finished    *)
(* only if the end of the process overtook the line with its id.           *)
AnnouncedIsFinished ==
    /\ finished \in {0, 1}
    /\ session /\ child = "exited" /\ chain \in {"resumed", "done"} =>
          finished = 1 \/ seen = 0

(* The file with a webhook's body is there for as long as the process that *)
(* was given its name runs.                                                *)
FileOutlivesProcess == kind = "webhook" /\ child = "running" => file

(* A line is handed to a destroyed job only if the end of the process      *)
(* overtook one of the first two lines.                                    *)
UndefinedOnlyIfOvertaken == ~Defined => seen \in {0, 1}

(* Once the process has ended everything is released, in whatever order    *)
(* the lines and the end are handled, and a websocket that is still there  *)
(* has been told how the run ended; but it is told nothing when waiting    *)
(* for the process failed (on_error).                                      *)
Answered ==
    child = "exited" ~>
        \/ /\ chain = "done" /\ ~file
           /\ kind = "websocket" /\ open /\ info.success => \E i \in DOMAIN sent : sent[i] \in Codes
        \/ ~Defined

(* Every line the process writes is read: it never blocks on its output.   *)
Drained == \A n \in 1 .. MaxLines : Len(out) >= n ~> read >= n \/ ~Defined
==============================================================================
