\* Up to four lines: the session id, the status, one of the job's own and the
\* exit code. The system stops once the job is destroyed.
SPECIFICATION FairSpec
CONSTANT MaxLines = 4
INVARIANTS TypeOK AnswersInOrder CodeIsReal AnnouncedIsFinished FileOutlivesProcess UndefinedOnlyIfOvertaken
PROPERTIES Answered Drained
CHECK_DEADLOCK FALSE
