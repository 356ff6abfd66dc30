SPECIFICATION Spec
CONSTANTS
    Uploads <- MCUploads
    Absent = Absent
    Forms <- MCForms
    FileNames <- MCFileNames
    Chunks <- MCChunks
    Bytes <- MCBytes
INVARIANTS AnsweredIsStored WellFormedIsAnswered
\* all requests may be over, or the program
CHECK_DEADLOCK FALSE
