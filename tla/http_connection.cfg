\* A queue limit of two, and room for three responses more.
\* The system stops once the connection is destroyed.
SPECIFICATION FairSpec
CONSTANTS
  Limit = 2
  MaxQueue = 5
  MaxReads = 2
INVARIANTS TypeOK ReaderNeverLost OneWrite
PROPERTIES ClosedOnlyWhenLate SilentPeerReleased MuteReleased
CHECK_DEADLOCK FALSE
