\* A queue limit of three, and room for as many messages again beyond it.
\* The system stops once the connection is closed.
SPECIFICATION FairSpec
CONSTANTS
  Limit = 3
  MaxQueue = 6
  MaxReplies = 2
INVARIANTS TypeOK ReaderNeverLost OneWrite
PROPERTIES ClosedOnlyWhenIdle SilentPeerReleased
CHECK_DEADLOCK FALSE
