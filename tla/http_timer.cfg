\* The comment in http_session::run: the timer is operated continuously. The
\* system stops once the connection is destroyed.
SPECIFICATION Spec
CONSTANTS
  Limit = 2
  MaxQueue = 5
  MaxReads = 2
INVARIANTS TimerOperated
CHECK_DEADLOCK FALSE
