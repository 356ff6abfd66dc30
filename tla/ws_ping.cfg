\* The assertion in basic_websocket_session::on_ping.
SPECIFICATION FairSpec
CONSTANTS
  Limit = 3
  MaxQueue = 6
  MaxReplies = 2
INVARIANT PingAssertion
CHECK_DEADLOCK FALSE
