\* get_parser finds the parser it asks for: a queue limit of two, and room for
\* three responses more. The system stops once the connection is destroyed.
SPECIFICATION Spec
CONSTANTS
  Limit = 2
  MaxQueue = 5
  MaxReads = 2
INVARIANTS ParserFits
CHECK_DEADLOCK FALSE
