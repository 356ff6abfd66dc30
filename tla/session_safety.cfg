\* One session id and four subscriptions on one connection: enough for one
\* more than its table may have.
\* The system may stop: the connection closed, every subscription used.
SPECIFICATION Spec
CONSTANTS
  x1 = x1
  x2 = x2
  c1 = c1
  c2 = c2
  f1 = f1
  s1 = s1
  s2 = s2
  s3 = s3
  s4 = s4
  NoOne = NoOne
  Sids = {x1}
  OldSids = {}
  Conns = {c1}
  Feeds = {f1}
  Subs = {s1,s2,s3,s4}
  MaxLogs = 1
  KeyMod = 4
SYMMETRY Symm
INVARIANTS TypeOK DeafOnlyIfShadowed AtMostThree
PROPERTY ImplementsLogFeed
CHECK_DEADLOCK FALSE
