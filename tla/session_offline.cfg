\* The claim made by the comment in offline_session::establish.
SPECIFICATION Spec
CONSTANTS
  x1 = x1
  x2 = x2
  c1 = c1
  c2 = c2
  f1 = f1
  s1 = s1
  s2 = s2
  s3 = s3
  s4 = s4
  NoOne = NoOne
  Sids = {x1, x2}
  OldSids = {x2}
  Conns = {c1, c2}
  Feeds = {f1}
  Subs = {s1,s2,s3,s4}
  MaxLogs = 1
  KeyMod = 4
INVARIANT OfflineNeverEstablished
CHECK_DEADLOCK FALSE
