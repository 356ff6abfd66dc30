\* Two connections on one session.  Fairness of the clock and the callbacks;
\* no symmetry.
SPECIFICATION FairSpec
CONSTANTS
  x1 = x1
  x2 = x2
  c1 = c1
  c2 = c2
  f1 = f1
  s1 = s1
  s2 = s2
  s3 = s3
  s4 = s4
  NoOne = NoOne
  Sids = {x1}
  OldSids = {}
  Conns = {c1, c2}
  Feeds = {f1}
  Subs = {s1,s2}
  MaxLogs = 1
  KeyMod = 3
INVARIANTS WholeLog OverIsTold NotEstablishedSawNothing
PROPERTIES SilencedForACause PendingResolved SessionReleased
CHECK_DEADLOCK FALSE
