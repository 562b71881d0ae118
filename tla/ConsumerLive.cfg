SPECIFICATION FairSpec
CONSTANTS
  c1 = c1
  c2 = c2
  none = none
  t1 = t1
  t2 = t2
  Threads = {c1}
  NoThread = none
  Starters = {c1}
  Topics = {t1, t2}
  Requests = {0, 1}
  MaxLog <- TwoLogs
  Faults = {}
  MaxErrors = 1
PROPERTIES ProbeEnds AllDelivered
INVARIANT InSequence
